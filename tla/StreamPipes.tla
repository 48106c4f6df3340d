----------------------------- MODULE StreamPipes -----------------------------
(***************************************************************************)
(* What a relay promises, whatever it is made of: one pipe per direction.  *)
(* A destination is handed ever longer prefixes of what its source sends,  *)
(* is told of an end at most once, and hears nothing behind it.  An end is *)
(* either complete, which takes a source that finished and every byte of   *)
(* it delivered, or cut, by a fault or a timeout.                          *)
(*                                                                         *)
(* Splice and AsyncSplice implement it.                                    *)
(***************************************************************************)
EXTENDS Integers, Sequences

CONSTANTS
  Pipes,   \* one per direction
  Content  \* what each source sends

VARIABLES
  finished,   \* the pipes whose source has said that it sends no more
  delivered,  \* what each destination was handed
  end         \* "open", or how each destination's stream ended

pipeVars == <<finished, delivered, end>>

Init ==
  /\ finished = {}
  /\ delivered = [p \in Pipes |-> <<>>]
  /\ end = [p \in Pipes |-> "open"]

Finish(p) ==
  /\ p \notin finished
  /\ finished' = finished \cup {p}
  /\ UNCHANGED <<delivered, end>>

Deliver(p) ==
  /\ end[p] = "open"
  /\ \E n \in Len(delivered[p]) + 1 .. Len(Content[p]) :
       delivered' = [delivered EXCEPT ![p] = SubSeq(Content[p], 1, n)]
  /\ UNCHANGED <<finished, end>>

Complete(p) ==
  /\ end[p] = "open"
  /\ p \in finished
  /\ delivered[p] = Content[p]
  /\ end' = [end EXCEPT ![p] = "complete"]
  /\ UNCHANGED <<finished, delivered>>

Cut(p) ==
  /\ end[p] = "open"
  /\ end' = [end EXCEPT ![p] = "cut"]
  /\ UNCHANGED <<finished, delivered>>

Next == \E p \in Pipes : Finish(p) \/ Deliver(p) \/ Complete(p) \/ Cut(p)

Spec == Init /\ [][Next]_pipeVars

=============================================================================
