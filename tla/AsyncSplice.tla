----------------------------- MODULE AsyncSplice -----------------------------
(***************************************************************************)
(* The default relay of the asyncio server: async_splice() and its two     *)
(* _pump() coroutines (server/aio.py), with the stream pairs they run on.  *)
(*                                                                         *)
(* A coroutine runs from one await to the next without interruption, so a  *)
(* step is what happens between two of them: read() returns, the chunk is  *)
(* written, and drain() waits only if the writer is paused.  write() only  *)
(* appends to the transport's buffer, which the event loop empties.        *)
(*                                                                         *)
(* A connection that breaks does so in two steps, as in asyncio: the       *)
(* transport is closing (its buffer is dropped, is_closing() is true), and *)
(* a little later connection_lost() makes its reader and its drain() raise.*)
(***************************************************************************)
EXTENDS Integers, Sequences

CONSTANTS
  Source,     \* what each endpoint sends, by direction
  HighWater,  \* a writer with more than this in its buffer is paused
  LowWater,   \* and resumed when it has no more than this
  Chunk       \* how many bytes one read() returns at most

Directions == {"out", "in"}   \* "out": from the client to the upstream
Ends       == {"client", "upstream"}
Src        == [out |-> "client", in |-> "upstream"]
Dst        == [out |-> "upstream", in |-> "client"]
Back       == [out |-> "in", in |-> "out"]

ASSUME AsyncSpliceAssumption ==
  /\ Source \in [Directions -> Seq(Nat)]
  /\ HighWater \in Nat
  /\ LowWater \in 0 .. HighWater
  /\ Chunk \in Nat \ {0}

VARIABLES
  unsent,     \* what has not been read from each direction's source
  finished,   \* the directions whose source has sent its FIN
  buffer,     \* what each writer's transport holds
  paused,     \* the directions whose writer is paused
  eof,        \* the directions with a write_eof() on their writer
  delivered,  \* what each destination was sent
  shut,       \* the directions whose destination was sent a FIN
  at,         \* the await each pump stands at, or "done"
  why,        \* how each pump ended
  closing,    \* the endpoints whose transport is closing
  lost,       \* the endpoints whose connection_lost() has run
  cancelled,  \* the awaiting task was cancelled
  returned    \* gather() is over

streams == <<unsent, finished>>
writers == <<buffer, paused, eof, delivered, shut>>
pumps   == <<at, why>>
faults  == <<closing, lost, cancelled>>
vars    == <<streams, writers, pumps, faults, returned>>

All(x) == [d \in Directions |-> x]

Init ==
  /\ unsent = Source
  /\ finished = {}
  /\ buffer = All(<<>>)
  /\ paused = {}
  /\ eof = {}
  /\ delivered = All(<<>>)
  /\ shut = {}
  /\ at = All("read")
  /\ why = All("running")
  /\ closing = {}
  /\ lost = {}
  /\ cancelled = FALSE
  /\ returned = FALSE

-----------------------------------------------------------------------------
(* _pump(). *)

IsClosing(d) == Dst[d] \in closing

\* Mutant: write_eof() stands behind the loop and not in the finally clause.
WriteEof_AfterEof(d, reason) ==
  eof' = IF IsClosing(d) \/ reason # "eof" THEN eof ELSE eof \cup {d}

\* The finally clause.
WriteEof(d, reason) == eof' = IF IsClosing(d) THEN eof ELSE eof \cup {d}

\* The loop is left, for the finally clause and the end of the coroutine.
Stop(d, reason) ==
  /\ at' = [at EXCEPT ![d] = "done"]
  /\ why' = [why EXCEPT ![d] = reason]
  /\ WriteEof(d, reason)
  /\ UNCHANGED <<finished, buffer, paused, delivered, shut, faults, returned>>

Reads(d) == at[d] = "read" /\ Src[d] \notin lost

\* Mutant: no test of is_closing().
Copy_NoTest(d) ==
  /\ Reads(d)
  /\ \E n \in 1 .. Chunk :
       /\ n <= Len(unsent[d])
       /\ unsent' = [unsent EXCEPT ![d] = SubSeq(@, n + 1, Len(@))]
       /\ buffer' = [buffer EXCEPT ![d] = @ \o SubSeq(unsent[d], 1, n)]
       /\ IF Len(buffer[d]) + n > HighWater
            THEN paused' = paused \cup {d} /\ at' = [at EXCEPT ![d] = "drain"]
            ELSE UNCHANGED <<paused, at>>
  /\ UNCHANGED <<finished, eof, delivered, shut, why, faults, returned>>

\* read(), write(), drain().
Copy(d) ==
  /\ Reads(d)
  /\ ~IsClosing(d)
  /\ \E n \in 1 .. Chunk :
       /\ n <= Len(unsent[d])
       /\ unsent' = [unsent EXCEPT ![d] = SubSeq(@, n + 1, Len(@))]
       /\ buffer' = [buffer EXCEPT ![d] = @ \o SubSeq(unsent[d], 1, n)]
       /\ IF Len(buffer[d]) + n > HighWater
            THEN paused' = paused \cup {d} /\ at' = [at EXCEPT ![d] = "drain"]
            ELSE UNCHANGED <<paused, at>>
  /\ UNCHANGED <<finished, eof, delivered, shut, why, faults, returned>>

\* `if writer.is_closing(): break': the chunk that was read is dropped.
CopyClosing(d) ==
  /\ Reads(d)
  /\ IsClosing(d)
  /\ \E n \in 1 .. Chunk :
       /\ n <= Len(unsent[d])
       /\ unsent' = [unsent EXCEPT ![d] = SubSeq(@, n + 1, Len(@))]
  /\ Stop(d, "closing")

ReadEof(d) ==
  /\ Reads(d)
  /\ unsent[d] = <<>>
  /\ d \in finished
  /\ Stop(d, "eof")
  /\ UNCHANGED unsent

ReadRaises(d) ==
  /\ at[d] = "read"
  /\ Src[d] \in lost
  /\ Stop(d, "error")
  /\ UNCHANGED unsent

Drained(d) ==
  /\ at[d] = "drain"
  /\ d \notin paused
  /\ at' = [at EXCEPT ![d] = "read"]
  /\ UNCHANGED <<streams, writers, why, faults, returned>>

DrainRaises(d) ==
  /\ at[d] = "drain"
  /\ Dst[d] \in lost
  /\ Stop(d, "error")
  /\ UNCHANGED unsent

\* CancelledError at the await; `except (OSError, RuntimeError)' lets it pass.
PumpCancelled(d) ==
  /\ cancelled
  /\ at[d] # "done"
  /\ Stop(d, "cancelled")
  /\ UNCHANGED unsent

Pump(d) ==
  \/ Copy(d)
  \/ CopyClosing(d)
  \/ ReadEof(d)
  \/ ReadRaises(d)
  \/ Drained(d)
  \/ DrainRaises(d)
  \/ PumpCancelled(d)

\* gather() of the two.
Return ==
  /\ \A d \in Directions : at[d] = "done"
  /\ ~returned
  /\ returned' = TRUE
  /\ UNCHANGED <<streams, writers, pumps, faults>>

-----------------------------------------------------------------------------
(* The event loop and the endpoints. *)

\* The transport sends a byte, and resumes its writer at the low-water mark.
Flush(d) ==
  /\ buffer[d] # <<>>
  /\ ~IsClosing(d)
  /\ delivered' = [delivered EXCEPT ![d] = Append(@, Head(buffer[d]))]
  /\ buffer' = [buffer EXCEPT ![d] = Tail(@)]
  /\ paused' = IF Len(buffer[d]) - 1 <= LowWater THEN paused \ {d} ELSE paused
  /\ UNCHANGED <<streams, eof, shut, pumps, faults, returned>>

\* Mutant: the FIN does not wait for what is buffered.
FlushEof_Early(d) ==
  /\ d \in eof \ shut
  /\ ~IsClosing(d)
  /\ shut' = shut \cup {d}
  /\ UNCHANGED <<streams, buffer, paused, eof, delivered, pumps, faults, returned>>

FlushEof(d) ==
  /\ d \in eof \ shut
  /\ buffer[d] = <<>>
  /\ ~IsClosing(d)
  /\ shut' = shut \cup {d}
  /\ UNCHANGED <<streams, buffer, paused, eof, delivered, pumps, faults, returned>>

EndpointFinishes(d) ==
  /\ Src[d] \notin closing
  /\ d \notin finished
  /\ finished' = finished \cup {d}
  /\ UNCHANGED <<unsent, writers, pumps, faults, returned>>

\* The connection is reset: the transport drops what it holds for that endpoint.
Break(s) ==
  /\ s \notin closing
  /\ closing' = closing \cup {s}
  /\ buffer' = [d \in Directions |-> IF Dst[d] = s THEN <<>> ELSE buffer[d]]
  /\ UNCHANGED <<streams, paused, eof, delivered, shut, pumps, lost, cancelled, returned>>

ConnectionLost(s) ==
  /\ s \in closing \ lost
  /\ lost' = lost \cup {s}
  /\ UNCHANGED <<streams, writers, pumps, closing, cancelled, returned>>

Cancel ==
  /\ ~cancelled
  /\ ~returned
  /\ cancelled' = TRUE
  /\ UNCHANGED <<streams, writers, pumps, closing, lost, returned>>

Next ==
  \/ \E d \in Directions : Pump(d) \/ Flush(d) \/ FlushEof(d) \/ EndpointFinishes(d)
  \/ \E s \in Ends : Break(s) \/ ConnectionLost(s)
  \/ Return
  \/ Cancel

\* An endpoint that is told of an end finishes too.
Answers(d) == d \in shut /\ EndpointFinishes(Back[d])

\* The event loop runs every callback that is due.  Nothing in the code ends a relay
\* whose endpoints do nothing; those of the specification take what they are sent,
\* and answer an end with their own, but need not send or finish by themselves.
Fairness ==
  /\ \A d \in Directions : WF_vars(Pump(d)) /\ WF_vars(FlushEof(d))
  /\ \A s \in Ends : WF_vars(ConnectionLost(s))
  /\ WF_vars(Return)
  /\ \A d \in Directions : WF_vars(Flush(d)) /\ WF_vars(Answers(d))

Spec == Init /\ [][Next]_vars /\ Fairness

-----------------------------------------------------------------------------
(* Properties. *)

\* The values of every variable.  Nothing is written to a transport that is closing
\* (some event loops raise then), only a writer with something to send is paused, and
\* a pump that is over has said so to a writer that was not closing.
TypeOK ==
  /\ unsent \in [Directions -> Seq(Nat)]
  /\ buffer \in [Directions -> Seq(Nat)]
  /\ delivered \in [Directions -> Seq(Nat)]
  /\ at \in [Directions -> {"read", "drain", "done"}]
  /\ why \in [Directions -> {"running", "eof", "error", "closing", "cancelled"}]
  /\ closing \subseteq Ends /\ lost \subseteq closing
  /\ paused \cup finished \cup eof \subseteq Directions /\ shut \subseteq eof
  /\ cancelled \in BOOLEAN /\ returned \in BOOLEAN
  /\ \A d \in Directions :
       /\ (why[d] = "running") <=> (at[d] # "done")
       /\ d \in paused => buffer[d] # <<>> \/ IsClosing(d)
       /\ IsClosing(d) => buffer[d] = <<>>
       /\ at[d] = "done" => d \in eof \/ IsClosing(d)

Ending == [d \in Directions |-> IF d \notin shut THEN "open"
                               ELSE IF why[d] = "eof" THEN "complete" ELSE "cut"]

\* The relay is two pipes (StreamPipes), although a transport buffers what is written,
\* the FIN waits behind it, and a pump drops the chunk it has read when its writer is
\* closing: what is lost is lost to an endpoint that is told of no end.
Relay == INSTANCE StreamPipes
           WITH Pipes <- Directions, Content <- Source, end <- Ending

IsTwoPipes == Relay!Spec

\* There is no idle timeout here, so the relay ends only if the end of one direction
\* brings about the other's.  It does, however a direction ended, by a FIN or a reset,
\* for endpoints that answer an end with their own.
EndsTogether ==
  \A d \in Directions : d \in finished \/ Src[d] \in closing ~> returned

=============================================================================
