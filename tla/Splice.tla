------------------------------- MODULE Splice -------------------------------
(***************************************************************************)
(* The default relay of the threaded server: splice(a, b, idle_timeout) of *)
(* server/server.py, with a the client's socket and b the upstream's.      *)
(*                                                                         *)
(* Two threads copy, one per direction; the caller's thread is one of the  *)
(* two and joins the other before it returns, after which _handle closes   *)
(* both sockets.  The endpoints may stop sending, stop reading, finish or  *)
(* be reset at any time.  A socket that has a timeout makes a blocked call *)
(* raise; there is no clock, so any blocked call may be the one.           *)
(***************************************************************************)
EXTENDS Integers, Sequences

CONSTANTS
  Source,   \* what each endpoint sends, by direction
  Window,   \* how many unread bytes an endpoint's socket takes
  Chunk     \* how many bytes one recv() returns at most

Directions == {"out", "in"}   \* "out": from the client to the upstream
Ends       == {"client", "upstream"}
Src        == [out |-> "client", in |-> "upstream"]
Dst        == [out |-> "upstream", in |-> "client"]

ASSUME SpliceAssumption ==
  /\ Source \in [Directions -> Seq(Nat)]
  /\ Window \in Nat \ {0}
  /\ Chunk \in Nat \ {0}

VARIABLES
  idleTimeout,  \* idle_timeout is not None (fixed)
  unsent,       \* what has not been received from each direction's source
  finished,     \* the directions whose source has sent its FIN
  chunk,        \* data, in the hands of each thread
  delivered,    \* what was written to each direction's destination
  consumed,     \* how much of it the destination has read
  shut,         \* the directions whose destination was sent a FIN
  at,           \* where each thread stands
  why,          \* how each thread's loop ended
  broken,       \* the endpoints that were reset
  returned      \* splice() has returned, and both sockets are closed

threads   == <<chunk, at, why>>
endpoints == <<idleTimeout, finished, consumed, broken>>
vars      == <<endpoints, threads, unsent, delivered, shut, returned>>

All(x) == [d \in Directions |-> x]

Init ==
  /\ idleTimeout \in BOOLEAN
  /\ unsent = Source
  /\ finished = {}
  /\ chunk = All(<<>>)
  /\ delivered = All(<<>>)
  /\ consumed = All(0)
  /\ shut = {}
  /\ at = All("recv")
  /\ why = All("running")
  /\ broken = {}
  /\ returned = FALSE

\* Mutant: only the upstream is given the timeout.
Timed_UpstreamOnly(s) == s = "upstream"

\* idle_timeout sets both timeouts.  Without it the upstream socket keeps the
\* one create_connection() gave it, and the accepted socket has none.
Timed(s) == idleTimeout \/ s = "upstream"

Fails(s) == s \in broken \/ returned
Room(d)  == Len(delivered[d]) - consumed[d] < Window

\* Thread d leaves its loop.
Stop(d, reason) ==
  /\ at' = [at EXCEPT ![d] = "finally"]
  /\ why' = [why EXCEPT ![d] = reason]
  /\ UNCHANGED <<endpoints, unsent, chunk, delivered, shut, returned>>

-----------------------------------------------------------------------------
(* copy(src, dst). *)

\* Mutant: `if not data: break' is missing.
Recv_NoTest(d) ==
  /\ at[d] = "recv"
  /\ ~Fails(Src[d])
  /\ \E n \in 0 .. Chunk :
       /\ n <= Len(unsent[d])
       /\ chunk' = [chunk EXCEPT ![d] = SubSeq(unsent[d], 1, n)]
       /\ unsent' = [unsent EXCEPT ![d] = SubSeq(@, n + 1, Len(@))]
  /\ at' = [at EXCEPT ![d] = "send"]
  /\ UNCHANGED <<endpoints, why, delivered, shut, returned>>

Recv(d) ==
  /\ at[d] = "recv"
  /\ ~Fails(Src[d])
  /\ \E n \in 1 .. Chunk :
       /\ n <= Len(unsent[d])
       /\ chunk' = [chunk EXCEPT ![d] = SubSeq(unsent[d], 1, n)]
       /\ unsent' = [unsent EXCEPT ![d] = SubSeq(@, n + 1, Len(@))]
  /\ at' = [at EXCEPT ![d] = "send"]
  /\ UNCHANGED <<endpoints, why, delivered, shut, returned>>

\* Mutant: one FIN ends the whole relay.
RecvEOF_Both(d) ==
  /\ at[d] = "recv"
  /\ ~Fails(Src[d])
  /\ unsent[d] = <<>>
  /\ d \in finished
  /\ at' = All("finally")
  /\ why' = All("eof")
  /\ UNCHANGED <<endpoints, unsent, chunk, delivered, shut, returned>>

RecvEOF(d) ==
  /\ at[d] = "recv"
  /\ ~Fails(Src[d])
  /\ unsent[d] = <<>>
  /\ d \in finished
  /\ Stop(d, "eof")

\* Mutant: send() for sendall().
SendByte_Once(d) ==
  /\ at[d] = "send"
  /\ ~Fails(Dst[d])
  /\ Room(d)
  /\ delivered' = [delivered EXCEPT ![d] = Append(@, Head(chunk[d]))]
  /\ chunk' = [chunk EXCEPT ![d] = <<>>]
  /\ at' = [at EXCEPT ![d] = "recv"]
  /\ UNCHANGED <<endpoints, why, unsent, shut, returned>>

\* sendall() hands over what the destination has room for, byte by byte.
SendByte(d) ==
  /\ at[d] = "send"
  /\ ~Fails(Dst[d])
  /\ Room(d)
  /\ delivered' = [delivered EXCEPT ![d] = Append(@, Head(chunk[d]))]
  /\ chunk' = [chunk EXCEPT ![d] = Tail(@)]
  /\ at' = IF Len(chunk[d]) = 1 THEN [at EXCEPT ![d] = "recv"] ELSE at
  /\ UNCHANGED <<endpoints, why, unsent, shut, returned>>

\* OSError on a socket that was reset, or closed under the thread.
Error(d) ==
  /\ \/ at[d] = "recv" /\ Fails(Src[d])
     \/ at[d] = "send" /\ Fails(Dst[d])
  /\ Stop(d, "error")

\* socket.timeout, an OSError as well: a call that is blocked for too long.
Timeout(d) ==
  /\ \/ at[d] = "recv" /\ Timed(Src[d])
     \/ at[d] = "send" /\ Timed(Dst[d]) /\ ~Room(d)
  /\ Stop(d, "timeout")

\* dst.shutdown(SHUT_WR), `except OSError: pass'.
Finally(d) ==
  /\ at[d] = "finally"
  /\ at' = [at EXCEPT ![d] = "done"]
  /\ shut' = IF Fails(Dst[d]) THEN shut ELSE shut \cup {d}
  /\ UNCHANGED <<endpoints, unsent, chunk, why, delivered, returned>>

\* Mutant: the other thread is not joined.
Return_NoJoin ==
  /\ at["in"] = "done"
  /\ ~returned
  /\ returned' = TRUE
  /\ UNCHANGED <<endpoints, threads, unsent, delivered, shut>>

\* copy(b, a) is over in the caller's thread, and so is t.join().
Return ==
  /\ at["in"] = "done"
  /\ at["out"] = "done"
  /\ ~returned
  /\ returned' = TRUE
  /\ UNCHANGED <<endpoints, threads, unsent, delivered, shut>>

-----------------------------------------------------------------------------
(* The endpoints. *)

EndpointReads(d) ==
  /\ Dst[d] \notin broken
  /\ consumed[d] < Len(delivered[d])
  /\ consumed' = [consumed EXCEPT ![d] = @ + 1]
  /\ UNCHANGED <<idleTimeout, finished, broken, threads, unsent, delivered, shut, returned>>

EndpointFinishes(d) ==
  /\ Src[d] \notin broken
  /\ d \notin finished
  /\ finished' = finished \cup {d}
  /\ UNCHANGED <<idleTimeout, consumed, broken, threads, unsent, delivered, shut, returned>>

Reset(s) ==
  /\ s \notin broken
  /\ broken' = broken \cup {s}
  /\ UNCHANGED <<idleTimeout, finished, consumed, threads, unsent, delivered, shut, returned>>

Copy(d) == Recv(d) \/ RecvEOF(d) \/ SendByte(d) \/ Error(d) \/ Finally(d)

Next ==
  \/ \E d \in Directions : Copy(d)
  \/ \E d \in Directions : Timeout(d)
  \/ Return
  \/ \E d \in Directions : EndpointReads(d)
  \/ \E d \in Directions : EndpointFinishes(d)
  \/ \E s \in Ends : Reset(s)

\* Each thread runs when it can, and a blocked call that has a timeout does not
\* block for ever.  The endpoints owe nothing.
Fairness ==
  /\ \A d \in Directions : WF_vars(Copy(d)) /\ WF_vars(Timeout(d))
  /\ WF_vars(Return)

Spec == Init /\ [][Next]_vars /\ Fairness

-----------------------------------------------------------------------------
(* Properties. *)

\* The values of every variable; a thread holds data exactly while it sends it,
\* and has a reason for having stopped exactly when it has.
TypeOK ==
  /\ idleTimeout \in BOOLEAN
  /\ unsent \in [Directions -> Seq(Nat)]
  /\ chunk \in [Directions -> Seq(Nat)]
  /\ delivered \in [Directions -> Seq(Nat)]
  /\ consumed \in [Directions -> Nat]
  /\ at \in [Directions -> {"recv", "send", "finally", "done"}]
  /\ why \in [Directions -> {"running", "eof", "error", "timeout"}]
  /\ finished \subseteq Directions
  /\ shut \subseteq Directions
  /\ broken \subseteq Ends
  /\ returned \in BOOLEAN
  /\ \A d \in Directions :
       /\ consumed[d] <= Len(delivered[d])
       /\ (why[d] = "running") <=> (at[d] \in {"recv", "send"})
       /\ at[d] = "recv" => chunk[d] = <<>>
       /\ at[d] = "send" => chunk[d] # <<>>

\* The relay is two pipes (StreamPipes): a destination gets a prefix of what its peer
\* sent, no byte behind a FIN, and a FIN without a timeout or a reset only behind the
\* last byte of a peer that finished.
Ending == [d \in Directions |-> IF d \notin shut THEN "open"
                               ELSE IF why[d] = "eof" THEN "complete" ELSE "cut"]

Relay == INSTANCE StreamPipes
           WITH Pipes <- Directions, Content <- Source, end <- Ending

IsTwoPipes == Relay!Spec

\* One direction never breaks the other: a thread sees an OSError only if an
\* endpoint was reset, never because the other thread, which half-closed its own
\* destination or returned, took a socket away from it (`t.join()').
ErrorHasCause ==
  \A d \in Directions : why[d] = "error" => broken # {}

\* `idle_timeout tears down a half-open silent peer instead of pinning the thread
\* forever': with it splice() returns, whatever the endpoints leave undone.  What they
\* send is finite; one that goes on sending within the timeout keeps the relay.
IdleTimeoutReturns == idleTimeout ~> returned

\* Nothing is lost in either direction when nothing goes wrong: two endpoints
\* that read, and finish in their own time, each get all the other sent.
Undisturbed ==
  /\ [](broken = {})
  /\ \A d \in Directions :
       /\ [](why[d] # "timeout")
       /\ <>(d \in finished)
       /\ []<>(consumed[d] = Len(delivered[d]))

CompleteWhenUndisturbed ==
  Undisturbed => <>(returned /\ \A d \in Directions : delivered[d] = Source[d])

=============================================================================
