----------------------------- MODULE AsyncClient -----------------------------
(***************************************************************************)
(* One asyncio client object and the tasks that call it, aio/client.py:    *)
(* connect() and aclose() with every await a point where other tasks run   *)
(* and where the call may be cancelled.                                    *)
(*                                                                         *)
(* A connection is the transport, StreamReader and StreamWriter that one   *)
(* open_connection() made, and has a number; an attribute of the object    *)
(* holds the number of the connection its value comes from.  What goes     *)
(* through a connection is ClientConnect's.                                *)
(***************************************************************************)
EXTENDS Integers

CONSTANTS
  None,            \* Python's None
  Tasks,           \* the tasks that use the object
  MaxConnections   \* bound: how many connections are opened

ASSUME TasksAssumption ==
  /\ MaxConnections \in Nat
  /\ None \notin Nat

Connections == 1 .. MaxConnections

VARIABLES
  optimistic,  \* the class: AsyncOptimisticClient or AsyncClient (fixed)
  pc,          \* where each task stands: "idle" outside of connect() and aclose()
  mine,        \* the local writer of connect(), or the one _abort() was given
  transport,   \* each connection: "none", "open", "closing" or "closed"
  cut,         \* connections whose future `closed' was cancelled
  opened,      \* how many there are
  writer,      \* self.writer
  reader,      \* self.reader
  bound,       \* self.bound
  leftover,    \* self.leftover
  overlapped   \* history: a connect() began while another was at its handshake

attributes == <<writer, reader, bound, leftover>>
vars == <<optimistic, pc, mine, transport, cut, opened, attributes, overlapped>>

Init ==
  /\ optimistic \in BOOLEAN
  /\ pc = [t \in Tasks |-> "idle"]
  /\ mine = [t \in Tasks |-> None]
  /\ transport = [c \in Connections |-> "none"]
  /\ cut = {}
  /\ opened = 0
  /\ writer = None
  /\ reader = None
  /\ bound = None
  /\ leftover = None
  /\ overlapped = FALSE

Connecting(t) == pc[t] \in {"opening", "negotiating"}
Waiting(t)    == pc[t] \in {"aborting", "closing"}

\* The future behind wait_closed() is done: with a result, or cancelled.
Woken(t) == Waiting(t) /\ (transport[mine[t]] = "closed" \/ mine[t] \in cut)

\* The loop is fair: who is ready runs before I/O that comes in later.
Settled == \A t \in Tasks : ~Woken(t)

Goto(t, place) == pc' = [pc EXCEPT ![t] = place]
Return(t) == Goto(t, "idle") /\ mine' = [mine EXCEPT ![t] = None]

\* writer.close(), which does nothing to a transport that is closed.
Closing(c) ==
  IF transport[c] = "open" THEN [transport EXCEPT ![c] = "closing"] ELSE transport

-----------------------------------------------------------------------------
(* connect() *)

\* Mutant: a client that has a connection opens another one.
Connect_NoTest(t) ==
  /\ pc[t] = "idle"
  /\ opened < MaxConnections
  /\ Goto(t, "opening")
  /\ overlapped' = (overlapped \/ \E u \in Tasks : Connecting(u))
  /\ UNCHANGED <<optimistic, mine, transport, cut, opened, attributes>>

\* It raises, and changes nothing, if there is a writer.
Connect(t) ==
  /\ pc[t] = "idle"
  /\ writer = None
  /\ opened < MaxConnections
  /\ Goto(t, "opening")
  /\ overlapped' = (overlapped \/ \E u \in Tasks : Connecting(u))
  /\ UNCHANGED <<optimistic, mine, transport, cut, opened, attributes>>

\* open_connection() returns.
Opened(t) ==
  /\ pc[t] = "opening"
  /\ Settled
  /\ opened < MaxConnections
  /\ opened' = opened + 1
  /\ transport' = [transport EXCEPT ![opened + 1] = "open"]
  /\ mine' = [mine EXCEPT ![t] = opened + 1]
  /\ Goto(t, "negotiating")
  /\ UNCHANGED <<optimistic, cut, attributes, overlapped>>

\* Mutant: cleans up a writer that is not there.
OpenFails_Aborts(t) ==
  /\ pc[t] = "opening"
  /\ Goto(t, "aborting")
  /\ UNCHANGED <<optimistic, mine, transport, cut, opened, attributes, overlapped>>

\* It raises, or is cancelled, and leaves no transport.
OpenFails(t) ==
  /\ pc[t] = "opening"
  /\ Return(t)
  /\ UNCHANGED <<optimistic, transport, cut, opened, attributes, overlapped>>

\* Mutant: bound is not assigned.
Granted_NoBound(t) ==
  /\ pc[t] = "negotiating"
  /\ Settled
  /\ leftover' = IF optimistic THEN mine[t] ELSE leftover
  /\ reader' = mine[t]
  /\ writer' = mine[t]
  /\ Return(t)
  /\ UNCHANGED <<optimistic, transport, cut, opened, bound, overlapped>>

\* _negotiate() returns a reply that grants the request; nothing is awaited between
\* the read of its last byte and the assignments.
Granted(t) ==
  /\ pc[t] = "negotiating"
  /\ Settled
  /\ leftover' = IF optimistic THEN mine[t] ELSE leftover
  /\ reader' = mine[t]
  /\ writer' = mine[t]
  /\ bound' = mine[t]
  /\ Return(t)
  /\ UNCHANGED <<optimistic, transport, cut, opened, overlapped>>

\* _abort(): close() and then wait_closed().
Abort(t) ==
  /\ transport' = Closing(mine[t])
  /\ Goto(t, "aborting")
  /\ UNCHANGED <<optimistic, mine, cut, opened, reader, writer, bound, overlapped>>

\* The reply refuses.
Refused(t) ==
  /\ pc[t] = "negotiating"
  /\ leftover' = IF optimistic THEN mine[t] ELSE leftover
  /\ Abort(t)

\* _negotiate() raises, or is cancelled.
NegotiateFails(t) ==
  /\ pc[t] = "negotiating"
  /\ Abort(t)
  /\ UNCHANGED leftover

\* Mutant: the budget begins when the connection is open.
TimesOut_Negotiating(t) == NegotiateFails(t)

\* asyncio.timeout() cancels what is awaited in its block.
TimesOut(t) == OpenFails(t) \/ NegotiateFails(t)

-----------------------------------------------------------------------------
(* aclose(), and the wait of both calls. *)

Aclose(t) ==
  /\ pc[t] = "idle"
  /\ writer # None
  /\ mine' = [mine EXCEPT ![t] = writer]
  /\ transport' = Closing(writer)
  /\ Goto(t, "closing")
  /\ UNCHANGED <<optimistic, cut, opened, attributes, overlapped>>

\* wait_closed() returns, or raises the OSError that _abort() swallows.
WaitEnds(t) ==
  /\ Waiting(t)
  /\ transport[mine[t]] = "closed"
  /\ mine[t] \notin cut
  /\ IF pc[t] = "closing" THEN writer' = None /\ reader' = None
                          ELSE UNCHANGED <<writer, reader>>
  /\ Return(t)
  /\ UNCHANGED <<optimistic, transport, cut, opened, bound, leftover, overlapped>>

\* A task that is cancelled cancels the future it awaits, which belongs to the
\* connection, unless the future is done.
WaitCancelled(t) ==
  /\ Waiting(t)
  /\ mine[t] \notin cut
  /\ cut' = IF Woken(t) THEN cut ELSE cut \cup {mine[t]}
  /\ Return(t)
  /\ UNCHANGED <<optimistic, transport, opened, attributes, overlapped>>

\* Awaiting a cancelled future raises CancelledError.
WaitBroken(t) ==
  /\ Waiting(t)
  /\ mine[t] \in cut
  /\ Return(t)
  /\ UNCHANGED <<optimistic, transport, cut, opened, attributes, overlapped>>

-----------------------------------------------------------------------------
(* The transports. *)

\* What was written is flushed, or the peer is gone.
Closed(c) ==
  /\ transport[c] = "closing"
  /\ transport' = [transport EXCEPT ![c] = "closed"]
  /\ UNCHANGED <<optimistic, pc, mine, cut, opened, attributes, overlapped>>

\* The proxy resets the connection.
Lost(c) ==
  /\ transport[c] = "open"
  /\ transport' = [transport EXCEPT ![c] = "closed"]
  /\ UNCHANGED <<optimistic, pc, mine, cut, opened, attributes, overlapped>>

Call(t) ==
  \/ Connect(t) \/ Opened(t) \/ OpenFails(t)
  \/ Granted(t) \/ Refused(t) \/ NegotiateFails(t)
  \/ Aclose(t) \/ WaitEnds(t) \/ WaitCancelled(t) \/ WaitBroken(t)

Next == (\E t \in Tasks : Call(t)) \/ (\E c \in Connections : Closed(c) \/ Lost(c))

\* Time passes, who is ready runs, and a transport that is closed is closed at last:
\* its peer reads the few bytes of the handshake, or breaks.
Spec ==
  /\ Init /\ [][Next]_vars
  /\ \A t \in Tasks : WF_vars(TimesOut(t)) /\ WF_vars(WaitEnds(t) \/ WaitBroken(t))
  /\ \A c \in Connections : WF_vars(Closed(c))

-----------------------------------------------------------------------------
(* Properties. *)

Attribute == Connections \cup {None}

\* The values of every field; who negotiates or waits has a connection.
TypeOK ==
  /\ optimistic \in BOOLEAN
  /\ pc \in [Tasks -> {"idle", "opening", "negotiating", "aborting", "closing"}]
  /\ mine \in [Tasks -> Attribute]
  /\ \A t \in Tasks : mine[t] = None <=> pc[t] \in {"idle", "opening"}
  /\ transport \in [Connections -> {"none", "open", "closing", "closed"}]
  /\ \A c \in Connections : transport[c] = "none" <=> c > opened
  /\ cut \in SUBSET Connections
  /\ opened \in 0 .. MaxConnections
  /\ {writer, reader, bound, leftover} \subseteq Attribute
  /\ overlapped \in BOOLEAN

\* A connection that is open is the object's, or that of a call under way: somebody
\* can still close it.
Reachable(c) == writer = c \/ \E t \in Tasks : pc[t] = "negotiating" /\ mine[t] = c

\* `A bound writer is always reachable for cleanup' (connect), wherever the calls
\* fail, time out or are cancelled, and whatever aclose() runs beside them, unless
\* the handshakes of two calls of connect() overlap.
NoLeak == ~overlapped => \A c \in Connections : transport[c] = "open" => Reachable(c)

\* The same without the exception, as the comment has it, and with the test behind
\* it, `client already connected; aclose() first' (connect): of two calls that
\* overlap the second must not replace the writer of the first.
AlwaysReachable == \A c \in Connections : transport[c] = "open" => Reachable(c)

\* What the object says of its tunnel is true of the connection it holds: no
\* attribute is left from an earlier one or taken from one that was refused.
OneTunnel ==
  ~overlapped /\ writer # None =>
    reader = writer /\ bound = writer /\ (optimistic => leftover = writer)

\* `One total budget over open + negotiate': a call of connect() or aclose() ends.
CallsEnd == \A t \in Tasks : pc[t] # "idle" ~> pc[t] = "idle"

\* `client already connected; aclose() first' (connect): an aclose() that is not
\* cancelled itself leaves a client that can connect again.
AcloseFrees ==
  [][\A t \in Tasks :
       pc[t] = "closing" /\ pc'[t] = "idle" /\ ~WaitCancelled(t) => writer' = None]_vars

=============================================================================
