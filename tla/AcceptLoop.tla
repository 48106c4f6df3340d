------------------------------ MODULE AcceptLoop ------------------------------
(***************************************************************************)
(* The listener of the threaded server: bind(), serve_forever() and        *)
(* close() of Server, which share the attribute _sock without a lock.      *)
(*                                                                         *)
(* One thread of the application binds, starts serve_forever() in a thread *)
(* of its own, closes, and may start again.  The n-th bind() makes         *)
(* listener n and is followed by the n-th loop.  A statement that reads or *)
(* writes _sock, or calls into the socket, is a step.  Connections are     *)
(* ServerDriver's.                                                         *)
(***************************************************************************)
EXTENDS Integers

CONSTANTS
  None,       \* Python's None
  MaxStarts,  \* bound: how often the application starts the server
  Joins       \* the application waits for a loop to end before it binds anew

ASSUME AcceptAssumption ==
  /\ MaxStarts \in Nat \ {0}
  /\ None \notin Nat
  /\ Joins \in BOOLEAN

Ids == 1 .. MaxStarts

VARIABLES
  wakes,   \* whether close() wakes a thread blocked in accept() (by platform; fixed)
  sock,    \* _sock
  fd,      \* each listener's descriptor, which a blocked accept() may outlive
  loop,    \* where each serve_forever() stands
  srv,     \* its local srv
  errno,   \* what its last accept() raised
  app,     \* where the application stands
  starts   \* how often bind() was called

vars == <<wakes, sock, fd, loop, srv, errno, app, starts>>

Init ==
  /\ wakes \in BOOLEAN
  /\ sock = None
  /\ fd = [i \in Ids |-> "none"]
  /\ loop = [i \in Ids |-> "none"]
  /\ srv = [i \in Ids |-> None]
  /\ errno = [i \in Ids |-> "none"]
  /\ app = "idle"
  /\ starts = 0

Ended(i) == loop[i] \in {"none", "done", "raised"}

-----------------------------------------------------------------------------
(* The application: bind(), a thread for serve_forever(), close(). *)

\* A bind() that raises leaves the server as it was, and is not a step.
Bind ==
  /\ app = "idle"
  /\ starts < MaxStarts
  /\ Joins => \A i \in Ids : Ended(i)
  /\ starts' = starts + 1
  /\ fd' = [fd EXCEPT ![starts + 1] = "open"]
  /\ sock' = starts + 1
  /\ app' = "bound"
  /\ UNCHANGED <<wakes, loop, srv, errno>>

StartThread ==
  /\ app = "bound"
  /\ app' = "serving"
  /\ loop' = [loop EXCEPT ![starts] = "start"]
  /\ UNCHANGED <<wakes, sock, fd, srv, errno, starts>>

\* if self._sock is not None
CloseTest ==
  /\ app \in {"bound", "serving"}
  /\ app' = IF sock # None THEN "closing" ELSE "idle"
  /\ UNCHANGED <<wakes, sock, fd, loop, srv, errno, starts>>

\* self._sock.close(): the descriptor is gone, and with it the listener, unless a thread
\* is blocked in accept() on it and is not woken (Stuck).
CloseListener ==
  /\ app = "closing"
  /\ sock # None
  /\ fd' = [fd EXCEPT ![sock] = "closed"]
  /\ app' = "clearing"
  /\ UNCHANGED <<wakes, sock, loop, srv, errno, starts>>

\* The loop that just ended has reset _sock: AttributeError.
CloseRaises ==
  /\ app = "closing"
  /\ sock = None
  /\ app' = "idle"
  /\ UNCHANGED <<wakes, sock, fd, loop, srv, errno, starts>>

CloseReset ==
  /\ app = "clearing"
  /\ sock' = None
  /\ app' = "idle"
  /\ UNCHANGED <<wakes, fd, loop, srv, errno, starts>>

Close == CloseTest \/ CloseListener \/ CloseRaises \/ CloseReset

App == Bind \/ StartThread \/ Close

-----------------------------------------------------------------------------
(* serve_forever(), in thread i. *)

Goto(i, s) == loop' = [loop EXCEPT ![i] = s]

\* Mutant: no test that bind() was called.
Start_NoTest(i) ==
  /\ loop[i] = "start"
  /\ srv' = [srv EXCEPT ![i] = sock]
  /\ Goto(i, "accept")
  /\ UNCHANGED <<wakes, sock, fd, errno, app, starts>>

Start(i) ==
  /\ loop[i] = "start"
  /\ srv' = [srv EXCEPT ![i] = sock]
  /\ Goto(i, IF sock = None THEN "raised" ELSE "accept")
  /\ UNCHANGED <<wakes, sock, fd, errno, app, starts>>

Raises(i, e) ==
  /\ errno' = [errno EXCEPT ![i] = e]
  /\ Goto(i, "failed")
  /\ UNCHANGED <<wakes, sock, fd, srv, app, starts>>

\* accept() on a closed socket fails at once, on an open one it blocks.
AcceptClosed(i) ==
  /\ loop[i] = "accept"
  /\ fd[srv[i]] = "closed"
  /\ Raises(i, "EBADF")

AcceptBlocks(i) ==
  /\ loop[i] = "accept"
  /\ fd[srv[i]] = "open"
  /\ Goto(i, "blocked")
  /\ UNCHANGED <<wakes, sock, fd, srv, errno, app, starts>>

\* The blocked call holds the listener, closed or not: a peer still gets in.
Accepted(i) ==
  /\ loop[i] = "blocked"
  /\ Goto(i, "spawn")
  /\ UNCHANGED <<wakes, sock, fd, srv, errno, app, starts>>

\* ECONNABORTED, EMFILE, ...
AcceptFails(i) == loop[i] = "blocked" /\ Raises(i, "transient")

AcceptWoken(i) ==
  /\ loop[i] = "blocked"
  /\ wakes
  /\ fd[srv[i]] = "closed"
  /\ Raises(i, "EINVAL")

Spawn(i) ==
  /\ loop[i] = "spawn"
  /\ Goto(i, "accept")
  /\ UNCHANGED <<wakes, sock, fd, srv, errno, app, starts>>

\* RuntimeError: can't start new thread.
SpawnRaises(i) ==
  /\ loop[i] = "spawn"
  /\ Goto(i, "leave")
  /\ UNCHANGED <<wakes, sock, fd, srv, errno, app, starts>>

\* Mutant: any error of accept() ends the loop.
Stopped_Any(i) == TRUE
\* Mutant: every error is taken for a transient one.
Stopped_Never(i) == FALSE
Stopped(i) == sock = None \/ errno[i] \in {"EBADF", "EINVAL"}

Break(i) ==
  /\ loop[i] = "failed"
  /\ Stopped(i)
  /\ Goto(i, "leave")
  /\ UNCHANGED <<wakes, sock, fd, srv, errno, app, starts>>

Continue(i) ==
  /\ loop[i] = "failed"
  /\ ~Stopped(i)
  /\ Goto(i, "accept")
  /\ UNCHANGED <<wakes, sock, fd, srv, errno, app, starts>>

\* The finally clause.  Mutant: the attribute is reset and the socket left to the
\* garbage collector.
LeaveClose_Forget(i) ==
  /\ loop[i] = "leave"
  /\ Goto(i, "reset")
  /\ UNCHANGED <<wakes, sock, fd, srv, errno, app, starts>>

LeaveClose(i) ==
  /\ loop[i] = "leave"
  /\ fd' = [fd EXCEPT ![srv[i]] = "closed"]
  /\ Goto(i, "reset")
  /\ UNCHANGED <<wakes, sock, srv, errno, app, starts>>

LeaveReset(i) ==
  /\ loop[i] = "reset"
  /\ sock' = None
  /\ Goto(i, "done")
  /\ UNCHANGED <<wakes, fd, srv, errno, app, starts>>

Run(i) ==
  \/ Start(i)
  \/ AcceptClosed(i)
  \/ AcceptBlocks(i)
  \/ Spawn(i)
  \/ Break(i)
  \/ Continue(i)
  \/ LeaveClose(i)
  \/ LeaveReset(i)

Returns(i) == Accepted(i) \/ AcceptFails(i) \/ AcceptWoken(i)

Next == App \/ \E i \in Ids : Run(i) \/ Returns(i) \/ SpawnRaises(i)

\* Blocked for a peer on a listener that was closed under it, where that wakes nobody
\* (Linux): the kernel listens on until the call returns.
Stuck(i) == ~wakes /\ loop[i] = "blocked" /\ fd[srv[i]] = "closed"

\* A thread that can run does, a close() that was called is finished, and an accept()
\* that close() wakes returns.  Nothing says that a peer connects.
Spec ==
  /\ Init /\ [][Next]_vars
  /\ WF_vars(CloseListener \/ CloseRaises \/ CloseReset)
  /\ \A i \in Ids : WF_vars(Run(i)) /\ WF_vars(AcceptWoken(i))

-----------------------------------------------------------------------------
(* Properties. *)

Loops == {"none", "start", "accept", "blocked", "spawn", "failed", "leave", "reset",
          "done", "raised"}

\* The values of the attribute and of the locals; a loop that runs has a listener.
TypeOK ==
  /\ wakes \in BOOLEAN
  /\ sock \in Ids \cup {None}
  /\ fd \in [Ids -> {"none", "open", "closed"}]
  /\ loop \in [Ids -> Loops]
  /\ srv \in [Ids -> Ids \cup {None}]
  /\ errno \in [Ids -> {"none", "transient", "EBADF", "EINVAL"}]
  /\ app \in {"idle", "bound", "serving", "closing", "clearing"}
  /\ starts \in 0 .. MaxStarts
  /\ \A i \in Ids : loop[i] \notin {"none", "start", "raised"} => srv[i] \in Ids

\* Once close() has come back, by itself or because the loop ended before it, every
\* descriptor is closed: whichever thread resets _sock has closed its listener before.
\* That is so for an application that waits for its loop before it binds anew (Joins):
\* the loop of an earlier start resets the _sock of the later one, and close() then
\* finds nothing to close.  Of the kernel it says nothing: see Stuck.
NoDescriptorLeft == app = "idle" => \A i \in Ids : fd[i] # "open"

\* "transient (ECONNABORTED/EMFILE/EINTR) -> keep serving" (server.py:100): an
\* accept() that fails ends the loop only if its listener was closed.  It holds for
\* an application that waits for its loop; one that binds anew while the old loop
\* runs out has its _sock reset by that loop, and the new one then stops.
TransientKeepsServing ==
  [][\A i \in Ids : Break(i) => fd[srv[i]] = "closed"]_vars

\* A close() that found a listener ends the loop that serves it, whether that is about
\* to call accept(), in it, behind it or failing for a reason of its own.  Only a
\* blocked accept() that close() does not wake stays, and then the next peer, or the
\* next error, ends the loop.
CloseEndsLoop ==
  \A i \in Ids :
    /\ app = "closing" /\ sock = i ~> Ended(i) \/ Stuck(i)
    /\ loop[i] \in {"spawn", "failed"} /\ fd[srv[i]] = "closed" ~> Ended(i)

\* "listener was closed -> stop" (server.py:99): close() ends the loop on every platform.
ClosedListenerStops ==
  \A i \in Ids : app = "closing" /\ sock = i ~> Ended(i)

=============================================================================
