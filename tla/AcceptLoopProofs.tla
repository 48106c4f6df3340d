--------------------------- MODULE AcceptLoopProofs ---------------------------
(***************************************************************************)
(* The listener of the threaded server, for any number of starts: close()  *)
(* leaves no descriptor open and only a closed listener ends the loop, if  *)
(* the application waits for a loop to end before it binds again.          *)
(***************************************************************************)
EXTENDS AcceptLoop, TLAPS

LEMMA NoneIsNoId == None \notin Ids
  BY AcceptAssumption DEF Ids

-----------------------------------------------------------------------------
(* Types. *)

LEMMA InitType == Init => TypeOK
BY AcceptAssumption DEF Init, TypeOK, Loops

LEMMA AppType == TypeOK /\ App => TypeOK'
<1> SUFFICES ASSUME TypeOK, App PROVE TypeOK'
  OBVIOUS
<1>1. CASE Bind
  <2>1. starts + 1 \in Ids /\ starts + 1 \in 0 .. MaxStarts
    BY <1>1, AcceptAssumption DEF Bind, TypeOK, Ids
  <2> QED
    BY <1>1, <2>1 DEF Bind, TypeOK
<1>2. CASE StartThread
  BY <1>2 DEF StartThread, TypeOK, Loops
<1>3. CASE Close
  BY <1>3 DEF Close, CloseTest, CloseListener, CloseRaises, CloseReset, TypeOK
<1> QED
  BY <1>1, <1>2, <1>3 DEF App

LEMMA LoopType ==
  ASSUME TypeOK, NEW i \in Ids, Run(i) \/ Returns(i) \/ SpawnRaises(i)
  PROVE  TypeOK'
<1> USE DEF Goto, Raises, TypeOK, Loops
<1>1. CASE Start(i)
  BY <1>1 DEF Start
<1>2. CASE AcceptClosed(i) \/ AcceptFails(i) \/ AcceptWoken(i)
  BY <1>2 DEF AcceptClosed, AcceptFails, AcceptWoken
<1>3. CASE AcceptBlocks(i) \/ Accepted(i) \/ Spawn(i) \/ SpawnRaises(i)
  BY <1>3 DEF AcceptBlocks, Accepted, Spawn, SpawnRaises
<1>4. CASE Break(i) \/ Continue(i)
  BY <1>4 DEF Break, Continue
<1>5. CASE LeaveClose(i)
  BY <1>5 DEF LeaveClose
<1>6. CASE LeaveReset(i)
  BY <1>6 DEF LeaveReset
<1> QED
  BY <1>1, <1>2, <1>3, <1>4, <1>5, <1>6 DEF Run, Returns

LEMMA NextType == TypeOK /\ [Next]_vars => TypeOK'
<1> SUFFICES ASSUME TypeOK, [Next]_vars PROVE TypeOK'
  OBVIOUS
<1>1. CASE UNCHANGED vars
  BY <1>1 DEF vars, TypeOK
<1> QED
  BY <1>1, AppType, LoopType DEF Next

-----------------------------------------------------------------------------
(* The listener. *)

Running(i) == loop[i] \notin {"none", "start", "raised"}

\* One loop at a time, and it serves the listener of its own bind().
OneLoop ==
  \A i \in Ids :
    /\ i < starts => Ended(i)
    /\ i > starts => loop[i] = "none"
    /\ Running(i) => srv[i] = i
    /\ loop[i] = "reset" => fd[i] # "open"

\* A listener that is open is the newest one, and the attribute still has it: whoever
\* resets the attribute has closed it before.
OneListener ==
  /\ sock \in {None, starts}
  /\ \A i \in Ids : fd[i] = "open" => i = starts /\ sock = starts /\ app \notin {"idle", "clearing"}
  /\ app = "bound" => starts \in Ids /\ loop[starts] = "none"

Served == TypeOK /\ OneLoop /\ OneListener

LEMMA InitServed == Init => Served
BY InitType DEF Init, Served, OneLoop, OneListener, Ended, Running

\* The application's steps.
LEMMA AppServed ==
  ASSUME Joins, Served, App
  PROVE  OneLoop' /\ OneListener'
<1> USE DEF Served
<1>1. CASE Bind
  <2>1. /\ starts' = starts + 1 /\ starts + 1 \in Ids /\ starts \in Nat
        /\ fd' = [fd EXCEPT ![starts + 1] = "open"] /\ sock' = starts + 1
        /\ app = "idle" /\ app' = "bound"
        /\ UNCHANGED <<loop, srv>>
        /\ fd \in [Ids -> {"none", "open", "closed"}]
    BY <1>1, AcceptAssumption DEF Bind, TypeOK, Ids
  <2>2. \A i \in Ids : Ended(i) /\ i \in Nat
    BY <1>1 DEF Bind, Ids
  <2>3. \A i \in Ids : fd[i] # "open"
    BY <2>1 DEF OneListener
  <2>4. OneLoop'
    BY <2>1, <2>2, <2>3 DEF OneLoop, Ended, Running
  <2>5. OneListener'
    BY <2>1, <2>2, <2>3 DEF OneListener, OneLoop
  <2> QED
    BY <2>4, <2>5
<1>2. CASE StartThread
  <2>1. /\ app = "bound" /\ app' = "serving" /\ loop' = [loop EXCEPT ![starts] = "start"]
        /\ UNCHANGED <<sock, fd, srv, starts>>
        /\ loop \in [Ids -> Loops] /\ starts \in Nat
        /\ \A i \in Ids : i \in Nat
    BY <1>2, AcceptAssumption DEF StartThread, TypeOK, Ids
  <2>2. OneLoop'
    BY <2>1 DEF OneLoop, Ended, Running
  <2>3. OneListener'
    BY <2>1 DEF OneListener
  <2> QED
    BY <2>2, <2>3
<1>3. CASE CloseTest
  <2>1. UNCHANGED <<sock, fd, loop, srv, starts>> /\ app' \in {"closing", "idle"}
        /\ (app' = "idle" => sock = None)
    BY <1>3 DEF CloseTest
  <2>2. sock = None => \A i \in Ids : fd[i] # "open"
    BY NoneIsNoId DEF OneListener
  <2> QED
    BY <2>1, <2>2 DEF OneLoop, OneListener, Ended, Running
<1>4. CASE CloseListener
  <2>1. /\ UNCHANGED <<sock, loop, srv, starts>> /\ app' = "clearing"
        /\ sock = starts /\ fd' = [fd EXCEPT ![starts] = "closed"]
        /\ fd \in [Ids -> {"none", "open", "closed"}]
    BY <1>4 DEF CloseListener, OneListener, TypeOK
  <2> QED
    BY <2>1 DEF OneLoop, OneListener, Ended, Running
<1>5. CASE CloseRaises
  <2>1. UNCHANGED <<sock, fd, loop, srv, starts>> /\ app' = "idle" /\ sock = None
    BY <1>5 DEF CloseRaises
  <2>2. \A i \in Ids : fd[i] # "open"
    BY <2>1, NoneIsNoId DEF OneListener
  <2> QED
    BY <2>1, <2>2 DEF OneLoop, OneListener, Ended, Running
<1>6. CASE CloseReset
  <2>1. UNCHANGED <<fd, loop, srv, starts>> /\ app = "clearing" /\ app' = "idle" /\ sock' = None
    BY <1>6 DEF CloseReset
  <2> QED
    BY <2>1 DEF OneLoop, OneListener, Ended, Running
<1> QED
  BY <1>1, <1>2, <1>3, <1>4, <1>5, <1>6 DEF App, Close

\* The steps of serve_forever().
LEMMA LoopServed ==
  ASSUME Served, NEW i \in Ids, Run(i) \/ Returns(i) \/ SpawnRaises(i)
  PROVE  OneLoop' /\ OneListener'
<1> USE DEF Served
<1>1. /\ UNCHANGED <<app, starts>>
      /\ loop \in [Ids -> Loops] /\ srv \in [Ids -> Ids \cup {None}]
      /\ fd \in [Ids -> {"none", "open", "closed"}]
      /\ starts \in Nat /\ \A j \in Ids : j \in Nat
  BY AcceptAssumption
     DEF Run, Returns, SpawnRaises, Start, AcceptClosed, AcceptBlocks, Accepted, AcceptFails,
         AcceptWoken, Spawn, Break, Continue, LeaveClose, LeaveReset, Raises, TypeOK, Ids
<1>2. ~Ended(i) /\ i = starts
  <2>1. ~Ended(i)
    BY DEF Run, Returns, SpawnRaises, Start, AcceptClosed, AcceptBlocks, Accepted,
           AcceptFails, AcceptWoken, Spawn, Break, Continue, LeaveClose, LeaveReset, Ended
  <2> QED
    BY <1>1, <2>1 DEF OneLoop, Ended
<1>3. CASE Start(i)
  <2>1. /\ loop' = [loop EXCEPT ![i] = IF sock = None THEN "raised" ELSE "accept"]
        /\ srv' = [srv EXCEPT ![i] = sock] /\ UNCHANGED <<sock, fd>>
        /\ (sock # None => sock = i)
    BY <1>2, <1>3 DEF Start, Goto, OneListener
  <2>2. OneLoop'
    BY <1>1, <1>2, <2>1 DEF OneLoop, Ended, Running
  <2>3. OneListener'
    BY <1>1, <1>2, <2>1, <1>3 DEF OneListener, Start
  <2> QED
    BY <2>2, <2>3
<1>4. ASSUME Running(i), Running(i)', NEW s \in Loops, s # "reset",
             loop' = [loop EXCEPT ![i] = s], UNCHANGED <<sock, fd, srv>>
      PROVE  OneLoop' /\ OneListener'
  BY <1>1, <1>2, <1>4 DEF OneLoop, OneListener, Ended, Running
<1>5. CASE AcceptClosed(i) \/ AcceptBlocks(i) \/ Returns(i) \/ Spawn(i) \/ SpawnRaises(i)
             \/ Break(i) \/ Continue(i)
  <2>1. \E s \in {"accept", "blocked", "spawn", "failed", "leave"} :
          loop' = [loop EXCEPT ![i] = s] /\ Running(i) /\ UNCHANGED <<sock, fd, srv>>
    BY <1>5 DEF Returns, SpawnRaises, AcceptClosed, AcceptBlocks, Accepted, AcceptFails,
                AcceptWoken, Spawn, Break, Continue, Raises, Goto, Running
  <2> QED
    BY <1>1, <1>4, <2>1 DEF Loops, Running
<1>6. CASE LeaveClose(i)
  <2>1. /\ loop' = [loop EXCEPT ![i] = "reset"] /\ UNCHANGED <<sock, srv>>
        /\ fd' = [fd EXCEPT ![i] = "closed"] /\ Running(i)
    BY <1>6 DEF LeaveClose, Goto, Running, OneLoop
  <2> QED
    BY <1>1, <1>2, <2>1 DEF OneLoop, OneListener, Ended, Running
<1>7. CASE LeaveReset(i)
  <2>1. /\ loop' = [loop EXCEPT ![i] = "done"] /\ UNCHANGED <<fd, srv>>
        /\ sock' = None /\ loop[i] = "reset"
    BY <1>7 DEF LeaveReset, Goto
  <2>2. \A j \in Ids : fd[j] # "open"
    BY <1>2, <2>1 DEF OneLoop, OneListener
  <2> QED
    BY <1>1, <1>2, <2>1, <2>2 DEF OneLoop, OneListener, Ended, Running
<1> QED
  BY <1>3, <1>5, <1>6, <1>7 DEF Run

LEMMA NextServed ==
  ASSUME Joins, Served, [Next]_vars
  PROVE  Served'
<1>1. CASE UNCHANGED vars
  BY <1>1, NextType DEF vars, Served, OneLoop, OneListener, Ended, Running
<1> QED
  BY <1>1, NextType, AppServed, LoopServed DEF Served, Next

\* After close() of a server whose loops are waited for no descriptor is open, and none
\* is left to the garbage collector: close() and the finally clause of serve_forever()
\* close what they forget, in every interleaving.  (A closed listener may live on in a
\* blocked accept(): Stuck.)
THEOREM ClosedForGood ==
  ASSUME Joins
  PROVE  Spec => []NoDescriptorLeft
<1>1. Init => Served
  BY InitServed
<1>2. Served /\ [Next]_vars => Served'
  BY NextServed
<1>3. Served => NoDescriptorLeft
  BY DEF Served, OneListener, NoDescriptorLeft
<1> QED
  BY <1>1, <1>2, <1>3, PTL DEF Spec

-----------------------------------------------------------------------------
(* Errors of accept(). *)

\* An error that stands for a closed listener is one.
Failing ==
  \A i \in Ids :
    /\ fd[i] = "none" => i > starts
    /\ loop[i] = "failed" /\ errno[i] \in {"EBADF", "EINVAL"} => fd[i] = "closed"

Judged == Served /\ Failing

LEMMA AppFailing ==
  ASSUME Joins, Judged, App
  PROVE  Failing'
<1> USE DEF Judged, Served
<1>1. CASE Bind
  <2>1. /\ starts' = starts + 1 /\ fd' = [fd EXCEPT ![starts + 1] = "open"]
        /\ fd \in [Ids -> {"none", "open", "closed"}] /\ UNCHANGED loop
        /\ starts \in Nat /\ \A i \in Ids : Ended(i) /\ i \in Nat
    BY <1>1, AcceptAssumption DEF Bind, TypeOK, Ids
  <2> QED
    BY <2>1 DEF Failing, Ended
<1>2. CASE StartThread
  <2>1. UNCHANGED <<fd, errno, starts>> /\ loop' = [loop EXCEPT ![starts] = "start"]
        /\ loop \in [Ids -> Loops]
    BY <1>2 DEF StartThread, TypeOK
  <2> QED
    BY <2>1 DEF Failing
<1>3. CASE CloseTest \/ CloseRaises \/ CloseReset
  BY <1>3 DEF CloseTest, CloseRaises, CloseReset, Failing
<1>4. CASE CloseListener
  <2>1. /\ UNCHANGED <<loop, errno, starts>> /\ fd' = [fd EXCEPT ![sock] = "closed"]
        /\ fd \in [Ids -> {"none", "open", "closed"}]
    BY <1>4 DEF CloseListener, TypeOK
  <2> QED
    BY <2>1 DEF Failing
<1> QED
  BY <1>1, <1>2, <1>3, <1>4 DEF App, Close

LEMMA LoopFailing ==
  ASSUME Judged, NEW i \in Ids, Run(i) \/ Returns(i) \/ SpawnRaises(i)
  PROVE  Failing'
<1> USE DEF Judged, Served
<1>1. /\ UNCHANGED starts /\ loop \in [Ids -> Loops] /\ fd \in [Ids -> {"none", "open", "closed"}]
      /\ errno \in [Ids -> {"none", "transient", "EBADF", "EINVAL"}]
  BY DEF Run, Returns, SpawnRaises, Start, AcceptClosed, AcceptBlocks, Accepted, AcceptFails,
         AcceptWoken, Spawn, Break, Continue, LeaveClose, LeaveReset, Raises, TypeOK
<1>2. CASE AcceptClosed(i) \/ AcceptWoken(i)
  <2>1. /\ fd[srv[i]] = "closed" /\ srv[i] = i /\ UNCHANGED fd
        /\ loop' = [loop EXCEPT ![i] = "failed"]
        /\ \A j \in Ids \ {i} : errno'[j] = errno[j]
    BY <1>1, <1>2 DEF AcceptClosed, AcceptWoken, Raises, Goto, OneLoop, Running
  <2> QED
    BY <1>1, <2>1 DEF Failing
<1>3. CASE AcceptFails(i)
  <2>1. /\ UNCHANGED fd /\ errno' = [errno EXCEPT ![i] = "transient"]
        /\ loop' = [loop EXCEPT ![i] = "failed"]
    BY <1>3 DEF AcceptFails, Raises, Goto
  <2> QED
    BY <1>1, <2>1 DEF Failing
<1>4. CASE Start(i) \/ AcceptBlocks(i) \/ Accepted(i) \/ Spawn(i) \/ SpawnRaises(i) \/ Break(i)
             \/ Continue(i) \/ LeaveReset(i)
  <2>1. /\ UNCHANGED <<fd, errno>>
        /\ \E s \in Loops \ {"failed"} : loop' = [loop EXCEPT ![i] = s]
    BY <1>4 DEF Start, AcceptBlocks, Accepted, Spawn, SpawnRaises, Break, Continue, LeaveReset,
                Goto, Loops
  <2> QED
    BY <1>1, <2>1 DEF Failing
<1>5. CASE LeaveClose(i)
  <2>1. /\ UNCHANGED errno /\ fd' = [fd EXCEPT ![srv[i]] = "closed"]
        /\ loop' = [loop EXCEPT ![i] = "reset"]
    BY <1>5 DEF LeaveClose, Goto
  <2> QED
    BY <1>1, <2>1 DEF Failing
<1> QED
  BY <1>2, <1>3, <1>4, <1>5 DEF Run, Returns

\* A loop that leaves because it finds no listener in _sock has lost it to close().
LEMMA BreakIsClosed ==
  ASSUME Judged, NEW i \in Ids, Break(i)
  PROVE  fd[srv[i]] = "closed"
<1>1. loop[i] = "failed" /\ srv[i] = i /\ fd[i] \in {"none", "open", "closed"}
  BY DEF Break, Judged, Served, TypeOK, OneLoop, Running
<1>2. i = starts /\ i \in Nat /\ starts \in Nat
  BY <1>1, AcceptAssumption DEF Judged, Served, TypeOK, OneLoop, Ended, Ids
<1>3. fd[i] # "none"
  BY <1>2 DEF Judged, Failing
<1>4. CASE sock = None
  BY <1>1, <1>2, <1>3, <1>4, NoneIsNoId DEF Judged, Served, OneListener
<1>5. CASE sock # None
  BY <1>1, <1>5 DEF Break, Stopped, Judged, Failing
<1> QED
  BY <1>1, <1>4, <1>5

\* "transient -> keep serving": an accept() that fails ends serve_forever() only if its
\* own listener was closed, for an application that waits for one loop before it
\* binds for the next.
THEOREM ServesUntilClosed ==
  ASSUME Joins
  PROVE  Spec => TransientKeepsServing
<1>1. Init => Judged
  BY InitServed, AcceptAssumption DEF Init, Judged, Failing, Ids
<1>2. Judged /\ [Next]_vars => Judged'
  <2> SUFFICES ASSUME Judged, [Next]_vars PROVE Failing'
    BY NextServed DEF Judged
  <2>1. CASE UNCHANGED vars
    BY <2>1 DEF vars, Judged, Failing
  <2> QED
    BY <2>1, AppFailing, LoopFailing DEF Next
<1>3. Judged /\ [Next]_vars => [\A i \in Ids : Break(i) => fd[srv[i]] = "closed"]_vars
  BY BreakIsClosed
<1> QED
  BY <1>1, <1>2, <1>3, PTL DEF Spec, TransientKeepsServing

=============================================================================
