-------------------------- MODULE AsyncClientProofs --------------------------
(***************************************************************************)
(* One asyncio client used by any number of tasks, for any number of       *)
(* connections: nothing leaks and the attributes belong to one tunnel, as  *)
(* long as no two handshakes overlap.                                      *)
(***************************************************************************)
EXTENDS AsyncClient, TLAPS

LEMMA NoneIsNoConnection == None \notin Connections
  BY TasksAssumption DEF Connections

-----------------------------------------------------------------------------
(* Types. *)

LEMMA InitType == Init => TypeOK
<1> SUFFICES ASSUME Init PROVE TypeOK
  OBVIOUS
<1>1. \A c \in Connections : transport[c] = "none" /\ c > opened
  BY TasksAssumption DEF Init, Connections
<1>2. opened \in 0 .. MaxConnections
  BY TasksAssumption DEF Init
<1>3. \A t \in Tasks : mine[t] = None /\ pc[t] = "idle"
  BY DEF Init
<1>4. {writer, reader, bound, leftover} \subseteq Attribute
  BY DEF Init, Attribute
<1> QED
  BY <1>1, <1>2, <1>3, <1>4 DEF Init, TypeOK, Attribute

\* connect(), from its test to its return.
LEMMA ConnectType ==
  ASSUME TypeOK, NEW t \in Tasks,
         Connect(t) \/ Opened(t) \/ OpenFails(t) \/ Granted(t) \/ Refused(t)
           \/ NegotiateFails(t)
  PROVE  TypeOK'
<1>1. CASE Connect(t)
  BY <1>1 DEF Connect, Goto, attributes, TypeOK, Attribute
<1>2. CASE Opened(t)
  <2>1. opened + 1 \in Connections /\ opened' = opened + 1
    BY <1>2, TasksAssumption DEF Opened, TypeOK, Connections
  <2>2. \A c \in Connections : transport'[c] = "none" <=> c > opened'
    BY <1>2, <2>1, TasksAssumption DEF Opened, TypeOK, Connections
  <2>3. mine' \in [Tasks -> Attribute] /\ transport' \in [Connections -> {"none", "open", "closing", "closed"}]
    BY <1>2, <2>1 DEF Opened, TypeOK, Attribute
  <2>4. \A u \in Tasks : mine'[u] = None <=> pc'[u] \in {"idle", "opening"}
    BY <1>2, <2>1, NoneIsNoConnection DEF Opened, Goto, TypeOK
  <2> QED
    BY <1>2, <2>1, <2>2, <2>3, <2>4, TasksAssumption DEF Opened, Goto, attributes, TypeOK
<1>3. CASE OpenFails(t)
  BY <1>3 DEF OpenFails, Return, Goto, attributes, TypeOK, Attribute
<1>4. CASE Granted(t)
  BY <1>4, NoneIsNoConnection DEF Granted, Return, Goto, TypeOK, Attribute
<1>5. CASE Refused(t) \/ NegotiateFails(t)
  <2>1. mine[t] \in Connections
    BY <1>5, NoneIsNoConnection DEF Refused, NegotiateFails, TypeOK, Attribute
  <2>2. /\ transport' \in [Connections -> {"none", "open", "closing", "closed"}]
        /\ \A c \in Connections : transport'[c] = "none" <=> c > opened
    BY <1>5, <2>1 DEF Refused, NegotiateFails, Abort, Closing, TypeOK
  <2> QED
    BY <1>5, <2>1, <2>2, NoneIsNoConnection
       DEF Refused, NegotiateFails, Abort, Goto, TypeOK, Attribute
<1> QED
  BY <1>1, <1>2, <1>3, <1>4, <1>5

\* aclose(), and the wait of both calls.
LEMMA AcloseType ==
  ASSUME TypeOK, NEW t \in Tasks,
         Aclose(t) \/ WaitEnds(t) \/ WaitCancelled(t) \/ WaitBroken(t)
  PROVE  TypeOK'
<1>1. CASE Aclose(t)
  <2>1. writer \in Connections
    BY <1>1 DEF Aclose, TypeOK, Attribute
  <2>2. /\ transport' \in [Connections -> {"none", "open", "closing", "closed"}]
        /\ \A c \in Connections : transport'[c] = "none" <=> c > opened
    BY <1>1, <2>1 DEF Aclose, Closing, TypeOK
  <2> QED
    BY <1>1, <2>1, <2>2, NoneIsNoConnection
       DEF Aclose, Goto, attributes, TypeOK, Attribute
<1>2. CASE WaitEnds(t)
  BY <1>2 DEF WaitEnds, Return, Goto, TypeOK, Attribute
<1>3. CASE WaitCancelled(t)
  <2>1. mine[t] \in Connections
    BY <1>3, NoneIsNoConnection DEF WaitCancelled, Waiting, TypeOK, Attribute
  <2> QED
    BY <1>3, <2>1 DEF WaitCancelled, Return, Goto, attributes, TypeOK, Attribute
<1>4. CASE WaitBroken(t)
  BY <1>4 DEF WaitBroken, Return, Goto, attributes, TypeOK, Attribute
<1> QED
  BY <1>1, <1>2, <1>3, <1>4

LEMMA TransportType ==
  ASSUME TypeOK, NEW c \in Connections, Closed(c) \/ Lost(c)
  PROVE  TypeOK'
BY DEF Closed, Lost, attributes, TypeOK, Attribute

LEMMA NextType == TypeOK /\ [Next]_vars => TypeOK'
<1> SUFFICES ASSUME TypeOK, [Next]_vars PROVE TypeOK'
  OBVIOUS
<1>1. CASE \E t \in Tasks : Call(t)
  BY <1>1, ConnectType, AcloseType DEF Call
<1>2. CASE \E c \in Connections : Closed(c) \/ Lost(c)
  BY <1>2, TransportType
<1>3. CASE UNCHANGED vars
  BY <1>3 DEF vars, attributes, TypeOK, Attribute
<1> QED
  BY <1>1, <1>2, <1>3 DEF Next

\* The fields of the object and of its tasks have their types (_BaseAsyncClient), for
\* any number of tasks and connections.
THEOREM ClientTypes == Spec => []TypeOK
<1>1. Init => TypeOK
  BY InitType
<1>2. TypeOK /\ [Next]_vars => TypeOK'
  BY NextType
<1> QED
  BY <1>1, <1>2, PTL DEF Spec

-----------------------------------------------------------------------------
(* One handshake at a time. *)

\* Without overlapping handshakes there is one at most, and none beside a tunnel.
OneHandshake ==
  /\ \A t, u \in Tasks : Connecting(t) /\ Connecting(u) => t = u
  /\ \A t \in Tasks : Connecting(t) => writer = None

\* An aclose() waits for the connection the object has, or is about to run: it never
\* resets a later one.
NoStaleClose ==
  \A t \in Tasks : pc[t] = "closing" =>
    /\ transport[mine[t]] # "open"
    /\ writer = mine[t] \/ (writer = None /\ Woken(t))

Disciplined == ~overlapped => OneHandshake /\ NoStaleClose
Held == TypeOK /\ Disciplined /\ NoLeak /\ OneTunnel

LEMMA InitHeld == Init => Held
<1> SUFFICES ASSUME Init PROVE Disciplined /\ NoLeak /\ OneTunnel
  BY InitType DEF Held
<1> QED
  BY DEF Init, Disciplined, OneHandshake, NoStaleClose, Connecting, NoLeak, Reachable, OneTunnel

LEMMA ConnectHeld ==
  ASSUME Held, NEW t \in Tasks, Connect(t), ~overlapped'
  PROVE  OneHandshake' /\ NoStaleClose' /\ NoLeak' /\ OneTunnel'
<1>1. ~overlapped /\ \A u \in Tasks : ~Connecting(u)
  BY DEF Connect
<1>2. /\ UNCHANGED <<mine, transport, cut, writer, reader, bound, leftover, optimistic>>
      /\ writer = None
      /\ pc' = [pc EXCEPT ![t] = "opening"] /\ pc \in [Tasks -> {"idle", "opening", "negotiating", "aborting", "closing"}]
      /\ pc[t] = "idle"
  BY DEF Connect, Goto, attributes, Held, TypeOK
<1>3. OneHandshake'
  BY <1>1, <1>2 DEF OneHandshake, Connecting
<1>4. NoStaleClose'
  BY <1>1, <1>2 DEF Held, Disciplined, NoStaleClose, Woken, Waiting
<1>5. NoLeak'
  BY <1>1, <1>2 DEF Held, NoLeak, Reachable
<1>6. OneTunnel'
  BY <1>2 DEF OneTunnel
<1> QED
  BY <1>3, <1>4, <1>5, <1>6

LEMMA OpenedHeld ==
  ASSUME Held, NEW t \in Tasks, Opened(t), ~overlapped'
  PROVE  OneHandshake' /\ NoStaleClose' /\ NoLeak' /\ OneTunnel'
<1>1. /\ ~overlapped
      /\ UNCHANGED <<cut, writer, reader, bound, leftover, optimistic>>
      /\ pc' = [pc EXCEPT ![t] = "negotiating"]
      /\ mine' = [mine EXCEPT ![t] = opened + 1]
      /\ transport' = [transport EXCEPT ![opened + 1] = "open"]
      /\ pc[t] = "opening"
  BY DEF Opened, Goto, attributes
<1>2. /\ pc \in [Tasks -> {"idle", "opening", "negotiating", "aborting", "closing"}]
      /\ mine \in [Tasks -> Attribute]
      /\ transport \in [Connections -> {"none", "open", "closing", "closed"}]
      /\ opened + 1 \in Connections
      /\ transport[opened + 1] = "none"
  BY TasksAssumption DEF Held, TypeOK, Opened, Connections
<1>3. OneHandshake'
  BY <1>1, <1>2 DEF Held, Disciplined, OneHandshake, Connecting
<1>4. writer = None
  BY <1>1 DEF Held, Disciplined, OneHandshake, Connecting
<1>5. \A u \in Tasks : pc[u] # "closing"
  BY <1>1, <1>4, NoneIsNoConnection
     DEF Held, Disciplined, NoStaleClose, Opened, Settled, TypeOK
<1>6. NoStaleClose'
  BY <1>1, <1>2, <1>5 DEF NoStaleClose
<1>7. NoLeak'
  BY <1>1, <1>2, <1>4 DEF Held, NoLeak, Reachable
<1>8. OneTunnel'
  BY <1>1, <1>4 DEF OneTunnel
<1> QED
  BY <1>3, <1>6, <1>7, <1>8

LEMMA OpenFailsHeld ==
  ASSUME Held, NEW t \in Tasks, OpenFails(t), ~overlapped'
  PROVE  OneHandshake' /\ NoStaleClose' /\ NoLeak' /\ OneTunnel'
<1>1. /\ ~overlapped
      /\ UNCHANGED <<transport, cut, writer, reader, bound, leftover, optimistic>>
      /\ pc' = [pc EXCEPT ![t] = "idle"] /\ mine' = [mine EXCEPT ![t] = None]
      /\ pc[t] = "opening"
  BY DEF OpenFails, Return, Goto, attributes
<1>2. /\ pc \in [Tasks -> {"idle", "opening", "negotiating", "aborting", "closing"}]
      /\ mine \in [Tasks -> Attribute]
  BY DEF Held, TypeOK
<1>3. OneHandshake'
  BY <1>1, <1>2 DEF Held, Disciplined, OneHandshake, Connecting
<1>4. NoStaleClose'
  BY <1>1, <1>2 DEF Held, Disciplined, NoStaleClose, Woken, Waiting
<1>5. NoLeak' /\ OneTunnel'
  BY <1>1, <1>2 DEF Held, NoLeak, Reachable, OneTunnel
<1> QED
  BY <1>3, <1>4, <1>5

\* With all that is ready run first, no aclose() is left that waits for the connection
\* the object had before.
LEMMA GrantedHeld ==
  ASSUME Held, NEW t \in Tasks, Granted(t), ~overlapped'
  PROVE  OneHandshake' /\ NoStaleClose' /\ NoLeak' /\ OneTunnel'
<1>1. /\ ~overlapped
      /\ UNCHANGED <<transport, cut, optimistic>>
      /\ pc' = [pc EXCEPT ![t] = "idle"] /\ mine' = [mine EXCEPT ![t] = None]
      /\ pc[t] = "negotiating"
      /\ writer' = mine[t] /\ reader' = mine[t] /\ bound' = mine[t]
      /\ leftover' = IF optimistic THEN mine[t] ELSE leftover
  BY DEF Granted, Return, Goto
<1>2. /\ pc \in [Tasks -> {"idle", "opening", "negotiating", "aborting", "closing"}]
      /\ mine \in [Tasks -> Attribute]
  BY DEF Held, TypeOK
<1>3. /\ writer = None
      /\ \A u \in Tasks : Connecting(u) => u = t
  BY <1>1 DEF Held, Disciplined, OneHandshake, Connecting
<1>4. OneHandshake'
  BY <1>1, <1>2, <1>3 DEF OneHandshake, Connecting
<1>5. \A u \in Tasks : pc[u] # "closing"
  BY <1>1, <1>3, NoneIsNoConnection
     DEF Held, Disciplined, NoStaleClose, Granted, Settled, TypeOK
<1>6. NoStaleClose'
  BY <1>1, <1>2, <1>5 DEF NoStaleClose
<1>7. NoLeak'
  BY <1>1, <1>2, <1>3, NoneIsNoConnection DEF Held, NoLeak, Reachable, Connecting
<1>8. OneTunnel'
  BY <1>1 DEF OneTunnel
<1> QED
  BY <1>4, <1>6, <1>7, <1>8

\* _abort(), after a refusal or a failure.
LEMMA AbortHeld ==
  ASSUME Held, NEW t \in Tasks, Refused(t) \/ NegotiateFails(t), ~overlapped'
  PROVE  OneHandshake' /\ NoStaleClose' /\ NoLeak' /\ OneTunnel'
<1>1. /\ ~overlapped
      /\ UNCHANGED <<mine, cut, writer, reader, bound, optimistic>>
      /\ pc' = [pc EXCEPT ![t] = "aborting"]
      /\ pc[t] = "negotiating"
      /\ transport' = Closing(mine[t])
  BY DEF Refused, NegotiateFails, Abort, Goto
<1>2. /\ pc \in [Tasks -> {"idle", "opening", "negotiating", "aborting", "closing"}]
      /\ mine \in [Tasks -> Attribute]
      /\ transport \in [Connections -> {"none", "open", "closing", "closed"}]
      /\ mine[t] \in Connections
  BY <1>1, NoneIsNoConnection DEF Held, TypeOK, Attribute
<1>3. /\ writer = None
      /\ \A u \in Tasks : Connecting(u) => u = t
  BY <1>1 DEF Held, Disciplined, OneHandshake, Connecting
<1>4. /\ transport'[mine[t]] # "open"
      /\ \A c \in Connections : transport'[c] = "open" => transport[c] = "open"
      /\ \A c \in Connections : transport[c] = "closed" => transport'[c] = "closed"
  BY <1>1, <1>2 DEF Closing
<1>5. OneHandshake'
  BY <1>1, <1>2, <1>3 DEF OneHandshake, Connecting
<1>6. NoStaleClose'
  <2> SUFFICES ASSUME NEW u \in Tasks, pc'[u] = "closing"
               PROVE  transport'[mine[u]] # "open" /\ writer = None /\ Woken(u)'
    BY <1>1, <1>3 DEF NoStaleClose
  <2>1. pc[u] = "closing" /\ u # t
    BY <1>1, <1>2
  <2>2. transport[mine[u]] # "open" /\ Woken(u) /\ mine[u] \in Connections
    BY <1>1, <1>2, <1>3, <2>1, NoneIsNoConnection
       DEF Held, Disciplined, NoStaleClose, TypeOK, Attribute
  <2>3. Woken(u)'
    BY <1>1, <1>2, <1>4, <2>1, <2>2 DEF Woken, Waiting
  <2> QED
    BY <1>3, <1>4, <2>2, <2>3
<1>7. NoLeak'
  <2> SUFFICES ASSUME NEW c \in Connections, transport'[c] = "open" PROVE FALSE
    BY DEF NoLeak, Reachable
  <2>1. PICK u \in Tasks : pc[u] = "negotiating" /\ mine[u] = c
    BY <1>1, <1>3, <1>4, NoneIsNoConnection DEF Held, NoLeak, Reachable
  <2> QED
    BY <1>3, <1>4, <2>1 DEF Connecting
<1>8. OneTunnel'
  BY <1>1, <1>3 DEF OneTunnel
<1> QED
  BY <1>5, <1>6, <1>7, <1>8

LEMMA AcloseHeld ==
  ASSUME Held, NEW t \in Tasks, Aclose(t), ~overlapped'
  PROVE  OneHandshake' /\ NoStaleClose' /\ NoLeak' /\ OneTunnel'
<1>1. /\ ~overlapped
      /\ UNCHANGED <<cut, writer, reader, bound, leftover, optimistic>>
      /\ pc' = [pc EXCEPT ![t] = "closing"] /\ mine' = [mine EXCEPT ![t] = writer]
      /\ pc[t] = "idle" /\ writer # None
      /\ transport' = Closing(writer)
  BY DEF Aclose, Goto, attributes
<1>2. /\ pc \in [Tasks -> {"idle", "opening", "negotiating", "aborting", "closing"}]
      /\ mine \in [Tasks -> Attribute]
      /\ transport \in [Connections -> {"none", "open", "closing", "closed"}]
      /\ writer \in Connections
  BY <1>1 DEF Held, TypeOK, Attribute
<1>3. \A u \in Tasks : ~Connecting(u)
  BY <1>1 DEF Held, Disciplined, OneHandshake
<1>4. /\ transport'[writer] # "open"
      /\ \A c \in Connections : transport'[c] = "open" => transport[c] = "open"
  BY <1>1, <1>2 DEF Closing
<1>5. OneHandshake'
  BY <1>1, <1>2, <1>3 DEF OneHandshake, Connecting
<1>6. NoStaleClose'
  <2> SUFFICES ASSUME NEW u \in Tasks, pc'[u] = "closing"
               PROVE  transport'[mine'[u]] # "open" /\ writer = mine'[u]
    BY <1>1 DEF NoStaleClose
  <2>1. writer = mine'[u]
    BY <1>1, <1>2 DEF Held, Disciplined, NoStaleClose
  <2> QED
    BY <1>4, <2>1
<1>7. NoLeak'
  <2> SUFFICES ASSUME NEW c \in Connections, transport'[c] = "open" PROVE FALSE
    BY DEF NoLeak, Reachable
  <2>1. writer = c
    BY <1>1, <1>3, <1>4 DEF Held, NoLeak, Reachable, Connecting
  <2> QED
    BY <1>4, <2>1
<1>8. OneTunnel'
  BY <1>1 DEF Held, OneTunnel
<1> QED
  BY <1>5, <1>6, <1>7, <1>8

\* The wait returns: the connection is closed, and the object has it no more.
LEMMA WaitEndsHeld ==
  ASSUME Held, NEW t \in Tasks, WaitEnds(t), ~overlapped'
  PROVE  OneHandshake' /\ NoStaleClose' /\ NoLeak' /\ OneTunnel'
<1>1. /\ ~overlapped
      /\ UNCHANGED <<transport, cut, bound, leftover, optimistic>>
      /\ pc' = [pc EXCEPT ![t] = "idle"] /\ mine' = [mine EXCEPT ![t] = None]
      /\ transport[mine[t]] = "closed"
      /\ pc[t] \in {"aborting", "closing"}
      /\ IF pc[t] = "closing" THEN writer' = None /\ reader' = None
                              ELSE UNCHANGED <<writer, reader>>
  BY DEF WaitEnds, Waiting, Return, Goto
<1>2. /\ pc \in [Tasks -> {"idle", "opening", "negotiating", "aborting", "closing"}]
      /\ mine \in [Tasks -> Attribute]
  BY DEF Held, TypeOK
<1>3. OneHandshake'
  BY <1>1, <1>2 DEF Held, Disciplined, OneHandshake, Connecting
<1>4. NoStaleClose'
  <2> SUFFICES ASSUME NEW u \in Tasks, pc'[u] = "closing"
               PROVE  /\ transport[mine[u]] # "open"
                      /\ writer' = mine[u] \/ (writer' = None /\ Woken(u)')
    BY <1>1, <1>2 DEF NoStaleClose
  <2>1. /\ pc[u] = "closing" /\ u # t
        /\ mine'[u] = mine[u]
    BY <1>1, <1>2
  <2>2. /\ transport[mine[u]] # "open"
        /\ writer = mine[u] \/ (writer = None /\ Woken(u))
    BY <1>1, <2>1 DEF Held, Disciplined, NoStaleClose
  <2>3. Woken(u) => Woken(u)'
    BY <1>1, <2>1, <1>2 DEF Woken, Waiting
  <2>4. CASE pc[t] = "closing"
    <3>1. writer = mine[t] \/ writer = None
      BY <1>1, <2>4 DEF Held, Disciplined, NoStaleClose
    <3>2. Woken(u)
      BY <1>1, <2>1, <2>2, <3>1, NoneIsNoConnection
         DEF Woken, Waiting, Held, TypeOK, Attribute
    <3> QED
      BY <1>1, <2>2, <2>3, <2>4, <3>2
  <2>5. CASE pc[t] # "closing"
    BY <1>1, <2>2, <2>3, <2>5
  <2> QED
    BY <2>4, <2>5
<1>5. NoLeak'
  <2> SUFFICES ASSUME NEW c \in Connections, transport[c] = "open"
               PROVE  writer' = c \/ \E u \in Tasks : pc'[u] = "negotiating" /\ mine'[u] = c
    BY <1>1 DEF NoLeak, Reachable
  <2>1. CASE writer = c
    <3>1. c # mine[t]
      BY <1>1
    <3>2. pc[t] # "closing"
      BY <1>1, <2>1, <3>1, NoneIsNoConnection DEF Held, Disciplined, NoStaleClose
    <3> QED
      BY <1>1, <2>1, <3>2
  <2>2. CASE writer # c
    <3>1. PICK u \in Tasks : pc[u] = "negotiating" /\ mine[u] = c
      BY <1>1, <2>2 DEF Held, NoLeak, Reachable
    <3> QED
      BY <1>1, <1>2, <3>1
  <2> QED
    BY <2>1, <2>2
<1>6. OneTunnel'
  BY <1>1 DEF Held, OneTunnel
<1> QED
  BY <1>3, <1>4, <1>5, <1>6

\* The wait is cancelled, or awaits a future that was.
LEMMA WaitFailsHeld ==
  ASSUME Held, NEW t \in Tasks, WaitCancelled(t) \/ WaitBroken(t), ~overlapped'
  PROVE  OneHandshake' /\ NoStaleClose' /\ NoLeak' /\ OneTunnel'
<1>1. /\ ~overlapped
      /\ UNCHANGED <<transport, writer, reader, bound, leftover, optimistic>>
      /\ cut \subseteq cut'
      /\ pc' = [pc EXCEPT ![t] = "idle"] /\ mine' = [mine EXCEPT ![t] = None]
      /\ pc[t] \in {"aborting", "closing"}
  BY DEF WaitCancelled, WaitBroken, Waiting, Return, Goto, attributes
<1>2. /\ pc \in [Tasks -> {"idle", "opening", "negotiating", "aborting", "closing"}]
      /\ mine \in [Tasks -> Attribute]
  BY DEF Held, TypeOK
<1>3. OneHandshake'
  BY <1>1, <1>2 DEF Held, Disciplined, OneHandshake, Connecting
<1>4. NoStaleClose'
  BY <1>1, <1>2 DEF Held, Disciplined, NoStaleClose, Woken, Waiting
<1>5. NoLeak' /\ OneTunnel'
  BY <1>1, <1>2 DEF Held, NoLeak, Reachable, OneTunnel
<1> QED
  BY <1>3, <1>4, <1>5

LEMMA TransportHeld ==
  ASSUME Held, NEW c \in Connections, Closed(c) \/ Lost(c), ~overlapped'
  PROVE  OneHandshake' /\ NoStaleClose' /\ NoLeak' /\ OneTunnel'
<1>1. /\ ~overlapped
      /\ UNCHANGED <<pc, mine, cut, writer, reader, bound, leftover, optimistic>>
      /\ transport' = [transport EXCEPT ![c] = "closed"]
  BY DEF Closed, Lost, attributes
<1>2. transport \in [Connections -> {"none", "open", "closing", "closed"}]
  BY DEF Held, TypeOK
<1>3. OneHandshake' /\ OneTunnel'
  BY <1>1 DEF Held, Disciplined, OneHandshake, Connecting, OneTunnel
<1>4. NoStaleClose'
  <2> SUFFICES ASSUME NEW u \in Tasks, pc[u] = "closing"
               PROVE  /\ transport'[mine[u]] # "open"
                      /\ writer = mine[u] \/ (writer = None /\ Woken(u)')
    BY <1>1 DEF NoStaleClose
  <2>1. mine[u] \in Connections
    BY DEF Held, TypeOK, Attribute
  <2>2. Woken(u) => Woken(u)'
    BY <1>1, <1>2, <2>1 DEF Woken, Waiting
  <2> QED
    BY <1>1, <1>2, <2>1, <2>2 DEF Held, Disciplined, NoStaleClose
<1>5. NoLeak'
  BY <1>1, <1>2 DEF Held, NoLeak, Reachable
<1> QED
  BY <1>3, <1>4, <1>5

LEMMA NextHeld == Held /\ [Next]_vars => Held'
<1> SUFFICES ASSUME Held, [Next]_vars PROVE Held'
  OBVIOUS
<1>1. TypeOK'
  BY NextType DEF Held
<1>2. CASE overlapped'
  BY <1>1, <1>2 DEF Held, Disciplined, NoLeak, Reachable, OneTunnel
<1>3. CASE ~overlapped'
  <2>1. CASE \E t \in Tasks : Call(t)
    <3>1. PICK t \in Tasks : Call(t)
      BY <2>1
    <3> QED
      BY <1>1, <1>3, <3>1, ConnectHeld, OpenedHeld, OpenFailsHeld, GrantedHeld, AbortHeld,
         AcloseHeld, WaitEndsHeld, WaitFailsHeld
         DEF Call, Held, Disciplined
  <2>2. CASE \E c \in Connections : Closed(c) \/ Lost(c)
    BY <1>1, <1>3, <2>2, TransportHeld DEF Held, Disciplined
  <2>3. CASE UNCHANGED vars
    <3>1. /\ ~overlapped
          /\ UNCHANGED <<optimistic, pc, mine, transport, cut, opened, writer, reader,
                         bound, leftover, overlapped>>
      BY <1>3, <2>3 DEF vars, attributes
    <3>2. OneHandshake' /\ NoStaleClose'
      BY <3>1 DEF Held, Disciplined, OneHandshake, NoStaleClose, Connecting, Woken, Waiting
    <3>3. NoLeak' /\ OneTunnel'
      BY <3>1 DEF Held, NoLeak, Reachable, OneTunnel
    <3> QED
      BY <1>1, <3>2, <3>3 DEF Held, Disciplined
  <2> QED
    BY <2>1, <2>2, <2>3 DEF Next
<1> QED
  BY <1>2, <1>3

\* No connection is left open behind the object (connect(), _abort() and aclose()),
\* however many tasks call it, fail and are cancelled, while no two handshakes overlap.
THEOREM NothingLeaks == Spec => []NoLeak
<1>1. Init => Held
  BY InitHeld
<1>2. Held /\ [Next]_vars => Held'
  BY NextHeld
<1>3. Held => NoLeak
  BY DEF Held
<1> QED
  BY <1>1, <1>2, <1>3, PTL DEF Spec

\* A connected object describes the connection it holds (the assignments of connect()
\* and the resets of aclose()), while no two handshakes overlap.
THEOREM TunnelIsOne == Spec => []OneTunnel
<1>1. Init => Held
  BY InitHeld
<1>2. Held /\ [Next]_vars => Held'
  BY NextHeld
<1>3. Held => OneTunnel
  BY DEF Held
<1> QED
  BY <1>1, <1>2, <1>3, PTL DEF Spec

=============================================================================
