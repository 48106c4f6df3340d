----------------------------- MODULE ServerProofs -----------------------------
(***************************************************************************)
(* Theorems about the server, alone and against the library's client.      *)
(*                                                                         *)
(* First ServerSession, for every peer, every segmentation and every order *)
(* of calls: type correctness; reassembly (the bytes buffered and the      *)
(* bytes to come are the stream behind the messages consumed, and the      *)
(* hooks are given what that stream says); and the order of the protocol.  *)
(*                                                                         *)
(* Then ServerDriver, whatever the hooks do and however the dial goes.     *)
(* Nothing up to there cites an assumption of EndToEnd.                    *)
(*                                                                         *)
(* Then EndToEnd, for every target, credentials and banner: what the       *)
(* server makes of a peer that says more; what its answers are, byte by    *)
(* byte; what the client (ClientProofs, as CP) makes of them; and so that  *)
(* the two ends agree.                                                     *)
(***************************************************************************)
EXTENDS EndToEnd, Socks5CodecProofs

-----------------------------------------------------------------------------
(* Type correctness. *)

LEMMA SendType ==
  ASSUME NEW data \in Bytes
  PROVE  Send(data) \in LastingEvent
BY DEF Send, LastingEvent, SendEvent

LEMMA EventFacts ==
  /\ Close \in Event /\ NeedData \in Event /\ Raise \in Event
  /\ LastingEvent \subseteq Event
  /\ RelayEvent \subseteq LastingEvent
  /\ \A e \in Event : Lasting(e) => e \in LastingEvent
BY DEF Event, LastingEvent, SendEvent, RelayEvent, Lasting, Close, NeedData, Raise

\* Every message next_event() sends is a byte string.
LEMMA MessageTypes ==
  /\ \A m \in Byte : Send(method_selection(m)) \in Event
  /\ \A x \in Byte : Send(auth_reply(x)) \in Event
  /\ \A r \in Byte : Send(reply(r, Unbound)) \in Event
  /\ \A r \in Byte, a \in Address : Encodable(a.host) => Send(reply(r, a)) \in Event
  /\ \A name \in {"NO_AUTH", "USERPASS", "NO_ACCEPTABLE"} : Method[name] \in Byte
  /\ \A name \in {"SUCCEEDED", "GENERAL_FAILURE", "NOT_ALLOWED", "CMD_NOT_SUPPORTED",
                  "ATYP_NOT_SUPPORTED"} : Rep[name] \in Byte
<1>1. \A m \in Byte : method_selection(m) \in Bytes /\ auth_reply(m) \in Bytes
  BY ByteFacts DEF method_selection, auth_reply, Ver, AuthVer, Bytes
<1>2. \A r \in Byte : reply(r, Unbound) \in Bytes
  BY ReplyType, UnboundType
<1>3. \A r \in Byte, a \in Address : Encodable(a.host) => reply(r, a) \in Bytes
  BY ReplyType
<1>4. \A name \in {"NO_AUTH", "USERPASS", "NO_ACCEPTABLE"} : Method[name] \in Byte
  BY ByteFacts DEF Method
<1>5. \A name \in {"SUCCEEDED", "GENERAL_FAILURE", "NOT_ALLOWED", "CMD_NOT_SUPPORTED",
                  "ATYP_NOT_SUPPORTED"} : Rep[name] \in Byte
  BY ByteFacts DEF Rep
<1> QED
  BY <1>1, <1>2, <1>3, <1>4, <1>5, SendType, EventFacts

\* A way through next_event() keeps the types if what it returns, queues and
\* decides is well typed.
LEMMA GoType ==
  ASSUME TypeOK, NEW n \in Nat, NEW s \in States, NEW events, NEW d \in Decisions,
         Head(events) \in Event,
         Tail(events) \in Seq({Close} \cup RelayEvent), Len(Tail(events)) <= 1,
         s \in {"auth", "auth_wait"} => requireAuth,
         s = "connect_wait" => d.target \in Address,
         Go(n, s, events, d)
  PROVE  TypeOK'
<1>1. buf' \in Bytes
  BY DropType DEF TypeOK, Go
<1>2. log' \in Seq(LastingEvent)
  <2>1. CASE Lasting(Head(events))
    BY <2>1, EventFacts, AppendProperties DEF TypeOK, Go
  <2>2. CASE ~Lasting(Head(events))
    BY <2>2 DEF TypeOK, Go
  <2> QED
    BY <2>1, <2>2
<1>3. peer' = peer
  BY DEF Go
<1>4. state' = s /\ ev' = Head(events) /\ out' = Tail(events) /\ dec' = d
  BY DEF Go
<1> QED
  BY <1>1, <1>2, <1>3, <1>4 DEF TypeOK, peer

LEMMA GoOne ==
  ASSUME TypeOK, NEW n \in Nat, NEW s \in States, NEW e \in Event, NEW d \in Decisions,
         s \in {"auth", "auth_wait"} => requireAuth,
         s = "connect_wait" => d.target \in Address,
         Go(n, s, <<e>>, d)
  PROVE  TypeOK'
<1>1. Head(<<e>>) = e /\ Tail(<<e>>) = <<>>
  OBVIOUS
<1>2. <<>> \in Seq({Close} \cup RelayEvent) /\ Len(<<>>) <= 1
  OBVIOUS
<1> QED
  BY <1>1, <1>2, GoType

LEMMA GoTwo ==
  ASSUME TypeOK, NEW n \in Nat, NEW s \in States, NEW e \in Event, NEW d \in Decisions,
         NEW f \in {Close} \cup RelayEvent,
         s \in {"auth", "auth_wait"} => requireAuth,
         s = "connect_wait" => d.target \in Address,
         Go(n, s, <<e, f>>, d)
  PROVE  TypeOK'
<1>1. Head(<<e, f>>) = e /\ Tail(<<e, f>>) = <<f>>
  OBVIOUS
<1>2. <<f>> \in Seq({Close} \cup RelayEvent) /\ Len(<<f>>) <= 1
  OBVIOUS
<1> QED
  BY <1>1, <1>2, GoType

\* Return(e) and Closing(<<e>>), Closing(<<e, Close>>).
LEMMA ReturnType ==
  ASSUME TypeOK, NEW e \in Event, Return(e)
  PROVE  TypeOK'
<1>1. /\ state \in States
      /\ dec \in Decisions
      /\ state \in {"auth", "auth_wait"} => requireAuth
      /\ state = "connect_wait" => dec.target \in Address
  BY DEF TypeOK
<1> QED
  BY <1>1, GoOne DEF Return

LEMMA ClosingType ==
  ASSUME TypeOK, NEW e \in Event, Closing(<<e>>) \/ Closing(<<e, Close>>)
  PROVE  TypeOK'
<1>1. dec \in Decisions /\ "closed" \in States
  BY DEF TypeOK, States
<1> QED
  BY <1>1, GoOne, GoTwo DEF Closing

LEMMA AwaitType ==
  ASSUME TypeOK, NEW cap, Await(cap)
  PROVE  TypeOK'
BY ClosingType, ReturnType, EventFacts DEF Await

LEMMA InitType == Init => TypeOK
<1> SUFFICES ASSUME Init PROVE TypeOK
  OBVIOUS
<1>1. stream \in Bytes
  BY SessionAssumption DEF Init, SessionAssumption
<1>2. FreshDecisions \in Decisions
  BY ByteFacts DEF FreshDecisions, Decisions, Rep
<1> QED
  BY <1>1, <1>2 DEF Init, TypeOK, States, Bytes

LEMMA DecideType ==
  ASSUME TypeOK, NEW d \in Decisions, d.target \in {dec.target} \cup Address, Decide(d)
  PROVE  TypeOK'
BY DEF TypeOK, Decide, peer

LEMMA CallsType ==
  ASSUME TypeOK, HookCall \/ DriverCall
  PROVE  TypeOK'
<1>1. dec \in Decisions
  BY DEF TypeOK
<1>2. FailureReps \subseteq Byte /\ Addresses \subseteq Address
  BY SessionAssumption DEF SessionAssumption
<1>3. ASSUME NEW c \in Ctxs \cup {None}, ok(c) PROVE TypeOK'
  BY <1>1, <1>3, DecideType DEF ok, Decisions
<1>4. ASSUME NEW r \in FailureReps, reject(r) PROVE TypeOK'
  BY <1>1, <1>2, <1>4, DecideType DEF reject, Decisions
<1>5. ASSUME NEW a \in Addresses, set_target(a) PROVE TypeOK'
  BY <1>1, <1>2, <1>5, DecideType DEF set_target, Decisions
<1>6. CASE pipe
  BY <1>1, <1>6, DecideType DEF pipe, Decisions
<1>7. CASE relay_raw
  BY <1>1, <1>7, DecideType DEF relay_raw, Decisions
<1>8. CASE intercept
  BY <1>1, <1>8, DecideType DEF intercept, Decisions
<1>9. ASSUME NEW a \in Addresses, connected(a) PROVE TypeOK'
  BY <1>1, <1>2, <1>9, DecideType DEF connected, Decisions
<1>10. ASSUME NEW r \in FailureReps, connect_failed(r) PROVE TypeOK'
  BY <1>1, <1>2, <1>10, DecideType DEF connect_failed, Decisions
<1> QED
  BY <1>3, <1>4, <1>5, <1>6, <1>7, <1>8, <1>9, <1>10 DEF HookCall, DriverCall

LEMMA ReceiveType ==
  ASSUME TypeOK, NEW n \in 1 .. Len(inflight), receive(n)
  PROVE  TypeOK'
<1>1. inflight \in Bytes /\ Len(inflight) \in Nat /\ n \in 0 .. Len(inflight) /\ n \in Nat
  BY LenProperties DEF TypeOK, Bytes
<1>2. SubSeq(inflight, 1, n) \in Bytes /\ Drop(inflight, n) \in Bytes
  BY <1>1, TakeAndDrop, DropType
<1>3. buf \o SubSeq(inflight, 1, n) \in Bytes
  BY <1>2, ConcatProperties DEF TypeOK, Bytes
<1> QED
  BY <1>2, <1>3 DEF receive, TypeOK

LEMMA GreetingType ==
  ASSUME TypeOK, GreetingStep
  PROVE  TypeOK'
<1>1. buf \in Bytes /\ dec \in Decisions /\ {"request", "auth", "closed"} \subseteq States
  BY DEF TypeOK, States
<1>2. \A m \in {Method.NO_AUTH, Method.USERPASS, Method.NO_ACCEPTABLE} :
        Send(method_selection(m)) \in Event
  BY MessageTypes
<1>3. HasGreeting(buf) => GreetingSize \in Nat
  BY <1>1, GreetingFacts DEF GreetingSize
<1>4. CASE GreetingBadVersion
  BY <1>4, ClosingType, EventFacts DEF GreetingBadVersion
<1>5. CASE GreetingIncomplete
  BY <1>5, AwaitType DEF GreetingIncomplete
<1>6. CASE GreetingNoAuth
  BY <1>1, <1>2, <1>3, <1>6, GoOne DEF GreetingNoAuth
<1>7. CASE GreetingUserpass
  BY <1>1, <1>2, <1>3, <1>7, GoOne DEF GreetingUserpass
<1>8. CASE GreetingNoAcceptable
  BY <1>1, <1>2, <1>3, <1>8, GoTwo DEF GreetingNoAcceptable
<1> QED
  BY <1>4, <1>5, <1>6, <1>7, <1>8 DEF GreetingStep

LEMMA AuthType ==
  ASSUME TypeOK, AuthStep
  PROVE  TypeOK'
<1>1. buf \in Bytes /\ dec \in Decisions /\ {"request", "auth_wait", "closed"} \subseteq States
  BY DEF TypeOK, States
<1>2. Send(auth_reply(0)) \in Event /\ Send(auth_reply(1)) \in Event
  BY MessageTypes, ByteFacts
<1>3. state \in {"auth", "auth_wait"} => requireAuth
  BY DEF TypeOK
<1>4. CASE AuthIncomplete
  BY <1>4, AwaitType DEF AuthIncomplete
<1>5. CASE AuthUndecodable
  BY <1>5, ReturnType, EventFacts DEF AuthUndecodable
<1>6. CASE AuthMessage
  <2>1. HasUserpass(buf)
    BY <1>6 DEF AuthMessage
  <2>2. 3 + buf[2] + buf[3 + buf[2]] \in Nat
    BY <1>1, <2>1, UserpassFacts
  <2>3. parse_userpass(buf) \in [user : Bytes, pass : Bytes]
    BY <1>1, <2>1, UserpassFacts
  <2>4. Authorize(parse_userpass(buf)) \in Event
    BY <2>3 DEF Authorize, Event, LastingEvent
  <2>5. [dec EXCEPT !.rejected = FALSE] \in Decisions
    BY <1>1 DEF Decisions
  <2> QED
    BY <1>1, <1>6, <1>3, <2>2, <2>4, <2>5, GoOne DEF AuthMessage, In
<1>7. CASE AuthRejected
  BY <1>2, <1>7, ClosingType DEF AuthRejected
<1>8. CASE AuthAccepted
  BY <1>1, <1>2, <1>8, GoOne DEF AuthAccepted
<1> QED
  BY <1>4, <1>5, <1>6, <1>7, <1>8 DEF AuthStep

LEMMA RequestType ==
  ASSUME TypeOK, RequestStep
  PROVE  TypeOK'
<1>1. buf \in Bytes /\ dec \in Decisions /\ {"connect_wait", "closed"} \subseteq States
  BY DEF TypeOK, States
<1>2. \A r \in {Rep.GENERAL_FAILURE, Rep.CMD_NOT_SUPPORTED, Rep.ATYP_NOT_SUPPORTED} :
        Send(reply(r, Unbound)) \in Event
  BY MessageTypes
<1>3. CASE RequestUnsized
  BY <1>3, ReturnType, EventFacts DEF RequestUnsized
<1>4. CASE RequestBadAtyp
  BY <1>2, <1>4, ClosingType DEF RequestBadAtyp
<1>5. CASE RequestIncomplete
  BY <1>5, AwaitType DEF RequestIncomplete
<1>6. CASE RequestMalformed
  BY <1>2, <1>6, ClosingType DEF RequestMalformed
<1>7. CASE RequestUndecodable
  BY <1>7, ReturnType, EventFacts DEF RequestUndecodable
<1>8. ASSUME RequestParsed
      PROVE  /\ Size(buf) \in Nat
             /\ parse_request(Sized).cmd \in Byte
             /\ parse_request(Sized).dst \in Address
  <2>1. HasSize(buf) /\ Len(buf) >= Size(buf) /\ HasRequest(Sized)
    BY <1>8 DEF RequestParsed, RequestComplete
  <2>2. Sized \in Bytes
    BY <1>1, <2>1, SizedType DEF Sized
  <2> QED
    BY <1>1, <2>1, <2>2, RequestFacts, SizeFacts
<1>9. CASE RequestNotConnect
  <2>1. [dec EXCEPT !.cmd = parse_request(Sized).cmd] \in Decisions
    BY <1>1, <1>8, <1>9 DEF RequestNotConnect, Decisions
  <2> QED
    BY <1>1, <1>2, <1>8, <1>9, <2>1, GoTwo DEF RequestNotConnect
<1>10. CASE RequestConnect
  <2> DEFINE d == [dec EXCEPT !.cmd = Cmd.CONNECT, !.target = parse_request(Sized).dst,
                              !.rejected = FALSE, !.connectedBnd = None,
                              !.connectFailed = FALSE]
  <2>1. RequestParsed
    BY <1>10 DEF RequestConnect
  <2>2. Cmd.CONNECT \in Byte
    BY ByteFacts DEF Cmd
  <2>3. d \in Decisions /\ d.target \in Address
    BY <1>1, <1>8, <2>1, <2>2 DEF Decisions
  <2>4. Connect(Cmd.CONNECT, parse_request(Sized).dst) \in Event
    BY <1>8, <2>1, <2>2 DEF Connect, Event, LastingEvent
  <2>5. Go(Size(buf), "connect_wait", <<Connect(Cmd.CONNECT, parse_request(Sized).dst)>>, d)
    BY <1>10 DEF RequestConnect
  <2> HIDE DEF d
  <2> QED
    BY <1>1, <1>8, <2>1, <2>3, <2>4, <2>5, GoOne
<1> QED
  BY <1>3, <1>4, <1>5, <1>6, <1>7, <1>9, <1>10 DEF RequestStep

LEMMA ConnectType ==
  ASSUME TypeOK, ConnectStep
  PROVE  TypeOK'
<1>1. dec \in Decisions /\ {"relay", "closed"} \subseteq States
  BY DEF TypeOK, States
<1>2. dec.rep \in Byte /\ dec.connectedBnd \in Address \cup {None}
  BY <1>1 DEF Decisions
<1>3. In("connect_wait") => Relay(dec.target) \in RelayEvent
  BY DEF TypeOK, In, Relay, RelayEvent
<1>4. Send(reply(dec.rep, Unbound)) \in Event
  BY <1>2, MessageTypes
<1>5. CASE ConnectRaw
  BY <1>1, <1>3, <1>5, EventFacts, GoOne DEF ConnectRaw
<1>6. CASE ConnectRejected
  BY <1>4, <1>6, ClosingType DEF ConnectRejected
<1>7. CASE ConnectFailed
  BY <1>4, <1>7, ClosingType DEF ConnectFailed
<1>8. CASE ConnectSucceeded
  <2>1. dec.connectedBnd \in Address /\ Encodable(dec.connectedBnd.host)
    BY <1>2, <1>8 DEF ConnectSucceeded
  <2>2. Send(reply(Rep.SUCCEEDED, dec.connectedBnd)) \in Event
    BY <2>1, MessageTypes
  <2> QED
    BY <1>1, <1>3, <1>8, <2>2, GoTwo DEF ConnectSucceeded
<1>9. CASE ConnectUnsendable
  BY <1>1, <1>9, EventFacts, GoOne DEF ConnectUnsendable
<1>10. CASE ConnectUndecided
  BY <1>10, ReturnType, EventFacts DEF ConnectUndecided
<1> QED
  BY <1>5, <1>6, <1>7, <1>8, <1>9, <1>10 DEF ConnectStep

LEMMA QueueAndEndType ==
  ASSUME TypeOK, PopQueued \/ EndStep
  PROVE  TypeOK'
<1>1. CASE PopQueued
  <2>1. out \in Seq({Close} \cup RelayEvent) /\ Len(out) <= 1 /\ out # <<>>
    BY <1>1 DEF TypeOK, PopQueued
  <2>2. /\ Head(out) \in {Close} \cup RelayEvent
        /\ Tail(out) \in Seq({Close} \cup RelayEvent)
        /\ Len(Tail(out)) = Len(out) - 1
    BY <2>1, HeadTailProperties
  <2>3. Head(out) \in Event /\ Len(Tail(out)) <= 1
    BY <2>1, <2>2, EventFacts, LenProperties
  <2>4. /\ state \in States
        /\ dec \in Decisions
        /\ state \in {"auth", "auth_wait"} => requireAuth
        /\ state = "connect_wait" => dec.target \in Address
    BY DEF TypeOK
  <2> QED
    BY <1>1, <2>2, <2>3, <2>4, GoType DEF PopQueued
<1>2. CASE RelayFinished
  BY <1>2, ClosingType, EventFacts DEF RelayFinished
<1>3. CASE Closed
  BY <1>3, ReturnType, EventFacts DEF Closed
<1> QED
  BY <1>1, <1>2, <1>3 DEF EndStep

LEMMA NextType == TypeOK /\ [Next]_vars => TypeOK'
<1> SUFFICES ASSUME TypeOK, [Next]_vars PROVE TypeOK'
  OBVIOUS
<1>1. CASE \E n \in 1 .. Len(inflight) : receive(n)
  BY <1>1, ReceiveType
<1>2. CASE HookCall \/ DriverCall
  BY <1>2, CallsType
<1>3. CASE next_event
  BY <1>3, GreetingType, AuthType, RequestType, ConnectType, QueueAndEndType DEF next_event
<1>4. CASE UNCHANGED vars
  BY <1>4 DEF TypeOK, vars, peer
<1> QED
  BY <1>1, <1>2, <1>3, <1>4 DEF Next

\* Type correctness, for every stream and every order of calls: the session never
\* queues more than one event, always has a target to relay to, and sends only
\* byte strings.
THEOREM TypeCorrect == Spec => []TypeOK
BY InitType, NextType, PTL DEF Spec

-----------------------------------------------------------------------------
(* Reassembly.  BytesAccounted and ParsedAsSent are one inductive invariant  *)
(* with TypeOK.  A phase parses the buffer; that the buffer starts what is   *)
(* left of the stream (BytesAccounted) and that a parsed prefix is stable    *)
(* (the lemmas of Socks5CodecProofs) give the value the whole stream has.    *)

\* What one event promises in ParsedAsSent.
AsSent(e) ==
  /\ e.type = "Authorize" =>
       /\ HasUserpass(AfterGreeting)
       /\ e = Authorize(parse_userpass(AfterGreeting))
  /\ e.type = "Connect" =>
       /\ HasRequest(AfterAuth)
       /\ e = Connect(Cmd.CONNECT, parse_request(AfterAuth).dst)

Reassembled == TypeOK /\ BytesAccounted /\ ParsedAsSent

-----------------------------------------------------------------------------
(* What a step through next_event() does to the bytes and to the log. *)

LEMMA StreamIsFixed ==
  ASSUME stream' = stream, requireAuth' = requireAuth
  PROVE  /\ AfterGreeting' = AfterGreeting
         /\ AfterAuth' = AfterAuth
         /\ AfterRequest' = AfterRequest
BY DEF AfterGreeting, AfterAuth, AfterRequest

LEMMA GoBytes ==
  ASSUME TypeOK, NEW n \in 0 .. Len(buf), NEW s, NEW events, NEW d, Go(n, s, events, d)
  PROVE  buf' \o inflight' = Drop(buf \o inflight, n)
<1>1. buf \in Bytes /\ inflight \in Bytes
  BY DEF TypeOK
<1>2. buf' = Drop(buf, n) /\ inflight' = inflight
  BY DEF Go, peer
<1> QED
  BY <1>1, <1>2, DropOfConcat

LEMMA GoNothing ==
  ASSUME TypeOK, NEW s, NEW events, NEW d, Go(0, s, events, d)
  PROVE  buf' \o inflight' = buf \o inflight
<1>1. buf \in Bytes /\ inflight' = inflight /\ buf' = Drop(buf, 0)
  BY DEF TypeOK, Go, peer
<1> QED
  BY <1>1, DropNone

LEMMA GoLog ==
  ASSUME TypeOK, ParsedAsSent, NEW n, NEW s, NEW events, NEW d, Go(n, s, events, d),
         Lasting(Head(events)) => AsSent(Head(events))
  PROVE  ParsedAsSent'
<1>1. /\ AfterGreeting' = AfterGreeting
      /\ AfterAuth' = AfterAuth
  BY StreamIsFixed DEF Go, peer
<1>2. ASSUME NEW i \in DOMAIN log'
      PROVE  AsSent(log'[i])
  <2>1. CASE ~Lasting(Head(events))
    <3>1. log' = log
      BY <2>1 DEF Go
    <3> QED
      BY <3>1 DEF ParsedAsSent, AsSent
  <2>2. CASE Lasting(Head(events))
    <3>1. log' = Append(log, Head(events)) /\ log \in Seq(LastingEvent)
      BY <2>2 DEF Go, TypeOK
    <3>2. CASE i \in DOMAIN log
      <4>1. log'[i] = log[i]
        BY <3>1, <3>2
      <4> QED
        BY <3>2, <4>1 DEF ParsedAsSent, AsSent
    <3>3. CASE i \notin DOMAIN log
      <4>1. log'[i] = Head(events)
        BY <3>1, <3>3
      <4> QED
        BY <2>2, <4>1
    <3> QED
      BY <3>2, <3>3
  <2> QED
    BY <2>1, <2>2
<1> QED
  BY <1>1, <1>2 DEF ParsedAsSent, AsSent

\* Only Authorize and Connect promise anything.
LEMMA OthersAsSent ==
  /\ \A data : AsSent(Send(data))
  /\ \A dst : AsSent(Relay(dst))
  /\ ~Lasting(Close) /\ ~Lasting(NeedData) /\ ~Lasting(Raise)
BY DEF AsSent, Send, Relay, Lasting, Close, NeedData, Raise

\* A step that consumes nothing and stays, closes, or goes on to a phase that
\* starts where this one stands.
SameBytes(s) ==
  \/ s = state
  \/ s = "closed"
  \/ state = "auth_wait" /\ s = "request"
  \/ state = "connect_wait" /\ s = "relay"

LEMMA GoSame ==
  ASSUME Reassembled, NEW s, NEW events, NEW d, Go(0, s, events, d), SameBytes(s),
         Lasting(Head(events)) => AsSent(Head(events))
  PROVE  BytesAccounted' /\ ParsedAsSent'
<1>1. state' = s /\ stream' = stream /\ requireAuth' = requireAuth
  BY DEF Go, peer
<1>2. buf' \o inflight' = buf \o inflight
  BY GoNothing DEF Reassembled
<1>3. BytesAccounted'
  BY <1>1, <1>2, StreamIsFixed DEF BytesAccounted, Reassembled, SameBytes
<1>4. ParsedAsSent'
  BY GoLog DEF Reassembled
<1> QED
  BY <1>3, <1>4

LEMMA GoClosed ==
  ASSUME Reassembled, NEW n, NEW events, NEW d, Go(n, "closed", events, d),
         Lasting(Head(events)) => AsSent(Head(events))
  PROVE  BytesAccounted' /\ ParsedAsSent'
<1>1. state' = "closed"
  BY DEF Go
<1>2. BytesAccounted'
  BY <1>1 DEF BytesAccounted
<1>3. ParsedAsSent'
  BY GoLog DEF Reassembled
<1> QED
  BY <1>2, <1>3

LEMMA ReturnSame ==
  ASSUME Reassembled, NEW e, e \in {NeedData, Raise, Close}, Return(e)
  PROVE  BytesAccounted' /\ ParsedAsSent'
<1>1. Head(<<e>>) = e /\ ~Lasting(e)
  BY OthersAsSent
<1>2. Go(0, state, <<e>>, dec)
  BY DEF Return
<1>3. SameBytes(state)
  BY DEF SameBytes
<1> QED
  BY <1>1, <1>2, <1>3, GoSame

LEMMA ClosingSame ==
  ASSUME Reassembled, NEW data, Closing(<<Close>>) \/ Closing(<<Send(data), Close>>)
  PROVE  BytesAccounted' /\ ParsedAsSent'
<1>1. /\ Head(<<Close>>) = Close
      /\ Head(<<Send(data), Close>>) = Send(data)
  OBVIOUS
<1> QED
  BY <1>1, OthersAsSent, GoClosed DEF Closing

LEMMA AwaitSame ==
  ASSUME Reassembled, NEW cap, Await(cap)
  PROVE  BytesAccounted' /\ ParsedAsSent'
BY ReturnSame, ClosingSame DEF Await

-----------------------------------------------------------------------------
(* The phases. *)

LEMMA InitReassembled == Init => BytesAccounted /\ ParsedAsSent
<1> SUFFICES ASSUME Init PROVE BytesAccounted /\ ParsedAsSent
  OBVIOUS
<1>1. stream \in Seq(Byte) /\ buf = <<>> /\ inflight = stream
  BY SessionAssumption DEF Init, SessionAssumption, Bytes
<1>2. <<>> \o stream = stream
  BY <1>1, ConcatEmptySeq, Zenon
<1>3. buf \o inflight = stream
  BY <1>1, <1>2
<1>4. state = "greeting" /\ log = <<>>
  BY DEF Init
<1>5. BytesAccounted
  BY <1>3, <1>4 DEF BytesAccounted
<1>6. DOMAIN log = {}
  BY <1>4
<1>7. ParsedAsSent
  BY <1>6 DEF ParsedAsSent
<1> QED
  BY <1>5, <1>7

LEMMA ReceiveReassembled ==
  ASSUME Reassembled, NEW n \in 1 .. Len(inflight), receive(n)
  PROVE  BytesAccounted' /\ ParsedAsSent'
<1>1. buf \in Bytes /\ inflight \in Bytes /\ n \in 0 .. Len(inflight) /\ n \in Nat
  BY LenProperties DEF Reassembled, TypeOK, Bytes
<1> DEFINE chunk == SubSeq(inflight, 1, n)
           rest  == Drop(inflight, n)
<1>2. chunk \in Bytes /\ rest \in Bytes /\ chunk \o rest = inflight
  BY <1>1, TakeAndDrop, DropType
<1>3. buf' \o inflight' = buf \o inflight
  <2>1. buf' = buf \o chunk /\ inflight' = rest
    BY DEF receive
  <2> HIDE DEF chunk, rest
  <2> QED
    BY <1>1, <1>2, <2>1, BytesAssociative
<1>4. state' = state /\ log' = log /\ stream' = stream /\ requireAuth' = requireAuth
  BY DEF receive
<1> QED
  BY <1>3, <1>4, StreamIsFixed DEF Reassembled, BytesAccounted, ParsedAsSent

LEMMA GreetingReassembled ==
  ASSUME Reassembled, GreetingStep
  PROVE  BytesAccounted' /\ ParsedAsSent'
<1>1. buf \in Bytes /\ inflight \in Bytes /\ requireAuth \in BOOLEAN
  BY DEF Reassembled, TypeOK
<1>2. ASSUME HasGreeting(buf), In("greeting")
      PROVE  /\ GreetingSize \in 0 .. Len(buf)
             /\ Drop(buf \o inflight, GreetingSize) = AfterGreeting
  <2>1. buf \o inflight = stream
    BY <1>2 DEF Reassembled, BytesAccounted, In
  <2>2. stream[2] = buf[2]
    BY <1>1, <1>2, <2>1, GreetingStable DEF HasGreeting
  <2>3. GreetingSize \in 0 .. Len(buf)
    BY <1>1, <1>2, GreetingFacts, LenProperties DEF GreetingSize, Bytes
  <2> QED
    BY <2>1, <2>2, <2>3 DEF AfterGreeting, GreetingSize
<1>3. CASE GreetingBadVersion
  BY <1>3, ClosingSame DEF GreetingBadVersion
<1>4. CASE GreetingIncomplete
  BY <1>4, AwaitSame DEF GreetingIncomplete
<1>5. ASSUME NEW s \in {"request", "auth"}, NEW data, In("greeting"), HasGreeting(buf),
             s = "request" => ~requireAuth,
             Go(GreetingSize, s, <<Send(data)>>, dec)
      PROVE  BytesAccounted' /\ ParsedAsSent'
  <2>1. buf' \o inflight' = AfterGreeting
    BY <1>2, <1>5, GoBytes DEF Reassembled
  <2>2. state' = s /\ stream' = stream /\ requireAuth' = requireAuth
    BY <1>5 DEF Go, peer
  <2>3. ~requireAuth => AfterAuth = AfterGreeting
    BY DEF AfterAuth
  <2>4. BytesAccounted'
    BY <1>5, <2>1, <2>2, <2>3, StreamIsFixed DEF BytesAccounted
  <2>5. Head(<<Send(data)>>) = Send(data)
    OBVIOUS
  <2> QED
    BY <1>5, <2>4, <2>5, GoLog, OthersAsSent DEF Reassembled
<1>6. CASE GreetingNoAuth
  BY <1>5, <1>6 DEF GreetingNoAuth
<1>7. CASE GreetingUserpass
  BY <1>5, <1>7 DEF GreetingUserpass
<1>8. CASE GreetingNoAcceptable
  <2>1. Head(<<Send(method_selection(Method.NO_ACCEPTABLE)), Close>>)
          = Send(method_selection(Method.NO_ACCEPTABLE))
    OBVIOUS
  <2> QED
    BY <1>8, <2>1, GoClosed, OthersAsSent DEF GreetingNoAcceptable
<1> QED
  BY <1>3, <1>4, <1>6, <1>7, <1>8 DEF GreetingStep

LEMMA AuthReassembled ==
  ASSUME Reassembled, AuthStep
  PROVE  BytesAccounted' /\ ParsedAsSent'
<1>1. buf \in Bytes /\ inflight \in Bytes
  BY DEF Reassembled, TypeOK
<1>2. CASE AuthIncomplete
  BY <1>2, AwaitSame DEF AuthIncomplete
<1>3. CASE AuthUndecodable
  BY <1>3, ReturnSame DEF AuthUndecodable
<1>4. CASE AuthMessage
  <2> DEFINE n == 3 + buf[2] + buf[3 + buf[2]]
             d == [dec EXCEPT !.rejected = FALSE]
  <2>1. HasUserpass(buf) /\ In("auth")
    BY <1>4 DEF AuthMessage
  <2>2. buf \o inflight = AfterGreeting
    BY <2>1 DEF Reassembled, BytesAccounted, In
  <2>3. /\ HasUserpass(AfterGreeting)
        /\ parse_userpass(AfterGreeting) = parse_userpass(buf)
        /\ AfterGreeting[2] = buf[2]
        /\ AfterGreeting[3 + buf[2]] = buf[3 + buf[2]]
    BY <1>1, <2>1, <2>2, UserpassStable
  <2>4. n \in 0 .. Len(buf)
    BY <1>1, <2>1, UserpassFacts, LenProperties DEF Bytes
  <2>5. requireAuth
    BY <2>1 DEF Reassembled, TypeOK, In
  <2>6. Drop(buf \o inflight, n) = AfterAuth
    BY <2>2, <2>3, <2>5 DEF AfterAuth
  <2>7. Go(n, "auth_wait", <<Authorize(parse_userpass(buf))>>, d)
    BY <1>4 DEF AuthMessage
  <2>8. AsSent(Authorize(parse_userpass(buf)))
    BY <2>3 DEF AsSent, Authorize
  <2>9. Head(<<Authorize(parse_userpass(buf))>>) = Authorize(parse_userpass(buf))
    OBVIOUS
  <2> HIDE DEF n, d
  <2>10. buf' \o inflight' = AfterAuth
    BY <2>4, <2>6, <2>7, GoBytes DEF Reassembled
  <2>11. state' = "auth_wait" /\ stream' = stream /\ requireAuth' = requireAuth
    BY <2>7 DEF Go, peer
  <2>12. BytesAccounted'
    BY <2>10, <2>11, StreamIsFixed DEF BytesAccounted
  <2>13. ParsedAsSent'
    BY <2>7, <2>8, <2>9, GoLog DEF Reassembled
  <2> QED
    BY <2>12, <2>13
<1>5. CASE AuthRejected
  BY <1>5, ClosingSame DEF AuthRejected
<1>6. CASE AuthAccepted
  <2>1. Head(<<Send(auth_reply(0))>>) = Send(auth_reply(0))
    OBVIOUS
  <2>2. SameBytes("request")
    BY <1>6 DEF AuthAccepted, In, SameBytes
  <2> QED
    BY <1>6, <2>1, <2>2, GoSame, OthersAsSent DEF AuthAccepted
<1> QED
  BY <1>2, <1>3, <1>4, <1>5, <1>6 DEF AuthStep

LEMMA RequestReassembled ==
  ASSUME Reassembled, RequestStep
  PROVE  BytesAccounted' /\ ParsedAsSent'
<1>1. buf \in Bytes /\ inflight \in Bytes
  BY DEF Reassembled, TypeOK
<1>2. CASE RequestUnsized
  BY <1>2, ReturnSame DEF RequestUnsized
<1>3. CASE RequestBadAtyp
  BY <1>3, ClosingSame DEF RequestBadAtyp
<1>4. CASE RequestIncomplete
  BY <1>4, AwaitSame DEF RequestIncomplete
<1>5. CASE RequestMalformed
  BY <1>5, ClosingSame DEF RequestMalformed
<1>6. CASE RequestUndecodable
  BY <1>6, ReturnSame DEF RequestUndecodable
<1>7. CASE RequestNotConnect
  <2> DEFINE refusal == Send(reply(Rep.CMD_NOT_SUPPORTED, Unbound))
  <2>1. Head(<<refusal, Close>>) = refusal
    OBVIOUS
  <2>2. AsSent(refusal)
    BY OthersAsSent
  <2> QED
    BY <1>7, <2>1, <2>2, GoClosed DEF RequestNotConnect
<1>8. CASE RequestConnect
  <2> DEFINE n   == Size(buf)
             dst == parse_request(Sized).dst
             d   == [dec EXCEPT !.cmd = Cmd.CONNECT, !.target = dst,
                                !.rejected = FALSE, !.connectedBnd = None,
                                !.connectFailed = FALSE]
             tail == Drop(buf, n)
             rest == tail \o inflight
  <2>1. /\ In("request")
        /\ HasSize(buf)
        /\ Len(buf) >= n
        /\ HasRequest(Sized)
    BY <1>8 DEF RequestConnect, RequestParsed, RequestComplete
  <2>2. buf \o inflight = AfterAuth
    BY <2>1 DEF Reassembled, BytesAccounted, In
  <2>3. n \in 0 .. Len(buf) /\ n \in Nat
    BY <1>1, <2>1, SizeFacts, LenProperties DEF Bytes
  <2>4. Size(AfterAuth) = n
    BY <1>1, <2>1, <2>2, SizeStable
  <2>5. /\ Sized \in Bytes
        /\ tail \in Bytes
        /\ Sized \o tail = buf
    BY <1>1, <2>3, TakeAndDrop, DropType DEF Sized
  <2> HIDE DEF tail
  <2>6. rest \in Bytes /\ Sized \o rest = AfterAuth
    <3>1. rest \in Bytes
      BY <1>1, <2>5, ConcatType
    <3>2. (Sized \o tail) \o inflight = Sized \o rest
      BY <1>1, <2>5, BytesAssociative
    <3> QED
      BY <2>2, <2>5, <3>1, <3>2, Zenon
  <2> HIDE DEF rest
  <2>7. HasRequest(AfterAuth) /\ parse_request(AfterAuth).dst = dst
    BY <2>1, <2>5, <2>6, RequestStable
  <2>8. Go(n, "connect_wait", <<Connect(Cmd.CONNECT, dst)>>, d)
    BY <1>8 DEF RequestConnect
  <2>9. AsSent(Connect(Cmd.CONNECT, dst))
    BY <2>7 DEF AsSent, Connect
  <2>10. Head(<<Connect(Cmd.CONNECT, dst)>>) = Connect(Cmd.CONNECT, dst)
    OBVIOUS
  <2> HIDE DEF n, d, dst
  <2>11. buf' \o inflight' = AfterRequest
    BY <2>2, <2>3, <2>4, <2>8, GoBytes DEF Reassembled, AfterRequest
  <2>12. state' = "connect_wait" /\ stream' = stream /\ requireAuth' = requireAuth
    BY <2>8 DEF Go, peer
  <2>13. BytesAccounted'
    BY <2>11, <2>12, StreamIsFixed DEF BytesAccounted
  <2>14. ParsedAsSent'
    BY <2>8, <2>9, <2>10, GoLog DEF Reassembled
  <2> QED
    BY <2>13, <2>14
<1> QED
  BY <1>2, <1>3, <1>4, <1>5, <1>6, <1>7, <1>8 DEF RequestStep

LEMMA ConnectReassembled ==
  ASSUME Reassembled, ConnectStep
  PROVE  BytesAccounted' /\ ParsedAsSent'
<1>1. In("connect_wait") => SameBytes("relay")
  BY DEF In, SameBytes
<1>2. CASE ConnectRaw
  <2>1. Head(<<Relay(dec.target)>>) = Relay(dec.target)
    OBVIOUS
  <2> QED
    BY <1>1, <1>2, <2>1, GoSame, OthersAsSent DEF ConnectRaw
<1>3. CASE ConnectRejected
  BY <1>3, ClosingSame DEF ConnectRejected
<1>4. CASE ConnectFailed
  BY <1>4, ClosingSame DEF ConnectFailed
<1>5. CASE ConnectSucceeded
  <2> DEFINE success == Send(reply(Rep.SUCCEEDED, dec.connectedBnd))
  <2>1. Head(<<success, Relay(dec.target)>>) = success
    OBVIOUS
  <2>2. AsSent(success)
    BY OthersAsSent
  <2> QED
    BY <1>1, <1>5, <2>1, <2>2, GoSame DEF ConnectSucceeded
<1>6. CASE ConnectUnsendable
  <2>1. Head(<<Raise>>) = Raise
    OBVIOUS
  <2> QED
    BY <1>1, <1>6, <2>1, GoSame, OthersAsSent DEF ConnectUnsendable
<1>7. CASE ConnectUndecided
  BY <1>7, ReturnSame DEF ConnectUndecided
<1> QED
  BY <1>2, <1>3, <1>4, <1>5, <1>6, <1>7 DEF ConnectStep

LEMMA QueueAndEndReassembled ==
  ASSUME Reassembled, PopQueued \/ EndStep
  PROVE  BytesAccounted' /\ ParsedAsSent'
<1>1. CASE PopQueued
  <2>1. out \in Seq({Close} \cup RelayEvent) /\ out # <<>> /\ Go(0, state, out, dec)
    BY <1>1 DEF Reassembled, TypeOK, PopQueued
  <2>2. Head(out) \in {Close} \cup RelayEvent
    BY <2>1, HeadTailProperties
  <2>3. AsSent(Head(out))
    BY <2>2 DEF AsSent, RelayEvent, Close
  <2> QED
    BY <2>1, <2>3, GoSame DEF SameBytes
<1>2. CASE RelayFinished
  BY <1>2, ClosingSame DEF RelayFinished
<1>3. CASE Closed
  BY <1>3, ReturnSame DEF Closed
<1> QED
  BY <1>1, <1>2, <1>3 DEF EndStep

LEMMA UntouchedReassembled ==
  ASSUME Reassembled, UNCHANGED <<peer, buf, state, log>>
  PROVE  BytesAccounted' /\ ParsedAsSent'
BY StreamIsFixed DEF Reassembled, BytesAccounted, ParsedAsSent, peer

LEMMA NextReassembled == Reassembled /\ [Next]_vars => Reassembled'
<1> SUFFICES ASSUME Reassembled, [Next]_vars PROVE Reassembled'
  OBVIOUS
<1>1. TypeOK'
  BY NextType DEF Reassembled
<1>2. BytesAccounted' /\ ParsedAsSent'
  <2>1. CASE \E n \in 1 .. Len(inflight) : receive(n)
    BY <2>1, ReceiveReassembled
  <2>2. CASE HookCall \/ DriverCall
    <3>1. UNCHANGED <<peer, buf, state, log>>
      BY <2>2 DEF HookCall, DriverCall, ok, reject, set_target, pipe, relay_raw,
                  intercept, connected, connect_failed, Decide
    <3> QED
      BY <3>1, UntouchedReassembled
  <2>3. CASE next_event
    BY <2>3, GreetingReassembled, AuthReassembled, RequestReassembled,
       ConnectReassembled, QueueAndEndReassembled DEF next_event
  <2>4. CASE UNCHANGED vars
    BY <2>4, UntouchedReassembled DEF vars
  <2> QED
    BY <2>1, <2>2, <2>3, <2>4 DEF Next
<1> QED
  BY <1>1, <1>2 DEF Reassembled

LEMMA AlwaysReassembled == Spec => []Reassembled
<1>1. Init => Reassembled
  BY InitType, InitReassembled DEF Reassembled
<1> QED
  BY <1>1, NextReassembled, PTL DEF Spec

\* Reassembly: the three `del self._buf[:n]' of server/session.py take exactly
\* the messages from the stream, in whatever chunks receive() was given it.
THEOREM Reassembly == Spec => []BytesAccounted
<1>1. Reassembled => BytesAccounted
  BY DEF Reassembled
<1> QED
  BY <1>1, AlwaysReassembled, PTL

\* Segmentation independence: _on_auth and _on_request parse a buffer that still
\* grows, and give the hooks what the whole stream says.
THEOREM HooksGetWhatWasSent == Spec => []ParsedAsSent
<1>1. Reassembled => ParsedAsSent
  BY DEF Reassembled
<1> QED
  BY <1>1, AlwaysReassembled, PTL

-----------------------------------------------------------------------------
(* The conversation.  LegalConversation says that the history is the start of *)
(* a legal one.  The inductive invariant says which start it is, state by     *)
(* state, what may still be queued, and that a code to refuse with is a       *)
(* refusal.                                                                   *)

Word == {"method", "no method", "Authorize", "accepted", "refused", "Connect", "success",
         "failure", "Relay"}

\* The events of l are of these kinds.
Told(l, kinds) ==
  /\ Len(l) = Len(kinds)
  /\ \A i \in 1 .. Len(l) : Kind(l[i]) = kinds[i]

IsStart(k, c) == Len(k) <= Len(c) /\ \A i \in 1 .. Len(k) : k[i] = c[i]

\* What has been said when the request is read, and when it waits for its upstream.
Opened == IF requireAuth THEN <<"method", "Authorize", "accepted">> ELSE <<"method">>
Asked  == Append(Opened, "Connect")

\* What has been said in each state, and what is queued in it.
InStage ==
  /\ state = "greeting" => Told(log, <<>>) /\ out = <<>>
  /\ state = "auth" => Told(log, <<"method">>) /\ out = <<>>
  /\ state = "auth_wait" => Told(log, <<"method", "Authorize">>) /\ out = <<>>
  /\ state = "request" => Told(log, Opened) /\ out = <<>>
  /\ state = "connect_wait" => Told(log, Asked) /\ out = <<>>
  /\ state = "relay" =>
       \/ Told(log, Asked) /\ out = <<>>          \* the reply could not be encoded
       \/ Told(log, Append(Asked, "success")) /\ \E dst \in Address : out = <<Relay(dst)>>
       \/ Told(log, Append(Append(Asked, "success"), "Relay")) /\ out = <<>>
       \/ Told(log, Append(Asked, "Relay")) /\ out = <<>>
  /\ state = "closed" => LegalConversation /\ out \in {<<>>, <<Close>>}

Conversing == TypeOK /\ dec.rep # Rep.SUCCEEDED /\ InStage

-----------------------------------------------------------------------------
(* The kinds of the events the session sends. *)

LEMMA KindOfSend ==
  ASSUME NEW data
  PROVE  Kind(Send(data)) = SendKind(data)
BY DEF Kind, Send

LEMMA MethodSelectionKind ==
  ASSUME NEW m
  PROVE  Kind(Send(method_selection(m)))
           = IF m = Method.NO_ACCEPTABLE THEN "no method" ELSE "method"
<1> DEFINE data == method_selection(m)
<1>1. Len(data) = 2 /\ data[1] = Ver /\ data[2] = m
  BY DEF method_selection
<1> HIDE DEF data
<1>2. ~(Len(data) > 2) /\ data[1] # AuthVer
  BY <1>1 DEF Ver, AuthVer
<1>3. SendKind(data) = MethodKind(data)
  BY <1>2 DEF SendKind
<1> QED
  BY <1>1, <1>3, KindOfSend DEF MethodKind, data

LEMMA AuthReplyKind ==
  ASSUME NEW x
  PROVE  Kind(Send(auth_reply(x))) = IF x = 0 THEN "accepted" ELSE "refused"
<1> DEFINE data == auth_reply(x)
<1>1. Len(data) = 2 /\ data[1] = AuthVer /\ data[2] = x
  BY DEF auth_reply
<1> HIDE DEF data
<1>2. ~(Len(data) > 2)
  BY <1>1
<1>3. SendKind(data) = AuthKind(data)
  BY <1>1, <1>2 DEF SendKind
<1> QED
  BY <1>1, <1>3, KindOfSend DEF AuthKind, data

LEMMA ReplyKind ==
  ASSUME NEW rep \in Byte, NEW a \in Address, Encodable(a.host)
  PROVE  Kind(Send(reply(rep, a))) = IF rep = Rep.SUCCEEDED THEN "success" ELSE "failure"
<1> DEFINE data == reply(rep, a)
<1>1. Len(data) > 2 /\ data[2] = rep
  BY ReplyType
<1> HIDE DEF data
<1>2. SendKind(data) = VerdictKind(data)
  BY <1>1 DEF SendKind
<1> QED
  BY <1>1, <1>2, KindOfSend DEF VerdictKind, data

LEMMA Kinds ==
  /\ Kind(Send(method_selection(Method.NO_AUTH))) = "method"
  /\ Kind(Send(method_selection(Method.USERPASS))) = "method"
  /\ Kind(Send(method_selection(Method.NO_ACCEPTABLE))) = "no method"
  /\ Kind(Send(auth_reply(0))) = "accepted"
  /\ Kind(Send(auth_reply(1))) = "refused"
  /\ \A up : Kind(Authorize(up)) = "Authorize"
  /\ \A dst : Kind(Connect(Cmd.CONNECT, dst)) = "Connect"
  /\ \A dst : Kind(Relay(dst)) = "Relay"
<1>1. MaxByte # 0 /\ MaxByte # 2
  BY CodecAssumption DEF CodecAssumption
<1>2. /\ Method.NO_AUTH # Method.NO_ACCEPTABLE
      /\ Method.USERPASS # Method.NO_ACCEPTABLE
  BY <1>1 DEF Method
<1>3. /\ Kind(Send(method_selection(Method.NO_AUTH))) = "method"
      /\ Kind(Send(method_selection(Method.USERPASS))) = "method"
      /\ Kind(Send(method_selection(Method.NO_ACCEPTABLE))) = "no method"
  BY <1>2, MethodSelectionKind, Zenon
<1>4. /\ Kind(Send(auth_reply(0))) = "accepted"
      /\ Kind(Send(auth_reply(1))) = "refused"
  BY AuthReplyKind
<1>5. /\ \A up : Kind(Authorize(up)) = "Authorize"
      /\ \A dst : Kind(Connect(Cmd.CONNECT, dst)) = "Connect"
      /\ \A dst : Kind(Relay(dst)) = "Relay"
  BY DEF Kind, Authorize, Connect, Relay
<1> QED
  BY <1>3, <1>4, <1>5

LEMMA LastingEvents ==
  /\ \A data : Lasting(Send(data))
  /\ \A up : Lasting(Authorize(up))
  /\ \A dst : Lasting(Connect(Cmd.CONNECT, dst))
  /\ \A dst : Lasting(Relay(dst))
  /\ ~Lasting(Close) /\ ~Lasting(NeedData) /\ ~Lasting(Raise)
BY DEF Lasting, Send, Authorize, Connect, Relay, Close, NeedData, Raise

\* One more event on the record.
LEMMA TellMore ==
  ASSUME NEW l \in Seq(LastingEvent), NEW kinds \in Seq(Word), Told(l, kinds), NEW e
  PROVE  Told(Append(l, e), Append(kinds, Kind(e)))
<1> DEFINE l2 == Append(l, e)
           k2 == Append(kinds, Kind(e))
<1>1. /\ Len(l) \in Nat
      /\ Len(kinds) = Len(l)
      /\ \A i \in 1 .. Len(l) : Kind(l[i]) = kinds[i]
  BY LenProperties DEF Told
<1>2. /\ Len(l2) = Len(l) + 1
      /\ \A i \in 1 .. Len(l) : l2[i] = l[i]
      /\ l2[Len(l) + 1] = e
  BY AppendProperties
<1>3. /\ Len(k2) = Len(l) + 1
      /\ \A i \in 1 .. Len(l) : k2[i] = kinds[i]
      /\ k2[Len(l) + 1] = Kind(e)
  BY <1>1, AppendProperties
<1> HIDE DEF l2, k2
<1>4. ASSUME NEW i \in 1 .. Len(l2) PROVE Kind(l2[i]) = k2[i]
  <2>1. i \in 1 .. Len(l) \/ i = Len(l) + 1
    BY <1>1, <1>2
  <2> QED
    BY <1>1, <1>2, <1>3, <2>1
<1>5. Told(l2, k2)
  BY <1>2, <1>3, <1>4 DEF Told
<1> QED
  BY <1>5 DEF l2, k2

-----------------------------------------------------------------------------
(* The legal conversations, and their starts. *)

LEMMA ConcatAppends ==
  ASSUME NEW S, NEW k \in Seq(S), NEW x \in S, NEW y \in S, NEW z \in S
  PROVE  /\ k \o <<x>> = Append(k, x)
         /\ k \o <<x, y>> = Append(Append(k, x), y)
         /\ k \o <<x, y, z>> = Append(Append(Append(k, x), y), z)
OBVIOUS

LEMMA TupleAppends ==
  ASSUME NEW S, NEW x \in S, NEW y \in S, NEW z \in S
  PROVE  /\ <<x>> = Append(<<>>, x)
         /\ <<x, y>> = Append(<<x>>, y)
         /\ <<x, y, z>> = Append(<<x, y>>, z)
OBVIOUS

LEMMA StartOfAppend ==
  ASSUME NEW k \in Seq(Word), NEW x \in Word
  PROVE  Append(k, x) \in Seq(Word) /\ IsStart(k, k) /\ IsStart(k, Append(k, x))
<1>1. Len(k) \in Nat
  BY LenProperties
<1>2. /\ Append(k, x) \in Seq(Word)
      /\ Len(Append(k, x)) = Len(k) + 1
      /\ \A i \in 1 .. Len(k) : Append(k, x)[i] = k[i]
  BY AppendProperties
<1> QED
  BY <1>1, <1>2 DEF IsStart

LEMMA StartOfStart ==
  ASSUME NEW j \in Seq(Word), NEW k \in Seq(Word), NEW c \in Seq(Word),
         IsStart(j, k), IsStart(k, c)
  PROVE  IsStart(j, c)
<1>1. Len(j) \in Nat /\ Len(k) \in Nat /\ Len(c) \in Nat
  BY LenProperties
<1>2. Len(j) <= Len(k) /\ Len(k) <= Len(c)
  BY DEF IsStart
<1>3. \A i \in 1 .. Len(j) : i \in 1 .. Len(k)
  BY <1>1, <1>2
<1> QED
  BY <1>1, <1>2, <1>3 DEF IsStart

LEMMA Words ==
  /\ {"method", "no method", "Authorize", "accepted", "refused", "Connect", "success",
      "failure", "Relay"} \subseteq Word
  /\ Opened \in Seq(Word)
  /\ Asked \in Seq(Word)
<1>1. {"method", "no method", "Authorize", "accepted", "refused", "Connect", "success",
       "failure", "Relay"} \subseteq Word
  BY DEF Word
<1>2. Opened \in Seq(Word)
  <2>1. <<"method", "Authorize", "accepted">> \in Seq(Word) /\ <<"method">> \in Seq(Word)
    BY DEF Word
  <2> QED
    BY <2>1 DEF Opened
<1>3. Asked \in Seq(Word)
  BY <1>1, <1>2, AppendProperties DEF Asked
<1> QED
  BY <1>1, <1>2, <1>3

LEMMA Openings ==
  /\ <<>> \in Seq(Word)
  /\ Append(<<>>, "method") = <<"method">>
  /\ Append(<<>>, "no method") = <<"no method">>
  /\ Append(<<"method">>, "Authorize") = <<"method", "Authorize">>
  /\ Append(<<"method", "Authorize">>, "accepted") = <<"method", "Authorize", "accepted">>
  /\ Append(<<"method", "Authorize">>, "refused") = <<"method", "Authorize", "refused">>
<1>1. /\ "method" \in Word /\ "no method" \in Word /\ "Authorize" \in Word
      /\ "accepted" \in Word /\ "refused" \in Word
  BY Words
<1>2. \A x \in Word : Append(<<>>, x) = <<x>>
  BY TupleAppends, Zenon
<1>3. ASSUME NEW x \in Word, NEW y \in Word
      PROVE  Append(<<x>>, y) = <<x, y>>
  BY TupleAppends
<1>4. ASSUME NEW x \in Word, NEW y \in Word, NEW z \in Word
      PROVE  Append(<<x, y>>, z) = <<x, y, z>>
  <2>1. <<x, y, z>> = Append(<<x, y>>, z)
    OBVIOUS
  <2> QED
    BY <2>1, Zenon
<1>5. <<>> \in Seq(Word)
  OBVIOUS
<1> QED
  BY <1>1, <1>2, <1>3, <1>4, <1>5, Zenon

LEMMA TheConversations ==
  /\ Append(Opened, "failure") \in Conversations
  /\ Append(Asked, "failure") \in Conversations
  /\ Append(Append(Asked, "success"), "Relay") \in Conversations
  /\ Append(Asked, "Relay") \in Conversations
  /\ requireAuth => <<"no method">> \in Conversations
  /\ requireAuth => <<"method", "Authorize", "refused">> \in Conversations
<1>1. /\ Opened \o <<"failure">> \in Conversations
      /\ Opened \o <<"Connect", "failure">> \in Conversations
      /\ Opened \o <<"Connect", "success", "Relay">> \in Conversations
      /\ Opened \o <<"Connect", "Relay">> \in Conversations
  BY DEF Conversations, Opened
<1>2. /\ Opened \o <<"failure">> = Append(Opened, "failure")
      /\ Opened \o <<"Connect", "failure">> = Append(Asked, "failure")
      /\ Opened \o <<"Connect", "Relay">> = Append(Asked, "Relay")
      /\ Opened \o <<"Connect", "success", "Relay">>
           = Append(Append(Asked, "success"), "Relay")
  <2>1. ASSUME NEW k \in Seq(Word)
        PROVE  /\ k \o <<"failure">> = Append(k, "failure")
               /\ k \o <<"Connect", "failure">> = Append(Append(k, "Connect"), "failure")
               /\ k \o <<"Connect", "Relay">> = Append(Append(k, "Connect"), "Relay")
               /\ k \o <<"Connect", "success", "Relay">>
                    = Append(Append(Append(k, "Connect"), "success"), "Relay")
    <3>1. "Connect" \in Word /\ "success" \in Word /\ "failure" \in Word /\ "Relay" \in Word
      BY Words
    <3>2. k \o <<"failure">> = Append(k, "failure")
      BY <3>1, ConcatAppends, Zenon
    <3>3. ASSUME NEW x \in Word, NEW y \in Word
          PROVE  k \o <<x, y>> = Append(Append(k, x), y)
      BY ConcatAppends
    <3>4. ASSUME NEW x \in Word, NEW y \in Word, NEW z \in Word
          PROVE  k \o <<x, y, z>> = Append(Append(Append(k, x), y), z)
      BY ConcatAppends
    <3> QED
      BY <3>1, <3>2, <3>3, <3>4, Zenon
  <2> QED
    BY <2>1, Words DEF Asked
<1>3. /\ requireAuth => <<"no method">> \in Conversations
      /\ requireAuth => <<"method", "Authorize", "refused">> \in Conversations
  BY DEF Conversations
<1> QED
  BY <1>1, <1>2, <1>3

LEMMA LegalIf ==
  ASSUME NEW k \in Seq(Word), NEW c \in Conversations, IsStart(k, c), Told(log, k)
  PROVE  LegalConversation
BY DEF LegalConversation, Told, IsStart

LEMMA LegalThen ==
  ASSUME NEW k \in Seq(Word), NEW c \in Conversations, IsStart(k, c), Told(log', k),
         requireAuth' = requireAuth
  PROVE  LegalConversation'
<1>1. Conversations' = Conversations
  BY DEF Conversations
<1> QED
  BY <1>1 DEF LegalConversation, Told, IsStart

\* Whatever has been said in a stage is the start of a legal conversation.
LEMMA StageLegal ==
  ASSUME Conversing
  PROVE  LegalConversation
<1>1. /\ <<>> \in Seq(Word)
      /\ <<"method">> \in Seq(Word)
      /\ <<"method", "Authorize">> \in Seq(Word)
      /\ <<"method", "Authorize", "refused">> \in Seq(Word)
  BY DEF Word
<1>2. /\ IsStart(<<>>, Append(Opened, "failure"))
      /\ IsStart(<<"method">>, <<"method", "Authorize", "refused">>)
      /\ IsStart(<<"method", "Authorize">>, <<"method", "Authorize", "refused">>)
  <2>1. Append(Opened, "failure") \in Seq(Word)
    BY Words, AppendProperties
  <2>2. IsStart(<<>>, Append(Opened, "failure"))
    BY <2>1, LenProperties DEF IsStart
  <2>3. IsStart(<<"method">>, <<"method", "Authorize", "refused">>)
    BY DEF IsStart
  <2>4. IsStart(<<"method", "Authorize">>, <<"method", "Authorize", "refused">>)
    BY DEF IsStart
  <2> QED
    BY <2>2, <2>3, <2>4
<1>3. CASE state \in {"greeting", "auth", "auth_wait"}
  <2>1. state # "greeting" => <<"method", "Authorize", "refused">> \in Conversations
    BY <1>3, TheConversations DEF Conversing, TypeOK
  <2> QED
    BY <1>1, <1>2, <1>3, <2>1, TheConversations, LegalIf DEF Conversing, InStage
<1>4. CASE state = "request"
  BY <1>4, Words, StartOfAppend, TheConversations, LegalIf DEF Conversing, InStage
<1>5. CASE state = "connect_wait"
  BY <1>5, Words, StartOfAppend, TheConversations, LegalIf DEF Conversing, InStage
<1>6. CASE state = "relay"
  <2> DEFINE granted == Append(Asked, "success")
             served  == Append(granted, "Relay")
             raw     == Append(Asked, "Relay")
  <2>1. /\ granted \in Seq(Word) /\ served \in Seq(Word) /\ raw \in Seq(Word)
        /\ IsStart(Asked, raw) /\ IsStart(raw, raw)
        /\ IsStart(granted, served) /\ IsStart(served, served)
    BY Words, StartOfAppend
  <2>2. served \in Conversations /\ raw \in Conversations
    BY TheConversations
  <2>3. Told(log, Asked) \/ Told(log, granted) \/ Told(log, served) \/ Told(log, raw)
    BY <1>6 DEF Conversing, InStage
  <2> HIDE DEF granted, served, raw
  <2> QED
    BY <2>1, <2>2, <2>3, Words, LegalIf
<1>7. CASE state = "closed"
  BY <1>7 DEF Conversing, InStage
<1> QED
  BY <1>3, <1>4, <1>5, <1>6, <1>7 DEF Conversing, TypeOK, States

-----------------------------------------------------------------------------
(* What a step through next_event() does to the record. *)

LEMMA PeerIsFixed ==
  ASSUME requireAuth' = requireAuth
  PROVE  Opened' = Opened /\ Asked' = Asked /\ Conversations' = Conversations
BY DEF Opened, Asked, Conversations

LEMMA GoSays ==
  ASSUME TypeOK, NEW k \in Seq(Word), Told(log, k),
         NEW n, NEW s, NEW events, NEW d, Go(n, s, events, d),
         Lasting(Head(events)), NEW x, Kind(Head(events)) = x
  PROVE  Told(log', Append(k, x))
<1>1. log' = Append(log, Head(events)) /\ log \in Seq(LastingEvent)
  BY DEF Go, TypeOK
<1> QED
  BY <1>1, TellMore

LEMMA GoSaysNothing ==
  ASSUME NEW n, NEW s, NEW events, NEW d, Go(n, s, events, d), ~Lasting(Head(events))
  PROVE  log' = log /\ requireAuth' = requireAuth
BY DEF Go, peer

LEMMA StaysClosed ==
  ASSUME state' = "closed", out' \in {<<>>, <<Close>>}, LegalConversation'
  PROVE  InStage'
BY DEF InStage

\* Nothing was said, and the session stays where it is or closes.
LEMMA StayOrClose ==
  ASSUME Conversing, out = <<>>, NEW e \in {NeedData, Raise, Close},
         Return(e) \/ Closing(<<Close>>)
  PROVE  InStage'
<1>1. /\ Head(<<e>>) = e /\ Tail(<<e>>) = <<>> /\ ~Lasting(e)
      /\ Head(<<Close>>) = Close /\ Tail(<<Close>>) = <<>> /\ ~Lasting(Close)
  BY LastingEvents
<1>2. log' = log /\ requireAuth' = requireAuth /\ out' = <<>>
  BY <1>1, GoSaysNothing DEF Return, Closing, Go
<1>3. LegalConversation'
  BY <1>2, PeerIsFixed, StageLegal DEF LegalConversation
<1>4. CASE Closing(<<Close>>)
  BY <1>2, <1>3, <1>4, StaysClosed DEF Closing, Go
<1>5. CASE Return(e)
  <2>1. state' = state
    BY <1>5 DEF Return, Go
  <2> QED
    BY <1>2, <1>3, <2>1, PeerIsFixed DEF Conversing, InStage
<1> QED
  BY <1>4, <1>5

LEMMA AwaitStage ==
  ASSUME Conversing, out = <<>>, NEW cap, Await(cap)
  PROVE  InStage'
BY StayOrClose DEF Await

\* A last message and the close behind it.
LEMMA SayAndClose ==
  ASSUME Conversing, NEW k \in Seq(Word), Told(log, k), NEW data,
         NEW x \in Word, Kind(Send(data)) = x, Append(k, x) \in Conversations,
         NEW n, NEW d, Go(n, "closed", <<Send(data), Close>>, d)
  PROVE  InStage'
<1> DEFINE events == <<Send(data), Close>>
<1>1. Head(events) = Send(data) /\ Tail(events) = <<Close>>
  OBVIOUS
<1>2. Told(log', Append(k, x))
  BY <1>1, LastingEvents, GoSays DEF Conversing
<1>3. /\ Append(k, x) \in Seq(Word)
      /\ IsStart(Append(k, x), Append(k, x))
  <2>1. Append(k, x) \in Seq(Word)
    BY AppendProperties
  <2> QED
    BY <2>1, StartOfAppend
<1>4. state' = "closed" /\ out' = <<Close>> /\ requireAuth' = requireAuth
  BY <1>1 DEF Go, peer
<1>5. LegalConversation'
  BY <1>2, <1>3, <1>4, LegalThen
<1> QED
  BY <1>4, <1>5, StaysClosed

LEMMA SayAndStay ==
  ASSUME Conversing, NEW k \in Seq(Word), Told(log, k), NEW e, Lasting(e),
         NEW x, Kind(e) = x, NEW n, NEW s, NEW d, Go(n, s, <<e>>, d)
  PROVE  /\ Told(log', Append(k, x)) /\ out' = <<>> /\ state' = s
         /\ Opened' = Opened /\ Asked' = Asked /\ requireAuth' = requireAuth
<1>1. Head(<<e>>) = e /\ Tail(<<e>>) = <<>>
  OBVIOUS
<1>2. Told(log', Append(k, x))
  BY <1>1, GoSays DEF Conversing
<1>3. out' = <<>> /\ state' = s /\ requireAuth' = requireAuth
  BY <1>1 DEF Go, peer
<1> QED
  BY <1>2, <1>3, PeerIsFixed

-----------------------------------------------------------------------------
(* The phases. *)

LEMMA InitConversing == Init => Conversing
<1> SUFFICES ASSUME Init PROVE Conversing
  OBVIOUS
<1>1. TypeOK
  BY InitType
<1>2. dec.rep # Rep.SUCCEEDED
  BY DEF Init, FreshDecisions, Rep
<1>3. state = "greeting" /\ out = <<>> /\ log = <<>>
  BY DEF Init
<1>4. Told(log, <<>>)
  BY <1>3 DEF Told
<1> QED
  BY <1>1, <1>2, <1>3, <1>4 DEF Conversing, InStage

LEMMA GreetingStage ==
  ASSUME Conversing, GreetingStep
  PROVE  InStage'
<1>1. <<>> \in Seq(Word) /\ Append(<<>>, "method") = <<"method">>
        /\ Append(<<>>, "no method") = <<"no method">>
  BY Openings
<1>2. In("greeting") => Told(log, <<>>) /\ out = <<>>
  BY DEF In, Conversing, InStage
<1>3. CASE GreetingBadVersion
  BY <1>2, <1>3, StayOrClose DEF GreetingBadVersion
<1>4. CASE GreetingIncomplete
  BY <1>2, <1>4, AwaitStage DEF GreetingIncomplete
<1>5. CASE GreetingNoAuth
  <2>1. /\ Told(log', <<"method">>) /\ out' = <<>> /\ state' = "request"
        /\ Opened' = Opened
    BY <1>1, <1>2, <1>5, SayAndStay, Kinds, LastingEvents DEF GreetingNoAuth
  <2>2. Opened = <<"method">>
    BY <1>5 DEF GreetingNoAuth, Opened
  <2> QED
    BY <2>1, <2>2 DEF InStage
<1>6. CASE GreetingUserpass
  <2>1. Told(log', <<"method">>) /\ out' = <<>> /\ state' = "auth"
    BY <1>1, <1>2, <1>6, SayAndStay, Kinds, LastingEvents DEF GreetingUserpass
  <2> QED
    BY <2>1 DEF InStage
<1>7. CASE GreetingNoAcceptable
  <2>1. <<"no method">> \in Conversations
    BY <1>7, TheConversations DEF GreetingNoAcceptable
  <2> QED
    BY <1>1, <1>2, <1>7, <2>1, SayAndClose, Kinds, Words DEF GreetingNoAcceptable
<1> QED
  BY <1>3, <1>4, <1>5, <1>6, <1>7 DEF GreetingStep

LEMMA AuthStage ==
  ASSUME Conversing, AuthStep
  PROVE  InStage'
<1>1. /\ <<"method">> \in Seq(Word)
      /\ <<"method", "Authorize">> \in Seq(Word)
  BY DEF Word
<1>2. /\ Append(<<"method">>, "Authorize") = <<"method", "Authorize">>
      /\ Append(<<"method", "Authorize">>, "accepted") = <<"method", "Authorize", "accepted">>
      /\ Append(<<"method", "Authorize">>, "refused") = <<"method", "Authorize", "refused">>
  BY Openings
<1>3. /\ In("auth") => Told(log, <<"method">>) /\ out = <<>>
      /\ In("auth_wait") => Told(log, <<"method", "Authorize">>) /\ requireAuth
  BY DEF In, Conversing, InStage, TypeOK
<1>4. CASE AuthIncomplete
  BY <1>3, <1>4, AwaitStage DEF AuthIncomplete
<1>5. CASE AuthUndecodable
  BY <1>3, <1>5, StayOrClose DEF AuthUndecodable
<1>6. CASE AuthMessage
  <2>1. Told(log', <<"method", "Authorize">>) /\ out' = <<>> /\ state' = "auth_wait"
    BY <1>1, <1>2, <1>3, <1>6, SayAndStay, Kinds, LastingEvents DEF AuthMessage
  <2> QED
    BY <2>1 DEF InStage
<1>7. CASE AuthRejected
  <2>1. <<"method", "Authorize", "refused">> \in Conversations
    BY <1>3, <1>7, TheConversations DEF AuthRejected
  <2> QED
    BY <1>1, <1>2, <1>3, <1>7, <2>1, SayAndClose, Kinds, Words DEF AuthRejected, Closing
<1>8. CASE AuthAccepted
  <2>1. /\ Told(log', <<"method", "Authorize", "accepted">>) /\ out' = <<>>
        /\ state' = "request" /\ Opened' = Opened
    BY <1>1, <1>2, <1>3, <1>8, SayAndStay, Kinds, LastingEvents DEF AuthAccepted
  <2>2. Opened = <<"method", "Authorize", "accepted">>
    BY <1>3, <1>8 DEF AuthAccepted, Opened
  <2> QED
    BY <2>1, <2>2 DEF InStage
<1> QED
  BY <1>4, <1>5, <1>6, <1>7, <1>8 DEF AuthStep

LEMMA RequestStage ==
  ASSUME Conversing, RequestStep
  PROVE  InStage'
<1>1. In("request") => Told(log, Opened) /\ out = <<>>
  BY DEF In, Conversing, InStage
<1>2. Opened \in Seq(Word) /\ "failure" \in Word /\ Append(Opened, "failure") \in Conversations
  BY Words, TheConversations
<1>3. \A r \in {Rep.GENERAL_FAILURE, Rep.CMD_NOT_SUPPORTED, Rep.ATYP_NOT_SUPPORTED} :
        Kind(Send(reply(r, Unbound))) = "failure"
  <2>1. \A r \in {Rep.GENERAL_FAILURE, Rep.CMD_NOT_SUPPORTED, Rep.ATYP_NOT_SUPPORTED} :
          r \in Byte /\ r # Rep.SUCCEEDED
    BY ByteFacts DEF Rep
  <2> QED
    BY <2>1, ReplyKind, UnboundType
<1>4. CASE RequestUnsized
  BY <1>1, <1>4, StayOrClose DEF RequestUnsized
<1>5. CASE RequestBadAtyp
  BY <1>1, <1>2, <1>3, <1>5, SayAndClose DEF RequestBadAtyp, Closing
<1>6. CASE RequestIncomplete
  BY <1>1, <1>6, AwaitStage DEF RequestIncomplete
<1>7. CASE RequestMalformed
  BY <1>1, <1>2, <1>3, <1>7, SayAndClose DEF RequestMalformed, RequestComplete, Closing
<1>8. CASE RequestUndecodable
  BY <1>1, <1>8, StayOrClose DEF RequestUndecodable, RequestComplete
<1>9. CASE RequestNotConnect
  BY <1>1, <1>2, <1>3, <1>9, SayAndClose
     DEF RequestNotConnect, RequestParsed, RequestComplete
<1>10. CASE RequestConnect
  <2>1. Told(log', Append(Opened, "Connect")) /\ out' = <<>> /\ state' = "connect_wait"
          /\ Asked' = Asked
    BY <1>1, <1>2, <1>10, SayAndStay, Kinds, LastingEvents
       DEF RequestConnect, RequestParsed, RequestComplete
  <2> QED
    BY <2>1 DEF InStage, Asked
<1> QED
  BY <1>4, <1>5, <1>6, <1>7, <1>8, <1>9, <1>10 DEF RequestStep

LEMMA ConnectStage ==
  ASSUME Conversing, ConnectStep
  PROVE  InStage'
<1>1. In("connect_wait") => Told(log, Asked) /\ out = <<>> /\ dec.target \in Address
  BY DEF In, Conversing, InStage, TypeOK
<1>2. Asked \in Seq(Word) /\ "failure" \in Word /\ Append(Asked, "failure") \in Conversations
  BY Words, TheConversations
<1>3. Kind(Send(reply(dec.rep, Unbound))) = "failure"
  <2>1. dec.rep \in Byte /\ dec.rep # Rep.SUCCEEDED
    BY DEF Conversing, TypeOK, Decisions
  <2> QED
    BY <2>1, ReplyKind, UnboundType
<1>4. CASE ConnectRaw
  <2>1. Told(log', Append(Asked, "Relay")) /\ out' = <<>> /\ state' = "relay"
          /\ Asked' = Asked
    BY <1>1, <1>2, <1>4, SayAndStay, Kinds, LastingEvents DEF ConnectRaw
  <2> QED
    BY <2>1 DEF InStage
<1>5. CASE ConnectRejected
  BY <1>1, <1>2, <1>3, <1>5, SayAndClose DEF ConnectRejected, Closing
<1>6. CASE ConnectFailed
  BY <1>1, <1>2, <1>3, <1>6, SayAndClose DEF ConnectFailed, Closing
<1>7. CASE ConnectSucceeded
  <2> DEFINE success == Send(reply(Rep.SUCCEEDED, dec.connectedBnd))
             events  == <<success, Relay(dec.target)>>
  <2>1. Head(events) = success /\ Tail(events) = <<Relay(dec.target)>>
    OBVIOUS
  <2>2. dec.connectedBnd \in Address /\ Encodable(dec.connectedBnd.host)
    BY <1>7 DEF ConnectSucceeded, Conversing, TypeOK, Decisions
  <2>3. Kind(success) = "success" /\ Lasting(success)
    BY <2>2, ReplyKind, LastingEvents, ByteFacts DEF Rep
  <2>4. Told(log, Asked) /\ Go(0, "relay", events, dec)
    BY <1>1, <1>7 DEF ConnectSucceeded
  <2> HIDE DEF success, events
  <2>5. Told(log', Append(Asked, "success"))
    BY <1>2, <2>1, <2>3, <2>4, GoSays DEF Conversing
  <2>6. /\ out' = <<Relay(dec.target)>> /\ state' = "relay"
        /\ requireAuth' = requireAuth
    BY <2>1, <2>4 DEF Go, peer
  <2>7. \E dst \in Address : out' = <<Relay(dst)>>
    BY <1>1, <1>7, <2>6 DEF ConnectSucceeded
  <2> QED
    BY <2>5, <2>6, <2>7, PeerIsFixed DEF InStage
<1>8. CASE ConnectUnsendable
  <2>1. Head(<<Raise>>) = Raise /\ Tail(<<Raise>>) = <<>> /\ ~Lasting(Raise)
    BY LastingEvents
  <2>2. Told(log, Asked) /\ Go(0, "relay", <<Raise>>, dec)
    BY <1>1, <1>8 DEF ConnectUnsendable
  <2>3. log' = log /\ requireAuth' = requireAuth
    BY <2>1, <2>2, GoSaysNothing
  <2>4. out' = <<>> /\ state' = "relay"
    BY <2>1, <2>2 DEF Go
  <2> QED
    BY <2>2, <2>3, <2>4, PeerIsFixed DEF InStage
<1>9. CASE ConnectUndecided
  BY <1>1, <1>9, StayOrClose DEF ConnectUndecided
<1> QED
  BY <1>4, <1>5, <1>6, <1>7, <1>8, <1>9 DEF ConnectStep

LEMMA QueueStage ==
  ASSUME Conversing, PopQueued
  PROVE  InStage'
<1>1. Go(0, state, out, dec) /\ out # <<>>
  BY DEF PopQueued
<1>2. state' = state /\ out' = Tail(out) /\ requireAuth' = requireAuth
  BY <1>1 DEF Go, peer
<1>3. state \in {"relay", "closed"}
  BY <1>1 DEF Conversing, TypeOK, States, InStage
<1>4. CASE state = "relay"
  <2>1. Told(log, Append(Asked, "success"))
    BY <1>1, <1>4 DEF Conversing, InStage
  <2>2. PICK dst \in Address : out = <<Relay(dst)>>
    BY <1>1, <1>4 DEF Conversing, InStage
  <2>3. Head(out) = Relay(dst) /\ Tail(out) = <<>>
    BY <2>2
  <2>4. Append(Asked, "success") \in Seq(Word)
    BY Words, AppendProperties
  <2>5. Lasting(Head(out)) /\ Kind(Head(out)) = "Relay"
    BY <2>3, LastingEvents, Kinds
  <2>6. Told(log', Append(Append(Asked, "success"), "Relay"))
    BY <1>1, <2>1, <2>4, <2>5, GoSays DEF Conversing
  <2> QED
    BY <1>2, <1>4, <2>3, <2>6, PeerIsFixed DEF InStage
<1>5. CASE state = "closed"
  <2>1. out = <<Close>>
    BY <1>1, <1>5 DEF Conversing, InStage
  <2>2. Head(out) = Close /\ Tail(out) = <<>>
    BY <2>1
  <2>3. log' = log
    BY <1>1, <2>2, LastingEvents, GoSaysNothing
  <2>4. LegalConversation'
    BY <1>2, <2>3, PeerIsFixed, StageLegal DEF LegalConversation
  <2> QED
    BY <1>2, <1>5, <2>2, <2>4, StaysClosed
<1> QED
  BY <1>3, <1>4, <1>5

LEMMA EndStage ==
  ASSUME Conversing, EndStep
  PROVE  InStage'
<1>1. CASE RelayFinished
  BY <1>1, StayOrClose DEF RelayFinished, In
<1>2. CASE Closed
  BY <1>2, StayOrClose DEF Closed, In
<1> QED
  BY <1>1, <1>2 DEF EndStep

LEMMA UntouchedStage ==
  ASSUME Conversing, UNCHANGED <<requireAuth, state, out, log>>
  PROVE  InStage'
<1>1. LegalConversation' = LegalConversation
  BY PeerIsFixed DEF LegalConversation
<1> QED
  BY <1>1, PeerIsFixed DEF Conversing, InStage

\* A failure code is never the code of success.
LEMMA RepKept ==
  ASSUME TypeOK, dec.rep # Rep.SUCCEEDED, [Next]_vars
  PROVE  dec'.rep # Rep.SUCCEEDED
<1>1. dec \in Decisions /\ \A r \in FailureReps : r # Rep.SUCCEEDED
  BY SessionAssumption DEF SessionAssumption, TypeOK
<1>2. CASE HookCall \/ DriverCall
  BY <1>1, <1>2 DEF HookCall, DriverCall, ok, reject, set_target, pipe, relay_raw,
     intercept, connected, connect_failed, Decide, Decisions
<1>3. CASE next_event
  <2>1. dec' = dec \/ AuthMessage \/ RequestNotConnect \/ RequestConnect
    BY <1>3 DEF next_event, PopQueued, GreetingStep, AuthStep, RequestStep, ConnectStep,
       EndStep, GreetingBadVersion, GreetingIncomplete, GreetingNoAuth, GreetingUserpass,
       GreetingNoAcceptable, AuthIncomplete, AuthUndecodable, AuthRejected, AuthAccepted,
       RequestUnsized, RequestBadAtyp, RequestIncomplete, RequestMalformed,
       RequestUndecodable, ConnectRaw, ConnectRejected, ConnectFailed, ConnectSucceeded,
       ConnectUnsendable, ConnectUndecided, RelayFinished, Closed, Await, Closing, Return, Go
  <2>2. AuthMessage => dec' = [dec EXCEPT !.rejected = FALSE]
    BY DEF AuthMessage, Go
  <2>3. RequestNotConnect => dec' = [dec EXCEPT !.cmd = parse_request(Sized).cmd]
    BY DEF RequestNotConnect, Go
  <2>4. RequestConnect =>
          dec' = [dec EXCEPT !.cmd = Cmd.CONNECT, !.target = parse_request(Sized).dst,
                             !.rejected = FALSE, !.connectedBnd = None,
                             !.connectFailed = FALSE]
    BY DEF RequestConnect, Go
  <2> QED
    BY <1>1, <2>1, <2>2, <2>3, <2>4 DEF Decisions
<1>4. CASE UNCHANGED dec
  BY <1>4
<1> QED
  BY <1>2, <1>3, <1>4 DEF Next, receive, vars

LEMMA NextConversing == Conversing /\ [Next]_vars => Conversing'
<1> SUFFICES ASSUME Conversing, [Next]_vars PROVE Conversing'
  OBVIOUS
<1>1. TypeOK' /\ dec'.rep # Rep.SUCCEEDED
  BY NextType, RepKept DEF Conversing
<1>2. InStage'
  <2>1. CASE next_event
    BY <2>1, GreetingStage, AuthStage, RequestStage, ConnectStage, QueueStage, EndStage
       DEF next_event
  <2>2. CASE ~next_event
    <3>1. UNCHANGED <<requireAuth, state, out, log>>
      BY <2>2 DEF Next, vars, peer, receive, HookCall, DriverCall, ok, reject, set_target,
         pipe, relay_raw, intercept, connected, connect_failed, Decide
    <3> QED
      BY <3>1, UntouchedStage
  <2> QED
    BY <2>1, <2>2
<1> QED
  BY <1>1, <1>2 DEF Conversing

LEMMA AlwaysConversing == Spec => []Conversing
BY InitConversing, NextConversing, PTL DEF Spec

\* The order of the protocol: whatever a driver and its hooks call, and in
\* whatever order, next_event() never says a thing out of turn.
THEOREM AlwaysLegal == Spec => []LegalConversation
BY AlwaysConversing, StageLegal, PTL

-----------------------------------------------------------------------------
(* One connection.  The session's invariants hold here too (Session): the  *)
(* driver makes no other calls than ServerSession.Next allows, but with    *)
(* codes and addresses of its own.  What is added says where the driver    *)
(* can stand in each state of the session (InStep), what a refusal, an     *)
(* open upstream and a bound address mean before the verdict is sent       *)
(* (Refusing, Dialled, Decided), and what a closed session has said        *)
(* (ClosedWell).                                                           *)

Session == Conversing /\ Reassembled

\* The whole of a conversation was said.
Complete == \E c \in Conversations : Told(log, c)

\* The two ways to close without a word of the conversation missing.
NotSpoken == log = <<>> /\ stream # <<>> /\ stream[1] # Ver
TooLong   == /\ Told(log, <<"method">>)
             /\ requireAuth
             /\ Len(AfterGreeting) > 3 + MaxByte + MaxByte
             /\ AfterGreeting[1] # AuthVer

ClosedWell == state = "closed" => Complete \/ NotSpoken \/ TooLong

\* Where the driver stands, in terms of the session.
InStep ==
  /\ pc \in {"next", "NeedData"} => answered = Len(log)
  /\ pc \in {"Send", "Authorize", "Connect", "Relay"} => answered = Len(log) - 1
  /\ pc = "NeedData" => state \in {"greeting", "auth", "request"}
  /\ pc = "Authorize" => state = "auth_wait"
  /\ pc = "Connect" => state = "connect_wait" /\ ev.dst \in Address
  /\ pc \in {"next", "Send"} /\ state = "relay" => out # <<>>
  /\ end = "close" => answered = Len(log) /\ state = "closed"

\* A refusal is still pending, or it was said.
Refusing ==
  refused # None =>
    /\ upstream = "none"
    /\ state \in {"auth_wait", "connect_wait", "relay", "closed"}
    /\ state \in {"auth_wait", "connect_wait"} =>
         dec.rejected /\ pc \notin {"Authorize", "Connect"}

\* An upstream was opened for a request nobody refused.
Dialled ==
  upstream # "none" =>
    /\ state \in {"connect_wait", "relay", "closed"}
    /\ state = "connect_wait" =>
         ~dec.rejected /\ ~dec.connectFailed /\ pc # "Connect"

\* The decision about a request is made once.
Decided ==
  state = "connect_wait" =>
    /\ pc = "Connect" => dec.connectedBnd = None /\ ~dec.connectFailed
    /\ dec.connectedBnd # None =>
         (upstream # "none" \/ dec.intercept) /\ refused = None

\* The inductive invariant.
DriverInv ==
  /\ Session
  /\ DriverTypeOK
  /\ InStep
  /\ Refusing
  /\ Dialled
  /\ Decided
  /\ ClosedWell
  /\ UpstreamOnlyIfAuthorized
  /\ TruthfulVerdict
  /\ CleanTeardown

-----------------------------------------------------------------------------
(* What one call of next_event() can do, as the driver sees it. *)

\* It returns e, says nothing, decides nothing and leaves the session in s.
Silent(e, s) == ev' = e /\ log' = log /\ dec' = dec /\ state' = s

\* It returns an event of this type that says this word.
Says(type, word, s) ==
  /\ ev'.type = type
  /\ Kind(ev') = word
  /\ log' = Append(log, ev')
  /\ state' = s
  /\ dec'.intercept = dec.intercept

Waits == state \in {"greeting", "auth", "request"} /\ Silent(NeedData, state)

Fails == Silent(Raise, state) \/ (state = "connect_wait" /\ Silent(Raise, "relay"))

Closes ==
  /\ Silent(Close, "closed")
  /\ state = "closed" \/ NotSpoken \/ TooLong \/ (state = "relay" /\ out = <<>>)

Greets == state = "greeting" /\ \E s \in {"auth", "request"} : Says("Send", "method", s)

SaysLast ==
  /\ \E word \in {"no method", "refused", "failure"} :
       /\ Says("Send", word, "closed")
       /\ word = "failure" =>
            \/ state = "request"
            \/ state = "connect_wait" /\ (dec.rejected \/ dec.connectFailed)
  /\ Complete'

AsksAuth == state = "auth" /\ Says("Authorize", "Authorize", "auth_wait")

Accepts == state = "auth_wait" /\ ~dec.rejected /\ Says("Send", "accepted", "request")

AsksConnect ==
  /\ state = "request"
  /\ Says("Connect", "Connect", "connect_wait")
  /\ ev'.dst \in Address
  /\ dec'.connectedBnd = None /\ ~dec'.connectFailed

Succeeds ==
  /\ state = "connect_wait"
  /\ ~dec.rejected /\ dec.connectedBnd # None
  /\ Says("Send", "success", "relay")
  /\ out' # <<>>

HandsOver ==
  /\ state = "relay" \/ (state = "connect_wait" /\ dec.relayRaw)
  /\ Says("Relay", "Relay", "relay")

Turn ==
  \/ Waits
  \/ Fails
  \/ Closes
  \/ Greets
  \/ SaysLast
  \/ AsksAuth
  \/ Accepts
  \/ AsksConnect
  \/ Succeeds
  \/ HandsOver

LEMMA TypesOf ==
  /\ \A data : Send(data).type = "Send"
  /\ \A up : Authorize(up).type = "Authorize"
  /\ \A dst : Relay(dst).type = "Relay"
  /\ \A dst : /\ Connect(Cmd.CONNECT, dst).type = "Connect"
              /\ Connect(Cmd.CONNECT, dst).dst = dst
  /\ Close.type = "Close" /\ NeedData.type = "NeedData" /\ Raise.type = "Raise"
BY DEF Send, Authorize, Relay, Connect, Close, NeedData, Raise

LEMMA HeadOfOne ==
  ASSUME NEW e
  PROVE  Head(<<e>>) = e
OBVIOUS

LEMMA ReturnIsSilent ==
  ASSUME NEW e \in {NeedData, Raise, Close}, NEW s, Go(0, s, <<e>>, dec)
  PROVE  Silent(e, s)
<1>1. Head(<<e>>) = e /\ ~Lasting(e)
  BY LastingEvents
<1> QED
  BY <1>1 DEF Go, Silent

LEMMA GoIsSaid ==
  ASSUME NEW n, NEW s, NEW e, Lasting(e), NEW rest, NEW d,
         Go(n, s, rest, d), Head(rest) = e, d.intercept = dec.intercept
  PROVE  Says(e.type, Kind(e), s) /\ ev' = e /\ dec' = d
BY DEF Go, Says

\* A reply that is followed by the close ends a conversation.
LEMMA LastIsComplete ==
  ASSUME TypeOK, NEW k \in Seq(Word), Told(log, k), NEW x, Append(k, x) \in Conversations,
         NEW data, Kind(Send(data)) = x, NEW n, NEW d, d.intercept = dec.intercept,
         Go(n, "closed", <<Send(data), Close>>, d)
  PROVE  Says("Send", x, "closed") /\ Complete'
<1>1. Head(<<Send(data), Close>>) = Send(data) /\ Lasting(Send(data))
  BY LastingEvents
<1>2. Says("Send", x, "closed")
  BY <1>1, GoIsSaid DEF Send
<1>3. Told(log', Append(k, x))
  BY <1>1, GoSays
<1>4. Conversations' = Conversations
  BY PeerIsFixed DEF Go, peer
<1> QED
  BY <1>2, <1>3, <1>4 DEF Complete

\* The cap of the greeting is never exceeded.
LEMMA GreetingFits ==
  ASSUME NEW b \in Bytes, ~(b # <<>> /\ b[1] # Ver), ~HasGreeting(b)
  PROVE  ~(Len(b) > 2 + MaxByte)
<1>1. Len(b) \in Nat /\ MaxByte \in Nat
  BY LenProperties, ByteFacts DEF Bytes
<1>2. SUFFICES ASSUME Len(b) >= 2 PROVE ~(Len(b) > 2 + MaxByte)
  BY <1>1
<1>3. b # <<>>
  BY <1>1, <1>2
<1>4. b[2] \in Byte
  BY <1>1, <1>2, ByteAt
<1>5. ~(Len(b) >= 2 + b[2])
  BY <1>2, <1>3 DEF HasGreeting
<1> QED
  BY <1>1, <1>4, <1>5 DEF Byte

\* The cap of the request is never exceeded.
LEMMA RequestFits ==
  ASSUME NEW b \in Bytes, HasSize(b), Len(b) < Size(b)
  PROVE  ~(Len(b) > 4 + 1 + MaxByte + 2)
<1>1. /\ Len(b) \in Nat /\ Len(b) >= 4 /\ b[4] \in Atyps
      /\ b[4] = Domain => Len(b) >= 5
      /\ MaxByte \in Nat /\ MaxByte >= 15
  BY LenProperties, CodecAssumption DEF HasSize, Bytes, CodecAssumption
<1>2. b[4] = Domain => b[5] \in Byte
  BY <1>1, ByteAt
<1>3. Size(b) <= 4 + 1 + MaxByte + 2 /\ Size(b) \in Nat
  BY <1>1, <1>2 DEF Size, Atyps, IPv4, Domain, IPv6, Byte
<1> QED
  BY <1>1, <1>3

\* A long message that starts as it should is whole.
LEMMA AuthFits ==
  ASSUME NEW b \in Bytes, ~HasUserpass(b), Len(b) > 3 + MaxByte + MaxByte
  PROVE  b[1] # AuthVer
<1>1. MaxByte \in Nat /\ Len(b) \in Nat
  BY LenProperties, CodecAssumption DEF Bytes, CodecAssumption
<1>2. SUFFICES ASSUME b[1] = AuthVer PROVE FALSE
  OBVIOUS
<1>3. b[2] \in Byte
  BY <1>1, ByteAt
<1>4. 3 + b[2] \in Nat /\ 3 + b[2] <= Len(b) /\ 1 <= 3 + b[2]
  BY <1>1, <1>3 DEF Byte
<1>5. b[3 + b[2]] \in Byte
  BY <1>4, ByteAt
<1>6. Len(b) >= 3 + b[2] + b[3 + b[2]] /\ Len(b) >= 3 + b[2] /\ Len(b) >= 2
  BY <1>1, <1>3, <1>5 DEF Byte
<1> QED
  BY <1>2, <1>6 DEF HasUserpass

LEMMA GreetingTurn ==
  ASSUME Session, GreetingStep
  PROVE  Turn
<1> USE DEF Session
<1>1. TypeOK /\ buf \in Bytes /\ inflight \in Bytes
  BY DEF Conversing, TypeOK
<1>2. In("greeting") => Told(log, <<>>) /\ state = "greeting"
  BY DEF In, Conversing, InStage
<1>3. CASE GreetingBadVersion
  <2>1. In("greeting") /\ NotSocks5 /\ Closing(<<Close>>)
    BY <1>3 DEF GreetingBadVersion
  <2>2. log = <<>>
    <3>1. Len(log) = 0 /\ log \in Seq(LastingEvent)
      BY <1>1, <1>2, <2>1 DEF Told, TypeOK
    <3> QED
      BY <3>1, EmptySeq
  <2>3. stream # <<>> /\ stream[1] # Ver
    <3>1. buf \o inflight = stream
      BY <1>2, <2>1 DEF Reassembled, BytesAccounted
    <3>2. buf # <<>> /\ buf[1] # Ver
      BY <2>1 DEF NotSocks5
    <3>3. Len(buf) \in Nat /\ 1 <= Len(buf)
      BY <1>1, <3>2, LenProperties, EmptySeq DEF Bytes
    <3>4. (buf \o inflight)[1] = buf[1] /\ 1 <= Len(buf \o inflight)
      BY <1>1, <3>3, PrefixByte
    <3>5. stream # <<>>
      BY <3>1, <3>4, EmptySeq
    <3> QED
      BY <3>1, <3>2, <3>4, <3>5
  <2>4. Silent(Close, "closed")
    BY <2>1, ReturnIsSilent DEF Closing
  <2> QED
    BY <2>2, <2>3, <2>4 DEF Turn, Closes, NotSpoken
<1>4. CASE GreetingIncomplete
  <2>1. ~(Len(buf) > 2 + MaxByte)
    BY <1>1, <1>4, GreetingFits DEF GreetingIncomplete, NotSocks5
  <2>2. Return(NeedData) /\ state = "greeting"
    BY <1>2, <1>4, <2>1 DEF GreetingIncomplete, Await
  <2>3. Silent(NeedData, state)
    BY <2>2, ReturnIsSilent DEF Return
  <2> QED
    BY <2>2, <2>3 DEF Turn, Waits
<1>5. CASE GreetingNoAuth
  <2> DEFINE e == Send(method_selection(Method.NO_AUTH))
  <2>1. Lasting(e) /\ Kind(e) = "method" /\ e.type = "Send"
    BY LastingEvents, Kinds, TypesOf
  <2>2. Go(GreetingSize, "request", <<e>>, dec) /\ state = "greeting"
    BY <1>2, <1>5 DEF GreetingNoAuth
  <2> HIDE DEF e
  <2>3. Says("Send", "method", "request")
    BY <2>1, <2>2, GoIsSaid, HeadOfOne
  <2> QED
    BY <2>2, <2>3 DEF Turn, Greets
<1>6. CASE GreetingUserpass
  <2> DEFINE e == Send(method_selection(Method.USERPASS))
  <2>1. Lasting(e) /\ Kind(e) = "method" /\ e.type = "Send"
    BY LastingEvents, Kinds, TypesOf
  <2>2. Go(GreetingSize, "auth", <<e>>, dec) /\ state = "greeting"
    BY <1>2, <1>6 DEF GreetingUserpass
  <2> HIDE DEF e
  <2>3. Says("Send", "method", "auth")
    BY <2>1, <2>2, GoIsSaid, HeadOfOne
  <2> QED
    BY <2>2, <2>3 DEF Turn, Greets
<1>7. CASE GreetingNoAcceptable
  <2>1. Append(<<>>, "no method") = <<"no method">> /\ <<>> \in Seq(Word)
    BY Openings
  <2>2. <<"no method">> \in Conversations /\ Told(log, <<>>)
    BY <1>2, <1>7, TheConversations DEF GreetingNoAcceptable
  <2>3. Says("Send", "no method", "closed") /\ Complete'
    BY <1>1, <1>7, <2>1, <2>2, Kinds, LastIsComplete DEF GreetingNoAcceptable
  <2> QED
    BY <2>3 DEF Turn, SaysLast
<1> QED
  BY <1>3, <1>4, <1>5, <1>6, <1>7 DEF GreetingStep

LEMMA AuthTurn ==
  ASSUME Session, AuthStep
  PROVE  Turn
<1> USE DEF Session
<1>1. /\ TypeOK /\ buf \in Bytes /\ inflight \in Bytes
      /\ state \in {"auth", "auth_wait"} => requireAuth
      /\ dec \in Decisions
  BY DEF Conversing, TypeOK
<1>2. /\ In("auth") => Told(log, <<"method">>) /\ state = "auth"
      /\ In("auth_wait") => Told(log, <<"method", "Authorize">>) /\ state = "auth_wait"
  BY DEF In, Conversing, InStage
<1>3. CASE AuthIncomplete
  <2>1. In("auth") /\ Await(3 + MaxByte + MaxByte) /\ state = "auth"
    BY <1>2, <1>3 DEF AuthIncomplete
  <2>2. CASE Len(buf) > 3 + MaxByte + MaxByte
    <3>1. Silent(Close, "closed")
      BY <2>1, <2>2, ReturnIsSilent DEF Await, Closing
    <3>2. AfterGreeting = buf \o inflight
      BY <2>1 DEF Reassembled, BytesAccounted
    <3>3. Len(buf \o inflight) >= Len(buf) /\ Len(buf) \in Nat /\ Len(buf \o inflight) \in Nat
      BY <1>1, ConcatType
    <3>4. Len(AfterGreeting) > 3 + MaxByte + MaxByte
      BY <2>2, <3>2, <3>3, ByteFacts
    <3>5. buf[1] # AuthVer
      BY <1>1, <1>3, <2>2, AuthFits DEF AuthIncomplete
    <3>6. AfterGreeting[1] # AuthVer
      <4>1. 1 \in Nat /\ 1 <= Len(buf)
        BY <2>2, <3>3, ByteFacts
      <4>2. (buf \o inflight)[1] = buf[1]
        BY <1>1, <4>1, PrefixByte
      <4> QED
        BY <3>2, <3>5, <4>2
    <3> QED
      BY <1>1, <1>2, <2>1, <3>1, <3>4, <3>6 DEF Turn, Closes, TooLong
  <2>3. CASE ~(Len(buf) > 3 + MaxByte + MaxByte)
    <3>1. Return(NeedData)
      BY <2>1, <2>3 DEF Await
    <3>2. Silent(NeedData, state)
      BY <3>1, ReturnIsSilent DEF Return
    <3> QED
      BY <2>1, <3>2 DEF Turn, Waits
  <2> QED
    BY <2>2, <2>3
<1>4. CASE AuthUndecodable
  <2>1. Silent(Raise, state)
    BY <1>4, ReturnIsSilent DEF AuthUndecodable, Return
  <2> QED
    BY <2>1 DEF Turn, Fails
<1>5. CASE AuthMessage
  <2> DEFINE e == Authorize(parse_userpass(buf))
             d == [dec EXCEPT !.rejected = FALSE]
  <2>1. Lasting(e) /\ Kind(e) = "Authorize" /\ e.type = "Authorize"
    BY LastingEvents, Kinds, TypesOf
  <2>2. d.intercept = dec.intercept
    BY <1>1 DEF Decisions
  <2>3. Go(3 + buf[2] + buf[3 + buf[2]], "auth_wait", <<e>>, d) /\ state = "auth"
    BY <1>2, <1>5 DEF AuthMessage
  <2> HIDE DEF e, d
  <2>4. Says("Authorize", "Authorize", "auth_wait")
    BY <2>1, <2>2, <2>3, GoIsSaid, HeadOfOne
  <2> QED
    BY <2>3, <2>4 DEF Turn, AsksAuth
<1>6. CASE AuthRejected
  <2>1. Append(<<"method", "Authorize">>, "refused") = <<"method", "Authorize", "refused">>
    BY Openings
  <2>2. <<"method", "Authorize">> \in Seq(Word)
    BY DEF Word
  <2>3. /\ <<"method", "Authorize", "refused">> \in Conversations
        /\ Told(log, <<"method", "Authorize">>)
        /\ Go(0, "closed", <<Send(auth_reply(1)), Close>>, dec)
    BY <1>1, <1>2, <1>6, TheConversations DEF AuthRejected, Closing
  <2>4. Says("Send", "refused", "closed") /\ Complete'
    BY <1>1, <2>1, <2>2, <2>3, Kinds, LastIsComplete
  <2> QED
    BY <2>4 DEF Turn, SaysLast
<1>7. CASE AuthAccepted
  <2> DEFINE e == Send(auth_reply(0))
  <2>1. Lasting(e) /\ Kind(e) = "accepted" /\ e.type = "Send"
    BY LastingEvents, Kinds, TypesOf
  <2>2. Go(0, "request", <<e>>, dec) /\ state = "auth_wait" /\ ~dec.rejected
    BY <1>2, <1>7 DEF AuthAccepted
  <2> HIDE DEF e
  <2>3. Says("Send", "accepted", "request")
    BY <2>1, <2>2, GoIsSaid, HeadOfOne
  <2> QED
    BY <2>2, <2>3 DEF Turn, Accepts
<1> QED
  BY <1>3, <1>4, <1>5, <1>6, <1>7 DEF AuthStep

LEMMA RequestTurn ==
  ASSUME Session, RequestStep
  PROVE  Turn
<1> USE DEF Session
<1>1. TypeOK /\ buf \in Bytes /\ dec \in Decisions
  BY DEF Conversing, TypeOK
<1>2. In("request") => Told(log, Opened) /\ state = "request"
  BY DEF In, Conversing, InStage
<1>3. Opened \in Seq(Word) /\ Append(Opened, "failure") \in Conversations
  BY Words, TheConversations
<1>4. \A r \in {Rep.GENERAL_FAILURE, Rep.CMD_NOT_SUPPORTED, Rep.ATYP_NOT_SUPPORTED} :
        Kind(Send(reply(r, Unbound))) = "failure"
  <2>1. \A r \in {Rep.GENERAL_FAILURE, Rep.CMD_NOT_SUPPORTED, Rep.ATYP_NOT_SUPPORTED} :
          r \in Byte /\ r # Rep.SUCCEEDED
    BY ByteFacts DEF Rep
  <2> QED
    BY <2>1, ReplyKind, UnboundType
<1>5. ASSUME NEW r \in {Rep.GENERAL_FAILURE, Rep.CMD_NOT_SUPPORTED, Rep.ATYP_NOT_SUPPORTED},
             NEW n, NEW d, d.intercept = dec.intercept, In("request"),
             Go(n, "closed", <<Send(reply(r, Unbound)), Close>>, d)
      PROVE  Turn
  <2>1. Kind(Send(reply(r, Unbound))) = "failure"
    BY <1>4
  <2>2. Says("Send", "failure", "closed") /\ Complete'
    BY <1>1, <1>2, <1>3, <1>5, <2>1, LastIsComplete
  <2> QED
    BY <1>2, <1>5, <2>2 DEF Turn, SaysLast
<1>6. CASE RequestUnsized
  <2>1. Silent(NeedData, state) /\ state = "request"
    BY <1>2, <1>6, ReturnIsSilent DEF RequestUnsized, Return
  <2> QED
    BY <2>1 DEF Turn, Waits
<1>7. CASE RequestBadAtyp
  BY <1>5, <1>7 DEF RequestBadAtyp, Closing
<1>8. CASE RequestIncomplete
  <2>1. ~(Len(buf) > 4 + 1 + MaxByte + 2)
    BY <1>1, <1>8, RequestFits DEF RequestIncomplete
  <2>2. Return(NeedData) /\ state = "request"
    BY <1>2, <1>8, <2>1 DEF RequestIncomplete, Await
  <2>3. Silent(NeedData, state)
    BY <2>2, ReturnIsSilent DEF Return
  <2> QED
    BY <2>2, <2>3 DEF Turn, Waits
<1>9. CASE RequestMalformed
  BY <1>5, <1>9 DEF RequestMalformed, RequestComplete, Closing
<1>10. CASE RequestUndecodable
  <2>1. Silent(Raise, state)
    BY <1>10, ReturnIsSilent DEF RequestUndecodable, Return
  <2> QED
    BY <2>1 DEF Turn, Fails
<1>11. CASE RequestNotConnect
  <2>1. [dec EXCEPT !.cmd = parse_request(Sized).cmd].intercept = dec.intercept
    BY <1>1 DEF Decisions
  <2> QED
    BY <1>5, <1>11, <2>1 DEF RequestNotConnect, RequestParsed, RequestComplete
<1>12. CASE RequestConnect
  <2> DEFINE dst == parse_request(Sized).dst
             e   == Connect(Cmd.CONNECT, dst)
             d   == [dec EXCEPT !.cmd = Cmd.CONNECT, !.target = dst,
                                !.rejected = FALSE, !.connectedBnd = None,
                                !.connectFailed = FALSE]
  <2>1. RequestParsed /\ state = "request" /\ Go(Size(buf), "connect_wait", <<e>>, d)
    BY <1>2, <1>12 DEF RequestConnect, RequestParsed, RequestComplete
  <2>2. dst \in Address
    <3>1. HasSize(buf) /\ Len(buf) >= Size(buf) /\ HasRequest(Sized)
      BY <2>1 DEF RequestParsed, RequestComplete
    <3>2. Sized \in Bytes
      BY <1>1, <3>1, SizedType DEF Sized
    <3> QED
      BY <3>1, <3>2, RequestFacts
  <2>3. d.intercept = dec.intercept /\ d.connectedBnd = None /\ ~d.connectFailed
    BY <1>1 DEF Decisions
  <2>4. /\ Lasting(e) /\ Kind(e) = "Connect" /\ e.type = "Connect"
        /\ e.dst = dst
    BY LastingEvents, Kinds, TypesOf
  <2> HIDE DEF dst, e, d
  <2>5. Says("Connect", "Connect", "connect_wait") /\ ev' = e /\ dec' = d
    BY <2>1, <2>3, <2>4, GoIsSaid, HeadOfOne
  <2> QED
    BY <2>1, <2>2, <2>3, <2>4, <2>5 DEF Turn, AsksConnect
<1> QED
  BY <1>6, <1>7, <1>8, <1>9, <1>10, <1>11, <1>12 DEF RequestStep

LEMMA ConnectTurn ==
  ASSUME Session, ConnectStep
  PROVE  Turn
<1> USE DEF Session
<1>1. /\ TypeOK
      /\ dec.rep \in Byte /\ dec.rep # Rep.SUCCEEDED
      /\ dec.connectedBnd \in Address \cup {None}
  BY DEF Conversing, TypeOK, Decisions
<1>2. In("connect_wait") => Told(log, Asked) /\ state = "connect_wait"
  BY DEF In, Conversing, InStage
<1>3. Asked \in Seq(Word) /\ Append(Asked, "failure") \in Conversations
  BY Words, TheConversations
<1>4. ASSUME In("connect_wait"), dec.rejected \/ dec.connectFailed,
             Closing(<<Send(reply(dec.rep, Unbound)), Close>>)
      PROVE  Turn
  <2>1. Kind(Send(reply(dec.rep, Unbound))) = "failure"
    BY <1>1, ReplyKind, UnboundType
  <2>2. Says("Send", "failure", "closed") /\ Complete'
    BY <1>1, <1>2, <1>3, <1>4, <2>1, LastIsComplete DEF Closing
  <2> QED
    BY <1>2, <1>4, <2>2 DEF Turn, SaysLast
<1>5. CASE ConnectRaw
  <2> DEFINE e == Relay(dec.target)
  <2>1. Lasting(e) /\ Kind(e) = "Relay" /\ e.type = "Relay"
    BY LastingEvents, Kinds, TypesOf
  <2>2. Go(0, "relay", <<e>>, dec) /\ state = "connect_wait"
    BY <1>2, <1>5 DEF ConnectRaw
  <2>4. dec.relayRaw
    BY <1>5 DEF ConnectRaw
  <2> HIDE DEF e
  <2>3. Says("Relay", "Relay", "relay")
    BY <2>1, <2>2, GoIsSaid, HeadOfOne
  <2> QED
    BY <2>2, <2>3, <2>4 DEF Turn, HandsOver
<1>6. CASE ConnectRejected
  BY <1>4, <1>6 DEF ConnectRejected
<1>7. CASE ConnectFailed
  BY <1>4, <1>7 DEF ConnectFailed
<1>8. CASE ConnectSucceeded
  <2> DEFINE e == Send(reply(Rep.SUCCEEDED, dec.connectedBnd))
             f == Relay(dec.target)
  <2>1. /\ state = "connect_wait" /\ Go(0, "relay", <<e, f>>, dec)
        /\ ~dec.rejected /\ dec.connectedBnd # None /\ Encodable(dec.connectedBnd.host)
    BY <1>2, <1>8 DEF ConnectSucceeded, Served
  <2>2. Rep.SUCCEEDED \in Byte
    BY ByteFacts DEF Rep
  <2>3. Kind(e) = "success"
    BY <1>1, <2>1, <2>2, ReplyKind
  <2>4. Lasting(e) /\ e.type = "Send"
    BY LastingEvents, TypesOf
  <2> HIDE DEF e, f
  <2>5. Head(<<e, f>>) = e /\ Tail(<<e, f>>) # <<>>
    OBVIOUS
  <2>6. Says("Send", "success", "relay")
    BY <2>1, <2>3, <2>4, <2>5, GoIsSaid
  <2>7. out' # <<>>
    BY <2>1, <2>5 DEF Go
  <2> QED
    BY <2>1, <2>6, <2>7 DEF Turn, Succeeds
<1>9. CASE ConnectUnsendable
  <2>1. Silent(Raise, "relay") /\ state = "connect_wait"
    BY <1>2, <1>9, ReturnIsSilent DEF ConnectUnsendable
  <2> QED
    BY <2>1 DEF Turn, Fails
<1>10. CASE ConnectUndecided
  <2>1. Silent(Raise, state)
    BY <1>10, ReturnIsSilent DEF ConnectUndecided, Return
  <2> QED
    BY <2>1 DEF Turn, Fails
<1> QED
  BY <1>5, <1>6, <1>7, <1>8, <1>9, <1>10 DEF ConnectStep

LEMMA QueueAndEndTurn ==
  ASSUME Session, PopQueued \/ EndStep
  PROVE  Turn
<1> USE DEF Session
<1>1. CASE PopQueued
  <2>1. out # <<>> /\ Go(0, state, out, dec)
    BY <1>1 DEF PopQueued
  <2>2. \/ state = "relay" /\ \E dst \in Address : out = <<Relay(dst)>>
        \/ state = "closed" /\ out = <<Close>>
    BY <2>1 DEF Conversing, TypeOK, States, InStage
  <2>3. CASE state = "relay"
    <3>1. PICK dst \in Address : out = <<Relay(dst)>>
      BY <2>2, <2>3
    <3> DEFINE e == Relay(dst)
    <3>2. Lasting(e) /\ Kind(e) = "Relay" /\ e.type = "Relay" /\ Head(out) = e
      <4>1. Head(out) = e
        BY <3>1
      <4> QED
        BY <4>1, LastingEvents, Kinds, TypesOf
    <3> HIDE DEF e
    <3>3. Says("Relay", "Relay", "relay")
      BY <2>1, <2>3, <3>2, GoIsSaid
    <3> QED
      BY <2>3, <3>3 DEF Turn, HandsOver
  <2>4. CASE state = "closed"
    <3>1. Silent(Close, "closed")
      BY <2>1, <2>2, <2>4, ReturnIsSilent
    <3> QED
      BY <2>4, <3>1 DEF Turn, Closes
  <2> QED
    BY <2>2, <2>3, <2>4
<1>2. CASE RelayFinished
  <2>1. Silent(Close, "closed") /\ state = "relay" /\ out = <<>>
    BY <1>2, ReturnIsSilent DEF RelayFinished, Closing, In
  <2> QED
    BY <2>1 DEF Turn, Closes
<1>3. CASE Closed
  <2>1. Silent(Close, "closed") /\ state = "closed"
    BY <1>3, ReturnIsSilent DEF Closed, Return, In
  <2> QED
    BY <2>1 DEF Turn, Closes
<1> QED
  BY <1>1, <1>2, <1>3 DEF EndStep

LEMMA EveryTurn ==
  ASSUME Session, next_event
  PROVE  Turn
BY GreetingTurn, AuthTurn, RequestTurn, ConnectTurn, QueueAndEndTurn DEF next_event

\* A session that is closed has just said its last word, or Close.
WordedClosed == state = "closed" => ev.type \in {"Send", "Close"}

LEMMA ClosesWithAWord ==
  ASSUME Session, next_event, state # "closed", state' = "closed"
  PROVE  WordedClosed'
<1>1. Turn
  BY EveryTurn
<1>2. CASE SaysLast
  BY <1>2 DEF SaysLast, Says, WordedClosed
<1>3. CASE Closes
  BY <1>3, TypesOf DEF Closes, Silent, WordedClosed
<1>4. CASE \/ Waits \/ Fails \/ Greets \/ AsksAuth \/ Accepts \/ AsksConnect
           \/ Succeeds \/ HandsOver
  BY <1>4 DEF Waits, Fails, Greets, AsksAuth, Accepts, AsksConnect, Succeeds, HandsOver,
     Silent, Says
<1> QED
  BY <1>1, <1>2, <1>3, <1>4 DEF Turn

\* A closed session says nothing more and asks for nothing: it is closed with a Send or
\* a Close, and only the queued Close, and Close again, are left to return, whatever is
\* received or decided after the end.
THEOREM ClosedIsSilent == Spec => SilentOnceClosed
<1>1. ASSUME Conversing, [Next]_vars, state = "closed"
      PROVE  state' = "closed" /\ log' = log /\ ev' \in {ev, Close}
  <2>1. CASE next_event
    <3>1. PopQueued \/ Closed
      BY <1>1, <2>1 DEF next_event, In, GreetingStep, AuthStep, RequestStep, ConnectStep,
         EndStep, GreetingBadVersion, GreetingIncomplete, GreetingNoAuth, GreetingUserpass,
         GreetingNoAcceptable, AuthIncomplete, AuthUndecodable, AuthMessage, AuthRejected,
         AuthAccepted, RequestUnsized, RequestBadAtyp, RequestIncomplete, RequestMalformed,
         RequestUndecodable, RequestNotConnect, RequestConnect, RequestParsed,
         RequestComplete, ConnectRaw, ConnectRejected, ConnectFailed, ConnectSucceeded,
         ConnectUnsendable, ConnectUndecided, RelayFinished
    <3>2. CASE PopQueued
      <4>1. Go(0, state, out, dec) /\ out = <<Close>>
        BY <1>1, <3>2 DEF PopQueued, Conversing, InStage
      <4>2. Head(out) = Close
        BY <4>1
      <4>3. ev' = Close
        BY <4>1, <4>2 DEF Go
      <4> QED
        BY <1>1, <4>1, <4>2, <4>3, GoSaysNothing, LastingEvents DEF Go
    <3>3. CASE Closed
      <4>1. Go(0, state, <<Close>>, dec) /\ Head(<<Close>>) = Close
        BY <3>3 DEF Closed, Return
      <4> QED
        BY <1>1, <4>1, GoSaysNothing, LastingEvents DEF Go
    <3> QED
      BY <3>1, <3>2, <3>3
  <2>2. CASE ~next_event
    BY <1>1, <2>2 DEF Next, vars, peer, receive, HookCall, DriverCall, ok, reject,
       set_target, pipe, relay_raw, intercept, connected, connect_failed, Decide
  <2> QED
    BY <2>1, <2>2
<1>2. Init => WordedClosed
  BY DEF Init, WordedClosed
<1>3. ASSUME Session, WordedClosed, [Next]_vars
      PROVE  WordedClosed'
  <2>1. CASE state = "closed"
    BY <1>1, <1>3, <2>1 DEF WordedClosed, Close, Session
  <2>2. CASE state # "closed" /\ state' = "closed"
    <3>1. next_event
      BY <1>3, <2>2 DEF Next, vars, peer, receive, HookCall, DriverCall, ok, reject,
         set_target, pipe, relay_raw, intercept, connected, connect_failed, Decide
    <3> QED
      BY <1>3, <2>2, <3>1, ClosesWithAWord
  <2> QED
    BY <2>1, <2>2 DEF WordedClosed
<1>4. ASSUME Session, WordedClosed, [Next]_vars
      PROVE  /\ state' = "closed" => ev'.type \in {"Send", "Close"}
             /\ state = "closed" => state' = "closed" /\ log' = log /\ ev' \in {ev, Close}
  BY <1>1, <1>3, <1>4 DEF WordedClosed, Session
<1> QED
  <2>1. Spec => []Session
    BY AlwaysConversing, AlwaysReassembled, PTL DEF Session
  <2> QED
    BY <1>2, <1>3, <1>4, <2>1, PTL DEF Spec, SilentOnceClosed

-----------------------------------------------------------------------------
(* The session's invariants, under the driver's calls. *)

\* What reject, connected and connect_failed assign.
OwnDecision(d) == d \in Decisions /\ d.target = dec.target /\ d.rep # Rep.SUCCEEDED

LEMMA SessionKept ==
  ASSUME Session, [Next]_vars \/ (\E d : OwnDecision(d) /\ Decide(d))
  PROVE  Session'
<1>1. CASE [Next]_vars
  BY <1>1, NextConversing, NextReassembled DEF Session
<1>2. ASSUME NEW d, OwnDecision(d), Decide(d) PROVE Session'
  <2>1. TypeOK'
    BY <1>2, DecideType DEF Session, Conversing, OwnDecision
  <2>2. InStage'
    BY <1>2, UntouchedStage DEF Session, Decide, peer
  <2>3. BytesAccounted' /\ ParsedAsSent'
    BY <1>2, UntouchedReassembled DEF Session, Decide
  <2>4. dec'.rep # Rep.SUCCEEDED
    BY <1>2 DEF Decide, OwnDecision
  <2> QED
    BY <2>1, <2>2, <2>3, <2>4 DEF Session, Conversing, Reassembled
<1> QED
  BY <1>1, <1>2

\* The codes and the addresses the driver passes on its own account.
LEMMA OwnCalls ==
  ASSUME Session
  PROVE  /\ \A r \in {Rep.NOT_ALLOWED, Rep.GENERAL_FAILURE} : reject(r) => Session'
         /\ \A a \in Address : connected(a) => Session'
         /\ \A r \in {Rep.CONN_REFUSED, Rep.TTL_EXPIRED, Rep.NET_UNREACHABLE,
                      Rep.HOST_UNREACHABLE} : connect_failed(r) => Session'
<1>1. dec \in Decisions /\ dec.rep # Rep.SUCCEEDED
  BY DEF Session, Conversing, TypeOK
<1>2. \A r \in {Rep.NOT_ALLOWED, Rep.GENERAL_FAILURE, Rep.CONN_REFUSED, Rep.TTL_EXPIRED,
                Rep.NET_UNREACHABLE, Rep.HOST_UNREACHABLE} : r \in Byte /\ r # Rep.SUCCEEDED
  BY ByteFacts DEF Rep
<1>3. ASSUME NEW r \in {Rep.NOT_ALLOWED, Rep.GENERAL_FAILURE}, reject(r)
      PROVE  Session'
  <2>1. OwnDecision([dec EXCEPT !.rejected = TRUE, !.rep = r])
    BY <1>1, <1>2 DEF OwnDecision, Decisions
  <2> QED
    BY <1>3, <2>1, SessionKept DEF reject
<1>4. ASSUME NEW a \in Address, connected(a)
      PROVE  Session'
  <2>1. OwnDecision([dec EXCEPT !.connectedBnd = a])
    BY <1>1 DEF OwnDecision, Decisions
  <2> QED
    BY <1>4, <2>1, SessionKept DEF connected
<1>5. ASSUME NEW r \in {Rep.CONN_REFUSED, Rep.TTL_EXPIRED, Rep.NET_UNREACHABLE,
                        Rep.HOST_UNREACHABLE}, connect_failed(r)
      PROVE  Session'
  <2>1. OwnDecision([dec EXCEPT !.connectFailed = TRUE, !.rep = r])
    BY <1>1, <1>2 DEF OwnDecision, Decisions
  <2> QED
    BY <1>5, <2>1, SessionKept DEF connect_failed
<1> QED
  BY <1>3, <1>4, <1>5

-----------------------------------------------------------------------------
(* What was said. *)

\* The peer was told that its credentials are good.
Approved == \E i \in 1 .. answered : Kind(log[i]) = "accepted"

LEMMA SaidSoFar ==
  ASSUME TypeOK, NEW type, NEW word, NEW s, Says(type, word, s)
  PROVE  /\ \A k : IsSaid(k)' <=> IsSaid(k) \/ k = word
         /\ Len(log') = Len(log) + 1
         /\ \A i \in 1 .. Len(log) : log'[i] = log[i]
<1>1. log \in Seq(LastingEvent) /\ log' = Append(log, ev') /\ Kind(ev') = word
  BY DEF TypeOK, Says
<1>2. /\ Len(log') = Len(log) + 1 /\ Len(log) \in Nat
      /\ \A i \in 1 .. Len(log) : log'[i] = log[i]
      /\ log'[Len(log) + 1] = ev'
      /\ DOMAIN log' = 1 .. Len(log) + 1
      /\ DOMAIN log = 1 .. Len(log)
  BY <1>1
<1>3. \A i \in DOMAIN log' : i \in DOMAIN log \/ i = Len(log) + 1
  BY <1>2
<1>4. DOMAIN log \subseteq DOMAIN log' /\ Len(log) + 1 \in DOMAIN log'
  BY <1>2
<1>5. ASSUME NEW k PROVE IsSaid(k)' <=> IsSaid(k) \/ k = word
  BY <1>1, <1>2, <1>3, <1>4 DEF IsSaid
<1> QED
  BY <1>2, <1>5

\* No verdict was sent while one is still to be given.
LEMMA NoVerdictYet ==
  ASSUME Session, state \in {"auth_wait", "connect_wait"}
  PROVE  ~IsSaid("success") /\ ~IsSaid("failure")
<1>1. PICK c \in {<<"method", "Authorize">>, Asked} : Told(log, c)
  BY DEF Session, Conversing, InStage
<1>2. \A i \in 1 .. Len(c) : c[i] # "success" /\ c[i] # "failure"
  BY <1>1 DEF Asked, Opened
<1>3. DOMAIN log = 1 .. Len(log)
  BY DEF Session, Conversing, TypeOK
<1> QED
  BY <1>1, <1>2, <1>3 DEF Told, IsSaid

\* A request is only read from a peer that was accepted.
LEMMA ApprovedIfAsked ==
  ASSUME Session, state = "connect_wait", requireAuth, answered = Len(log) - 1
  PROVE  Approved /\ \E i \in 1 .. answered + 1 : Kind(log[i]) = "accepted"
<1>1. Told(log, Asked)
  BY DEF Session, Conversing, InStage
<1>2. Len(Asked) = 4 /\ Asked[3] = "accepted"
  BY DEF Asked, Opened
<1>3. Len(log) = 4 /\ Kind(log[3]) = "accepted"
  BY <1>1, <1>2 DEF Told
<1>4. 3 \in 1 .. answered /\ 3 \in 1 .. answered + 1
  BY <1>3
<1> QED
  BY <1>3, <1>4 DEF Approved

-----------------------------------------------------------------------------
(* The steps of the driver. *)

LEMMA DriverInitInv == DriverInit => DriverInv
<1> SUFFICES ASSUME DriverInit PROVE DriverInv
  OBVIOUS
<1>1. Init
  BY DEF DriverInit
<1>2. Session
  BY <1>1, InitConversing, InitReassembled, InitType DEF Session, Reassembled
<1>3. log = <<>> /\ state = "greeting" /\ DOMAIN log = {} /\ Len(log) = 0
  BY <1>1 DEF Init
<1>4. TypeOK
  BY <1>2 DEF Session, Conversing
<1>5. DriverTypeOK
  <2>1. answered \in 0 .. Len(log) /\ answered >= Len(log) - 1 /\ disconnects \in 0 .. 1
    BY <1>3 DEF DriverInit
  <2> QED
    BY <1>4, <2>1 DEF DriverInit, DriverTypeOK
<1>6. InStep
  BY <1>3, DriverAssumption DEF DriverInit, InStep, DriverAssumption
<1>7. Refusing /\ Dialled /\ Decided /\ ClosedWell /\ UpstreamOnlyIfAuthorized /\ CleanTeardown
  BY <1>3, DriverAssumption
     DEF DriverInit, Refusing, Dialled, Decided, ClosedWell, UpstreamOnlyIfAuthorized,
         CleanTeardown, DriverAssumption
<1>8. TruthfulVerdict
  BY <1>3 DEF DriverInit, TruthfulVerdict, IsSaid
<1> QED
  BY <1>2, <1>5, <1>6, <1>7, <1>8 DEF DriverInv

\* What a step that leaves the session alone leaves alone.
LEMMA SessionUntouched ==
  ASSUME DriverInv, UNCHANGED vars
  PROVE  /\ Session' /\ TypeOK' /\ ClosedWell'
         /\ \A k : IsSaid(k)' <=> IsSaid(k)
         /\ requireAuth' = requireAuth /\ state' = state /\ out' = out /\ dec' = dec
         /\ ev' = ev /\ log' = log
<1>1. Session'
  BY SessionKept DEF DriverInv
<1>2. requireAuth' = requireAuth /\ state' = state /\ out' = out /\ dec' = dec
        /\ ev' = ev /\ log' = log /\ stream' = stream
  BY DEF vars, peer
<1>3. ClosedWell'
  BY <1>2, PeerIsFixed, StreamIsFixed
     DEF DriverInv, ClosedWell, Complete, NotSpoken, TooLong, Told
<1>4. \A k : IsSaid(k)' <=> IsSaid(k)
  BY <1>2 DEF IsSaid
<1> QED
  BY <1>1, <1>2, <1>3, <1>4 DEF Session, Conversing

\* Where Pull can lead.
LEMMA WhereTo ==
  ASSUME Turn, Pull
  PROVE  /\ (Fails => pc' = "finally" /\ end' = "crash")
         /\ (Closes => pc' = "finally" /\ end' = "close")
         /\ (Waits => pc' = "NeedData" /\ end' = end)
         /\ \A type, word, s :
              /\ type \in {"Send", "Authorize", "Connect", "Relay"}
              /\ Says(type, word, s)
              => pc' = type /\ end' = end
BY TypesOf DEF Pull, Fails, Closes, Waits, Silent, Says, Leave, Continue

LEMMA NextEventKeepsPeer ==
  ASSUME next_event
  PROVE  requireAuth' = requireAuth /\ stream' = stream
BY DEF next_event, PopQueued, GreetingStep, AuthStep, RequestStep, ConnectStep, EndStep,
   GreetingBadVersion, GreetingIncomplete, GreetingNoAuth, GreetingUserpass,
   GreetingNoAcceptable, AuthIncomplete, AuthUndecodable, AuthMessage, AuthRejected,
   AuthAccepted, RequestUnsized, RequestBadAtyp, RequestIncomplete, RequestMalformed,
   RequestUndecodable, RequestNotConnect, RequestConnect, ConnectRaw, ConnectRejected,
   ConnectFailed, ConnectSucceeded, ConnectUnsendable, ConnectUndecided, RelayFinished,
   Closed, Await, Closing, Return, Go, peer

\* What every case of PullKeeps starts from.
LEMMA PullFacts ==
  ASSUME DriverInv, Pull
  PROVE  /\ Turn /\ TypeOK /\ Session' /\ TypeOK'
         /\ pc = "next" /\ answered = Len(log) /\ Len(log) \in Nat /\ end = None
         /\ UNCHANGED <<async, peerClosed, downstream, upstream, disconnects, answered,
                        refused, requireAuth, stream>>
<1>1. pc = "next" /\ next_event
        /\ UNCHANGED <<async, peerClosed, downstream, upstream, disconnects, answered,
                       refused>>
  BY DEF Pull, sockets
<1>2. Session /\ Turn /\ TypeOK
  BY <1>1, EveryTurn DEF DriverInv, Session, Conversing
<1>3. Session'
  BY <1>1, <1>2, SessionKept DEF Next
<1>4. TypeOK'
  BY <1>3 DEF Session, Conversing
<1>5. answered = Len(log) /\ end = None /\ Len(log) \in Nat
  BY <1>1, <1>2, LenProperties DEF DriverInv, InStep, DriverTypeOK, TypeOK
<1> QED
  BY <1>1, <1>2, <1>3, <1>4, <1>5, NextEventKeepsPeer

\* The driver's own state, whatever was said.
Books == DriverTypeOK /\ InStep /\ Refusing /\ Dialled /\ Decided /\ CleanTeardown

LEMMA PullBooks ==
  ASSUME DriverInv, Pull
  PROVE  Books'
<1> USE DEF Books, DriverTypeOK, InStep, Refusing, Dialled, Decided, CleanTeardown
<1>1. /\ Turn /\ TypeOK /\ Session' /\ TypeOK'
      /\ pc = "next" /\ answered = Len(log) /\ Len(log) \in Nat /\ end = None
      /\ UNCHANGED <<async, peerClosed, downstream, upstream, disconnects, answered,
                     refused, requireAuth, stream>>
  BY PullFacts
<1>2. DriverTypeOK /\ InStep /\ Refusing /\ Dialled /\ Decided /\ CleanTeardown
  BY DEF DriverInv
<1>3. None \notin {"close", "crash"}
  BY DriverAssumption DEF DriverAssumption
<1>4. \A type, word, s : Says(type, word, s) => Len(log') = Len(log) + 1
  BY <1>1, SaidSoFar
<1>5. CASE Waits
  <2>1. pc' = "NeedData" /\ end' = end /\ Silent(NeedData, state)
          /\ state \in {"greeting", "auth", "request"}
    BY <1>1, <1>5, WhereTo DEF Waits
  <2> QED
    BY <1>1, <1>2, <1>3, <2>1 DEF Silent
<1>6. CASE Fails
  <2>1. /\ pc' = "finally" /\ end' = "crash" /\ log' = log /\ dec' = dec
        /\ state' = state \/ (state = "connect_wait" /\ state' = "relay")
    BY <1>1, <1>6, WhereTo DEF Fails, Silent
  <2> QED
    BY <1>1, <1>2, <1>3, <2>1
<1>7. CASE Closes
  <2>1. pc' = "finally" /\ end' = "close" /\ log' = log /\ state' = "closed"
    BY <1>1, <1>7, WhereTo DEF Closes, Silent
  <2> QED
    BY <1>1, <1>2, <1>3, <2>1
<1>8. CASE Greets
  <2>1. pc' = "Send" /\ end' = end /\ Len(log') = Len(log) + 1
          /\ state = "greeting" /\ state' \in {"auth", "request"}
    BY <1>1, <1>4, <1>8, WhereTo DEF Greets, Says
  <2> QED
    BY <1>1, <1>2, <1>3, <2>1
<1>9. CASE SaysLast
  <2>1. pc' = "Send" /\ end' = end /\ Len(log') = Len(log) + 1 /\ state' = "closed"
    BY <1>1, <1>4, <1>9, WhereTo DEF SaysLast, Says
  <2> QED
    BY <1>1, <1>2, <1>3, <2>1
<1>10. CASE AsksAuth
  <2>1. pc' = "Authorize" /\ end' = end /\ Len(log') = Len(log) + 1
          /\ state = "auth" /\ state' = "auth_wait"
    BY <1>1, <1>4, <1>10, WhereTo DEF AsksAuth, Says
  <2> QED
    BY <1>1, <1>2, <1>3, <2>1
<1>11. CASE Accepts
  <2>1. pc' = "Send" /\ end' = end /\ Len(log') = Len(log) + 1
          /\ state = "auth_wait" /\ ~dec.rejected /\ state' = "request"
    BY <1>1, <1>4, <1>11, WhereTo DEF Accepts, Says
  <2> QED
    BY <1>1, <1>2, <1>3, <2>1
<1>12. CASE AsksConnect
  <2>1. /\ pc' = "Connect" /\ end' = end /\ Len(log') = Len(log) + 1
        /\ state = "request" /\ state' = "connect_wait" /\ ev'.dst \in Address
        /\ dec'.connectedBnd = None /\ ~dec'.connectFailed
    BY <1>1, <1>4, <1>12, WhereTo DEF AsksConnect, Says
  <2> QED
    BY <1>1, <1>2, <1>3, <2>1
<1>13. CASE Succeeds
  <2>1. pc' = "Send" /\ end' = end /\ Len(log') = Len(log) + 1
          /\ state = "connect_wait" /\ state' = "relay" /\ out' # <<>>
    BY <1>1, <1>4, <1>13, WhereTo DEF Succeeds, Says
  <2> QED
    BY <1>1, <1>2, <1>3, <2>1
<1>14. CASE HandsOver
  <2>1. pc' = "Relay" /\ end' = end /\ Len(log') = Len(log) + 1
          /\ state \in {"connect_wait", "relay"} /\ state' = "relay"
    BY <1>1, <1>4, <1>14, WhereTo DEF HandsOver, Says
  <2> QED
    BY <1>1, <1>2, <1>3, <2>1
<1> QED
  BY <1>1, <1>5, <1>6, <1>7, <1>8, <1>9, <1>10, <1>11, <1>12, <1>13, <1>14 DEF Turn

LEMMA PullEnds ==
  ASSUME DriverInv, Pull
  PROVE  ClosedWell'
<1>1. Turn /\ pc = "next" /\ requireAuth' = requireAuth /\ stream' = stream
  BY PullFacts
<1>2. SUFFICES ASSUME state' = "closed" PROVE (Complete \/ NotSpoken \/ TooLong)'
  BY DEF ClosedWell
<1>3. SaysLast \/ Closes \/ (state = "closed" /\ log' = log)
  BY <1>1, <1>2 DEF Turn, Waits, Fails, Greets, AsksAuth, Accepts, AsksConnect, Succeeds,
     HandsOver, Silent, Says
<1>4. log' = log => /\ Complete => Complete'
                    /\ NotSpoken => NotSpoken'
                    /\ TooLong => TooLong'
  BY <1>1, PeerIsFixed, StreamIsFixed DEF Complete, NotSpoken, TooLong, Told
<1>5. CASE SaysLast
  BY <1>5 DEF SaysLast
<1>6. CASE Closes
  BY <1>1, <1>4, <1>6 DEF Closes, Silent, DriverInv, InStep, ClosedWell
<1>7. CASE state = "closed" /\ log' = log
  BY <1>4, <1>7 DEF DriverInv, ClosedWell
<1> QED
  BY <1>3, <1>5, <1>6, <1>7

LEMMA PullTellsTruth ==
  ASSUME DriverInv, Pull
  PROVE  TruthfulVerdict'
<1>1. /\ Turn /\ TypeOK
      /\ upstream' = upstream /\ refused' = refused
  BY PullFacts
<1>2. TruthfulVerdict /\ Refusing /\ Dialled /\ Decided
  BY DEF DriverInv
<1>3. ASSUME log' = log, dec' = dec PROVE TruthfulVerdict'
  <2>1. \A k : IsSaid(k)' <=> IsSaid(k)
    BY <1>3 DEF IsSaid
  <2> QED
    BY <1>1, <1>2, <1>3, <2>1 DEF TruthfulVerdict
<1>4. ASSUME NEW type, NEW word, NEW s, Says(type, word, s),
             word = "success" => (upstream # "none" \/ dec.intercept) /\ refused = None,
             word = "failure" => upstream = "none"
      PROVE  TruthfulVerdict'
  <2>1. \A k : IsSaid(k)' <=> IsSaid(k) \/ k = word
    BY <1>1, <1>4, SaidSoFar
  <2>2. dec'.intercept = dec.intercept
    BY <1>4 DEF Says
  <2> QED
    BY <1>1, <1>2, <1>4, <2>1, <2>2 DEF TruthfulVerdict
<1>5. CASE Waits \/ Fails \/ Closes
  BY <1>3, <1>5 DEF Waits, Fails, Closes, Silent
<1>6. CASE Greets \/ AsksAuth \/ Accepts \/ AsksConnect \/ HandsOver
  BY <1>4, <1>6 DEF Greets, AsksAuth, Accepts, AsksConnect, HandsOver
<1>7. CASE SaysLast
  BY <1>2, <1>4, <1>7 DEF SaysLast, Dialled
<1>8. CASE Succeeds
  BY <1>2, <1>4, <1>8 DEF Succeeds, Decided
<1> QED
  BY <1>1, <1>5, <1>6, <1>7, <1>8 DEF Turn

LEMMA PullKeeps ==
  ASSUME DriverInv, Pull
  PROVE  DriverInv'
<1>1. /\ Turn /\ TypeOK /\ Session' /\ answered = Len(log)
      /\ UNCHANGED <<upstream, answered, refused, requireAuth>>
  BY PullFacts
<1>2. UpstreamOnlyIfAuthorized'
  <2>1. \A i \in 1 .. answered : log'[i] = log[i]
    <3>1. log' = log \/ \E type, word, s : Says(type, word, s)
      BY <1>1 DEF Turn, Waits, Fails, Closes, Greets, SaysLast, AsksAuth, Accepts,
         AsksConnect, Succeeds, HandsOver, Silent
    <3> QED
      BY <1>1, <3>1, SaidSoFar
  <2> QED
    BY <1>1, <2>1 DEF DriverInv, UpstreamOnlyIfAuthorized
<1> QED
  BY <1>1, <1>2, PullBooks, PullEnds, PullTellsTruth DEF DriverInv, Books

\* A step that tells the peer nothing: what is left to show of the invariant.
LEMMA NothingSaid ==
  ASSUME DriverInv, Session', log' = log, state' = state,
         requireAuth' = requireAuth, stream' = stream, Books',
         answered' \in {answered, answered + 1},
         upstream' # "none" => upstream # "none" \/ state = "connect_wait",
         upstream' # "none" => refused' = None,
         upstream' # "none" /\ requireAuth => Approved',
         upstream # "none" => upstream' # "none",
         dec.intercept => dec'.intercept,
         refused' # refused => state \in {"auth_wait", "connect_wait"}
  PROVE  DriverInv'
<1>1. \A k : IsSaid(k)' <=> IsSaid(k)
  BY DEF IsSaid
<1>2. state \in {"auth_wait", "connect_wait"} => ~IsSaid("success") /\ ~IsSaid("failure")
  BY NoVerdictYet DEF DriverInv
<1>3. TruthfulVerdict'
  BY <1>1, <1>2 DEF TruthfulVerdict, DriverInv
<1>4. UpstreamOnlyIfAuthorized'
  BY DEF UpstreamOnlyIfAuthorized, Approved
<1>5. ClosedWell'
  BY PeerIsFixed, StreamIsFixed DEF DriverInv, ClosedWell, Complete, NotSpoken, TooLong, Told
<1> QED
  BY <1>3, <1>4, <1>5 DEF DriverInv, Books

\* The last part again, for a step that opens no upstream.
LEMMA NothingOpened ==
  ASSUME DriverInv, Session', log' = log, state' = state,
         requireAuth' = requireAuth, stream' = stream, Books',
         answered' \in {answered, answered + 1},
         upstream' # "none" <=> upstream # "none",
         dec.intercept => dec'.intercept,
         refused' = refused \/ (state \in {"auth_wait", "connect_wait"} /\ upstream = "none")
  PROVE  DriverInv'
<1>1. answered \in Nat /\ answered' \in Nat
  BY LenProperties DEF DriverInv, DriverTypeOK, TypeOK
<1>2. Approved => Approved'
  BY <1>1 DEF Approved
<1> QED
  BY <1>2, NothingSaid DEF DriverInv, UpstreamOnlyIfAuthorized, Approved

\* The steps that leave the session alone.
LEMMA DriverStepKeeps ==
  ASSUME DriverInv,
         \/ SendAll \/ RecvEOF \/ SocketError \/ AuthorizeReturns \/ OnConnectRejected
         \/ DialRaises \/ RelayWithoutUpstream \/ RelayEnds \/ Exit \/ Teardown
         \/ TeardownExits \/ PeerCloses
  PROVE  DriverInv'
<1> USE DEF Leave, Continue, sockets
<1>1. UNCHANGED vars
  BY DEF SendAll, RecvEOF, SocketError, AuthorizeReturns, OnConnectRejected, DialRaises,
     Dialling, RelayWithoutUpstream, RelayEnds, Exit, Teardown, TeardownExits, PeerCloses
<1>2. /\ Session' /\ TypeOK'
      /\ UNCHANGED <<requireAuth, stream, state, out, dec, ev, log>>
  BY <1>1, SessionUntouched DEF vars, peer
<1>3. Books /\ Len(log) \in Nat /\ answered \in Nat
  BY LenProperties DEF DriverInv, Books, DriverTypeOK, TypeOK
<1>4. None \notin {"close", "relay", "eof", "error", "crash", "exit", "cut"}
  BY DriverAssumption DEF DriverAssumption
<1>5. /\ answered' \in {answered, answered + 1}
      /\ upstream' # "none" <=> upstream # "none"
  BY DEF SendAll, RecvEOF, SocketError, AuthorizeReturns, OnConnectRejected, DialRaises,
     RelayWithoutUpstream, RelayEnds, Exit, Teardown, TeardownExits, PeerCloses
<1>6. refused' = refused \/ (state \in {"auth_wait", "connect_wait"} /\ upstream = "none")
  <2>1. refused' = refused \/ AuthorizeReturns \/ OnConnectRejected
    BY DEF SendAll, RecvEOF, SocketError, DialRaises, RelayWithoutUpstream, RelayEnds,
       Exit, Teardown, TeardownExits, PeerCloses
  <2>2. AuthorizeReturns \/ OnConnectRejected =>
          state \in {"auth_wait", "connect_wait"} /\ upstream = "none"
    BY <1>3 DEF AuthorizeReturns, OnConnectRejected, Books, InStep, Dialled, DriverTypeOK
  <2> QED
    BY <2>1, <2>2
<1>7. Books'
  <2> USE <1>2, <1>3, <1>4
          DEF Books, DriverTypeOK, InStep, Refusing, Dialled, Decided, CleanTeardown
  <2>1. CASE SendAll
    BY <2>1 DEF SendAll
  <2>2. CASE RecvEOF
    BY <2>2 DEF RecvEOF
  <2>3. CASE SocketError
    BY <2>3 DEF SocketError
  <2>4. CASE AuthorizeReturns
    BY <2>4 DEF AuthorizeReturns
  <2>5. CASE OnConnectRejected
    BY <2>5 DEF OnConnectRejected
  <2>6. CASE DialRaises
    BY <2>6 DEF DialRaises, Dialling
  <2>7. CASE RelayWithoutUpstream
    BY <2>7 DEF RelayWithoutUpstream
  <2>8. CASE RelayEnds
    BY <2>8 DEF RelayEnds
  <2>9. CASE Exit
    BY <2>9 DEF Exit, Exits
  <2>10. CASE Teardown
    BY <2>10 DEF Teardown
  <2>11. CASE TeardownExits
    BY <2>11 DEF TeardownExits
  <2>12. CASE PeerCloses
    BY <2>12 DEF PeerCloses
  <2> QED
    BY <2>1, <2>2, <2>3, <2>4, <2>5, <2>6, <2>7, <2>8, <2>9, <2>10, <2>11, <2>12
<1> QED
  <2>1. /\ log' = log /\ state' = state /\ requireAuth' = requireAuth /\ stream' = stream
        /\ dec' = dec
    BY <1>2
  <2> QED
    BY <1>2, <1>5, <1>6, <1>7, <2>1, NothingOpened

LEMMA RecvKeeps ==
  ASSUME DriverInv, Recv
  PROVE  DriverInv'
<1>1. PICK n \in 1 .. Len(inflight) : receive(n)
  BY DEF Recv
<1>2. /\ UNCHANGED <<stream, requireAuth, state, out, dec, ev, log>>
      /\ pc = "NeedData" /\ pc' = "next" /\ end' = end
      /\ UNCHANGED <<async, peerClosed, downstream, upstream, disconnects, answered, refused>>
  BY <1>1 DEF Recv, receive, Continue, sockets
<1>3. Session'
  BY <1>1, SessionKept DEF DriverInv, Next
<1>4. TypeOK'
  BY <1>3 DEF Session, Conversing
<1>5. Books'
  BY <1>2, <1>4 DEF Books, DriverInv, DriverTypeOK, InStep, Refusing, Dialled, Decided,
     CleanTeardown
<1> QED
  <2>1. /\ answered' = answered /\ upstream' = upstream /\ refused' = refused /\ dec' = dec
        /\ log' = log /\ state' = state /\ requireAuth' = requireAuth /\ stream' = stream
    BY <1>2
  <2> QED
    BY <1>3, <1>5, <2>1, NothingOpened

LEMMA HookCallsKeep ==
  ASSUME DriverInv, HookCalls
  PROVE  DriverInv'
<1>1. /\ pc \in {"Authorize", "Connect"} /\ HookCall /\ UNCHANGED driver
      /\ dec \in Decisions
  BY DEF HookCalls, DriverInv, DriverTypeOK, TypeOK
<1>2. /\ UNCHANGED <<stream, requireAuth, state, out, ev, log>>
      /\ dec'.connectedBnd = dec.connectedBnd
      /\ dec'.connectFailed = dec.connectFailed
      /\ dec.intercept => dec'.intercept
  BY <1>1 DEF HookCall, ok, reject, set_target, pipe, relay_raw, intercept, Decide, peer,
     Decisions
<1>3. Session'
  BY <1>1, SessionKept DEF DriverInv, Next
<1>4. TypeOK'
  BY <1>3 DEF Session, Conversing
<1>5. Books'
  BY <1>1, <1>2, <1>4 DEF Books, DriverInv, DriverTypeOK, InStep, Refusing, Dialled,
     Decided, CleanTeardown, driver
<1> QED
  <2>1. /\ answered' = answered /\ upstream' = upstream /\ refused' = refused
        /\ log' = log /\ state' = state /\ requireAuth' = requireAuth /\ stream' = stream
    BY <1>1, <1>2 DEF driver
  <2> QED
    BY <1>2, <1>3, <1>5, <2>1, NothingOpened

\* The steps with which the driver itself decides.
LEMMA RaisesKeep ==
  ASSUME DriverInv, AuthorizeRaises \/ OnConnectRaises
  PROVE  DriverInv'
<1>1. PICK r \in {Rep.NOT_ALLOWED, Rep.GENERAL_FAILURE} : reject(r)
  BY DEF AuthorizeRaises, OnConnectRaises
<1>2. /\ pc \in {"Authorize", "Connect"} /\ pc' = "next" /\ end' = end
      /\ answered' = answered + 1 /\ refused' = "raise"
      /\ UNCHANGED <<async, peerClosed, downstream, upstream, disconnects>>
  BY DEF AuthorizeRaises, OnConnectRaises, Continue, sockets
<1>3. /\ UNCHANGED <<stream, requireAuth, state, out, ev, log>>
      /\ dec' = [dec EXCEPT !.rejected = TRUE, !.rep = r]
      /\ dec \in Decisions
  BY <1>1 DEF reject, Decide, peer, DriverInv, DriverTypeOK, TypeOK
<1>4. /\ dec'.rejected /\ dec'.connectedBnd = dec.connectedBnd
      /\ dec'.intercept = dec.intercept
  BY <1>3 DEF Decisions
<1>5. Session'
  BY <1>1, OwnCalls DEF DriverInv
<1>6. TypeOK'
  BY <1>5 DEF Session, Conversing
<1>7. Books /\ Len(log) \in Nat /\ answered \in Nat
  BY LenProperties DEF DriverInv, Books, DriverTypeOK, TypeOK
<1>8. state \in {"auth_wait", "connect_wait"} /\ upstream = "none"
        /\ answered = Len(log) - 1
        /\ (state = "connect_wait" => pc = "Connect")
  BY <1>2, <1>7 DEF Books, InStep, Dialled
<1>9. Books'
  BY <1>2, <1>3, <1>4, <1>6, <1>7, <1>8
     DEF Books, DriverTypeOK, InStep, Refusing, Dialled, Decided, CleanTeardown
<1>10. /\ log' = log /\ state' = state /\ requireAuth' = requireAuth /\ stream' = stream
       /\ upstream' = upstream
  BY <1>2, <1>3
<1> QED
  BY <1>2, <1>4, <1>5, <1>8, <1>9, <1>10, NothingOpened

\* What holds when on_connect() has returned and nobody refused the request.
LEMMA Undecided ==
  ASSUME DriverInv, pc = "Connect"
  PROVE  /\ state = "connect_wait" /\ upstream = "none" /\ refused = None
         /\ dec.connectedBnd = None /\ ~dec.connectFailed
         /\ answered = Len(log) - 1 /\ end # "close"
         /\ dec \in Decisions /\ Len(log) \in Nat /\ ev.dst \in Address
<1>1. state = "connect_wait" /\ answered = Len(log) - 1 /\ ev.dst \in Address
  BY DEF DriverInv, InStep
<1>2. upstream = "none" /\ refused = None /\ dec.connectedBnd = None /\ ~dec.connectFailed
  BY <1>1 DEF DriverInv, Dialled, Refusing, Decided
<1>3. end = None /\ end # "close"
  BY DriverAssumption DEF DriverInv, DriverTypeOK, DriverAssumption
<1>4. dec \in Decisions /\ Len(log) \in Nat
  BY LenProperties DEF DriverInv, DriverTypeOK, TypeOK
<1> QED
  BY <1>1, <1>2, <1>3, <1>4

LEMMA InterceptKeeps ==
  ASSUME DriverInv, OnConnectIntercepted
  PROVE  DriverInv'
<1>1. /\ pc = "Connect" /\ pc' = "next" /\ end' = end /\ dec.intercept
      /\ answered' = answered + 1
      /\ UNCHANGED <<async, peerClosed, downstream, upstream, disconnects, refused>>
      /\ connected(ev.dst)
  BY DEF OnConnectIntercepted, Continue, sockets
<1>2. /\ state = "connect_wait" /\ upstream = "none" /\ refused = None
      /\ answered = Len(log) - 1 /\ end # "close"
      /\ dec \in Decisions /\ Len(log) \in Nat /\ ev.dst \in Address
  BY <1>1, Undecided
<1>3. UNCHANGED <<stream, requireAuth, state, out, ev, log>>
        /\ dec' = [dec EXCEPT !.connectedBnd = ev.dst]
  BY <1>1 DEF connected, Decide, peer
<1>4. dec'.intercept
  BY <1>1, <1>2, <1>3 DEF Decisions
<1>5. Session'
  BY <1>1, <1>2, OwnCalls DEF DriverInv
<1>6. TypeOK'
  BY <1>5 DEF Session, Conversing
<1>7. Books
  BY DEF DriverInv, Books
<1>8. Books'
  BY <1>1, <1>2, <1>3, <1>4, <1>6, <1>7
     DEF Books, DriverTypeOK, InStep, Refusing, Dialled, Decided, CleanTeardown
<1>9. /\ log' = log /\ state' = state /\ requireAuth' = requireAuth /\ stream' = stream
      /\ upstream' = upstream /\ refused' = refused
  BY <1>1, <1>3
<1> QED
  BY <1>1, <1>4, <1>5, <1>8, <1>9, NothingOpened

LEMMA DialSucceedsKeeps ==
  ASSUME DriverInv, DialSucceeds
  PROVE  DriverInv'
<1>1. /\ pc = "Connect" /\ pc' = "next" /\ end' = end /\ upstream' = "open"
      /\ answered' = answered + 1 /\ ~dec.rejected
      /\ UNCHANGED <<async, peerClosed, downstream, disconnects, refused>>
      /\ connected(LocalAddress)
  BY DEF DialSucceeds, Dialling, Continue
<1>2. /\ state = "connect_wait" /\ upstream = "none" /\ refused = None
      /\ ~dec.connectFailed /\ answered = Len(log) - 1 /\ end # "close"
      /\ dec \in Decisions /\ Len(log) \in Nat
  BY <1>1, Undecided
<1>3. UNCHANGED <<stream, requireAuth, state, out, ev, log>>
        /\ dec' = [dec EXCEPT !.connectedBnd = LocalAddress]
  BY <1>1 DEF connected, Decide, peer
<1>4. /\ dec'.intercept = dec.intercept /\ ~dec'.rejected /\ ~dec'.connectFailed
  BY <1>1, <1>2, <1>3 DEF Decisions
<1>5. Session'
  BY <1>1, OwnCalls, DriverAssumption DEF DriverInv, DriverAssumption
<1>6. TypeOK'
  BY <1>5 DEF Session, Conversing
<1>7. Books
  BY DEF DriverInv, Books
<1>8. Books'
  BY <1>1, <1>2, <1>3, <1>4, <1>6, <1>7
     DEF Books, DriverTypeOK, InStep, Refusing, Dialled, Decided, CleanTeardown
<1>9. requireAuth => Approved'
  <2>1. requireAuth => \E i \in 1 .. answered + 1 : Kind(log[i]) = "accepted"
    BY <1>2, ApprovedIfAsked DEF DriverInv
  <2> QED
    BY <1>1, <1>3, <2>1 DEF Approved
<1>10. /\ log' = log /\ state' = state /\ requireAuth' = requireAuth /\ stream' = stream
       /\ refused' = refused
  BY <1>1, <1>3
<1> QED
  BY <1>1, <1>2, <1>4, <1>5, <1>8, <1>9, <1>10, NothingSaid

LEMMA DialUnnamedKeeps ==
  ASSUME DriverInv, DialUnnamed
  PROVE  DriverInv'
<1>1. /\ pc = "Connect" /\ pc' = "finally" /\ end' = "crash" /\ upstream' = "lost"
      /\ ~dec.rejected /\ UNCHANGED vars
      /\ UNCHANGED <<async, peerClosed, downstream, disconnects, answered, refused>>
  BY DEF DialUnnamed, Dialling, Leave
<1>2. /\ state = "connect_wait" /\ upstream = "none" /\ refused = None
      /\ ~dec.connectFailed /\ answered = Len(log) - 1
      /\ Len(log) \in Nat
  BY <1>1, Undecided
<1>3. /\ Session' /\ TypeOK'
      /\ UNCHANGED <<requireAuth, stream, state, out, dec, ev, log>>
  BY <1>1, SessionUntouched DEF vars, peer
<1>4. Books
  BY DEF DriverInv, Books
<1>5. Books'
  BY <1>1, <1>2, <1>3, <1>4, DriverAssumption
     DEF Books, DriverTypeOK, InStep, Refusing, Dialled, Decided, CleanTeardown
<1>6. requireAuth => Approved'
  <2>1. requireAuth => Approved
    BY <1>2, ApprovedIfAsked DEF DriverInv
  <2> QED
    BY <1>1, <1>3, <2>1 DEF Approved
<1> QED
  <2>1. /\ answered' = answered /\ log' = log /\ state' = state
        /\ requireAuth' = requireAuth /\ stream' = stream /\ refused' = refused
        /\ dec' = dec
    BY <1>1, <1>3
  <2> QED
    BY <1>1, <1>2, <1>3, <1>5, <1>6, <2>1, NothingSaid

LEMMA DialFailsKeeps ==
  ASSUME DriverInv, DialFails
  PROVE  DriverInv'
<1>1. PICK r \in {Rep.CONN_REFUSED, Rep.TTL_EXPIRED, Rep.NET_UNREACHABLE,
                  Rep.HOST_UNREACHABLE} : connect_failed(r)
  BY DEF DialFails
<1>2. /\ pc = "Connect" /\ pc' = "next" /\ end' = end
      /\ answered' = answered + 1
      /\ UNCHANGED <<async, peerClosed, downstream, upstream, disconnects, refused>>
  BY DEF DialFails, Dialling, Continue, sockets
<1>3. /\ state = "connect_wait" /\ upstream = "none" /\ refused = None
      /\ dec.connectedBnd = None /\ answered = Len(log) - 1 /\ end # "close"
      /\ dec \in Decisions /\ Len(log) \in Nat
  BY <1>2, Undecided
<1>4. UNCHANGED <<stream, requireAuth, state, out, ev, log>>
        /\ dec' = [dec EXCEPT !.connectFailed = TRUE, !.rep = r]
  BY <1>1 DEF connect_failed, Decide, peer
<1>5. dec'.intercept = dec.intercept /\ dec'.connectedBnd = None
  BY <1>3, <1>4 DEF Decisions
<1>6. Session'
  BY <1>1, OwnCalls DEF DriverInv
<1>7. TypeOK'
  BY <1>6 DEF Session, Conversing
<1>8. Books
  BY DEF DriverInv, Books
<1>9. Books'
  BY <1>2, <1>3, <1>4, <1>5, <1>7, <1>8
     DEF Books, DriverTypeOK, InStep, Refusing, Dialled, Decided, CleanTeardown
<1>10. /\ log' = log /\ state' = state /\ requireAuth' = requireAuth /\ stream' = stream
       /\ upstream' = upstream /\ refused' = refused
  BY <1>2, <1>4
<1> QED
  BY <1>2, <1>5, <1>6, <1>9, <1>10, NothingOpened

LEMMA DriverStutter ==
  ASSUME DriverInv, UNCHANGED driverVars
  PROVE  DriverInv'
<1>1. UNCHANGED vars /\ UNCHANGED <<async, pc, peerClosed, downstream, upstream, end,
                                    answered, refused, disconnects>>
  BY DEF driverVars, driver
<1>2. /\ Session' /\ TypeOK'
      /\ UNCHANGED <<requireAuth, stream, state, out, dec, ev, log>>
  BY <1>1, SessionUntouched DEF vars, peer
<1>3. Books'
  BY <1>1, <1>2 DEF Books, DriverInv, DriverTypeOK, InStep, Refusing, Dialled, Decided,
     CleanTeardown
<1>4. /\ log' = log /\ state' = state /\ requireAuth' = requireAuth /\ stream' = stream
      /\ answered' = answered /\ upstream' = upstream /\ refused' = refused /\ dec' = dec
  BY <1>1, <1>2
<1> QED
  BY <1>2, <1>3, <1>4, NothingOpened

LEMMA DriverNextInv == DriverInv /\ [DriverNext]_driverVars => DriverInv'
<1> SUFFICES ASSUME DriverInv, [DriverNext]_driverVars PROVE DriverInv'
  OBVIOUS
<1>1. CASE Pull
  BY <1>1, PullKeeps
<1>2. CASE Recv
  BY <1>2, RecvKeeps
<1>3. CASE HookCalls
  BY <1>3, HookCallsKeep
<1>4. CASE AuthorizeRaises \/ OnConnectRaises
  BY <1>4, RaisesKeep
<1>5. CASE OnConnectIntercepted
  BY <1>5, InterceptKeeps
<1>6. CASE DialSucceeds
  BY <1>6, DialSucceedsKeeps
<1>7. CASE DialFails
  BY <1>7, DialFailsKeeps
<1>8. CASE DialUnnamed
  BY <1>8, DialUnnamedKeeps
<1>9. CASE \/ SendAll \/ RecvEOF \/ SocketError \/ AuthorizeReturns \/ OnConnectRejected
           \/ DialRaises \/ RelayWithoutUpstream \/ RelayEnds \/ Exit \/ Teardown
           \/ TeardownExits \/ PeerCloses
  BY <1>9, DriverStepKeeps
<1>10. CASE UNCHANGED driverVars
  BY <1>10, DriverStutter
<1> QED
  BY <1>1, <1>2, <1>3, <1>4, <1>5, <1>6, <1>7, <1>8, <1>9, <1>10
     DEF DriverNext, Handshake, HooksReturn, Dial

LEMMA AlwaysDriverInv == DriverSpec => []DriverInv
BY DriverInitInv, DriverNextInv, PTL DEF DriverSpec

-----------------------------------------------------------------------------
(* The theorems. *)

\* Type correctness of a connection, for both drivers: one event is carried out
\* at a time, and the loop of _handle is left exactly with a reason.
THEOREM DriverTypes == DriverSpec => []DriverTypeOK
<1>1. DriverInv => DriverTypeOK
  BY DEF DriverInv
<1> QED
  BY <1>1, AlwaysDriverInv, PTL

\* Authorization: _dial is reached, in either driver, only for a peer that every
\* hook let pass and that was told so if credentials are required.
THEOREM NoUpstreamUnauthorized == DriverSpec => []UpstreamOnlyIfAuthorized
<1>1. DriverInv => UpstreamOnlyIfAuthorized
  BY DEF DriverInv
<1> QED
  BY <1>1, AlwaysDriverInv, PTL

\* The reply the peer is sent agrees with what became of the upstream.
THEOREM VerdictIsTrue == DriverSpec => []TruthfulVerdict
<1>1. DriverInv => TruthfulVerdict
  BY DEF DriverInv
<1> QED
  BY <1>1, AlwaysDriverInv, PTL

\* What is said is what was told, as a sequence.
LEMMA CompleteIsSaid ==
  ASSUME TypeOK, NEW c, c \in Seq(Word), Told(log, c)
  PROVE  Said = c
<1>1. DOMAIN log = 1 .. Len(log) /\ DOMAIN c = 1 .. Len(c) /\ Len(log) = Len(c)
  BY DEF TypeOK, Told
<1>2. c = [i \in DOMAIN c |-> c[i]]
  OBVIOUS
<1>3. \A i \in DOMAIN log : Kind(log[i]) = c[i]
  BY <1>1 DEF Told
<1> QED
  BY <1>1, <1>2, <1>3 DEF Said

LEMMA ConversationsAreWords == Conversations \subseteq Seq(Word)
<1>1. /\ <<"failure">> \in Seq(Word)
      /\ <<"Connect", "failure">> \in Seq(Word)
      /\ <<"Connect", "success", "Relay">> \in Seq(Word)
      /\ <<"Connect", "Relay">> \in Seq(Word)
      /\ <<"no method">> \in Seq(Word)
      /\ <<"method", "Authorize", "refused">> \in Seq(Word)
      /\ <<"method", "Authorize", "accepted">> \in Seq(Word)
      /\ <<"method">> \in Seq(Word)
  BY DEF Word
<1>2. \A j, k \in Seq(Word) : j \o k \in Seq(Word)
  BY ConcatProperties
<1> QED
  BY <1>1, <1>2 DEF Conversations

\* Nobody is dropped in mid-conversation: when the loop of _handle ends on Close,
\* every event was carried out and the conversation was complete.
THEOREM NeverSilent == DriverSpec => []NoSilentClose
<1>1. ASSUME DriverInv PROVE NoSilentClose
  <2>1. SUFFICES ASSUME end = "close" PROVE NoSilentClose
    BY DEF NoSilentClose
  <2>2. answered = Len(log) /\ state = "closed" /\ TypeOK
    BY <1>1, <2>1 DEF DriverInv, InStep, DriverTypeOK
  <2>3. Complete \/ NotSpoken \/ TooLong
    BY <1>1, <2>2 DEF DriverInv, ClosedWell
  <2>4. Complete => Said \in Conversations
    BY <2>2, CompleteIsSaid, ConversationsAreWords DEF Complete
  <2>5. TooLong => Said = <<"method">>
    <3>1. <<"method">> \in Seq(Word)
      BY DEF Word
    <3> QED
      BY <2>2, <3>1, CompleteIsSaid DEF TooLong
  <2> QED
    BY <2>2, <2>3, <2>4, <2>5 DEF NoSilentClose, NotSpoken, TooLong
<1> QED
  BY <1>1, AlwaysDriverInv, PTL

\* The finally clause runs once, however the loop ended, and no socket is closed
\* before it or, unless it is itself cut short, left open behind it.
THEOREM TeardownIsClean == DriverSpec => []CleanTeardown
<1>1. DriverInv => CleanTeardown
  BY DEF DriverInv
<1> QED
  BY <1>1, AlwaysDriverInv, PTL

-----------------------------------------------------------------------------
(* What a conversation looks like, word by word. *)

\* How many words there are before the request.
Start == IF requireAuth THEN 3 ELSE 1

Script(c) ==
  \/ requireAuth /\ Len(c) = 1 /\ c[1] = "no method"
  \/ requireAuth /\ Len(c) = 3 /\ c[1] = "method" /\ c[2] = "Authorize" /\ c[3] = "refused"
  \/ /\ c[1] = "method"
     /\ requireAuth => c[2] = "Authorize" /\ c[3] = "accepted"
     /\ \/ Len(c) = Start + 1 /\ c[Start + 1] = "failure"
        \/ Len(c) = Start + 2 /\ c[Start + 1] = "Connect" /\ c[Start + 2] = "failure"
        \/ Len(c) = Start + 2 /\ c[Start + 1] = "Connect" /\ c[Start + 2] = "Relay"
        \/ /\ Len(c) = Start + 3 /\ c[Start + 1] = "Connect"
           /\ c[Start + 2] = "success" /\ c[Start + 3] = "Relay"

LEMMA ConversationScript ==
  ASSUME NEW c \in Conversations
  PROVE  Script(c)
<1>1. ASSUME NEW e, e \in {<<"failure">>, <<"Connect", "failure">>,
                           <<"Connect", "success", "Relay">>, <<"Connect", "Relay">>},
             c = Opened \o e
      PROVE  Script(c)
  <2>1. Opened \in Seq(Word) /\ e \in Seq(Word)
    <3>1. /\ <<"failure">> \in Seq(Word)
          /\ <<"Connect", "failure">> \in Seq(Word)
          /\ <<"Connect", "success", "Relay">> \in Seq(Word)
          /\ <<"Connect", "Relay">> \in Seq(Word)
      BY DEF Word
    <3> QED
      BY <1>1, <3>1, Words
  <2>2. /\ Len(c) = Len(Opened) + Len(e)
        /\ \A i \in 1 .. Len(Opened) + Len(e) :
             c[i] = IF i <= Len(Opened) THEN Opened[i] ELSE e[i - Len(Opened)]
    BY <1>1, <2>1, ConcatProperties
  <2>3. CASE requireAuth
    <3>1. Len(Opened) = 3 /\ Opened[1] = "method" /\ Opened[2] = "Authorize"
            /\ Opened[3] = "accepted" /\ Start = 3
      BY <2>3 DEF Opened, Start
    <3>2. Len(e) \in {1, 2, 3}
      BY <1>1
    <3>3. c[1] = "method" /\ c[2] = "Authorize" /\ c[3] = "accepted"
      BY <2>2, <3>1, <3>2
    <3>4. /\ c[4] = e[1]
          /\ Len(e) >= 2 => c[5] = e[2]
          /\ Len(e) = 3 => c[6] = e[3]
      BY <2>2, <3>1, <3>2
    <3>5. \/ Len(c) = 4 /\ c[4] = "failure"
          \/ Len(c) = 5 /\ c[4] = "Connect" /\ c[5] = "failure"
          \/ Len(c) = 5 /\ c[4] = "Connect" /\ c[5] = "Relay"
          \/ Len(c) = 6 /\ c[4] = "Connect" /\ c[5] = "success" /\ c[6] = "Relay"
      <4>1. CASE e = <<"failure">>
        BY <2>2, <3>1, <3>4, <4>1
      <4>2. CASE e = <<"Connect", "failure">>
        BY <2>2, <3>1, <3>4, <4>2
      <4>3. CASE e = <<"Connect", "Relay">>
        BY <2>2, <3>1, <3>4, <4>3
      <4>4. CASE e = <<"Connect", "success", "Relay">>
        BY <2>2, <3>1, <3>4, <4>4
      <4> QED
        BY <1>1, <4>1, <4>2, <4>3, <4>4
    <3>6. Start + 1 = 4 /\ Start + 2 = 5 /\ Start + 3 = 6
      BY <3>1
    <3> QED
      BY <2>3, <3>3, <3>5, <3>6, Zenon DEF Script
  <2>4. CASE ~requireAuth
    <3>1. Len(Opened) = 1 /\ Opened[1] = "method" /\ Start = 1
      BY <2>4 DEF Opened, Start
    <3>2. Len(e) \in {1, 2, 3}
      BY <1>1
    <3>3. c[1] = "method"
      BY <2>2, <3>1, <3>2
    <3>4. /\ c[2] = e[1]
          /\ Len(e) >= 2 => c[3] = e[2]
          /\ Len(e) = 3 => c[4] = e[3]
      BY <2>2, <3>1, <3>2
    <3>5. \/ Len(c) = 2 /\ c[2] = "failure"
          \/ Len(c) = 3 /\ c[2] = "Connect" /\ c[3] = "failure"
          \/ Len(c) = 3 /\ c[2] = "Connect" /\ c[3] = "Relay"
          \/ Len(c) = 4 /\ c[2] = "Connect" /\ c[3] = "success" /\ c[4] = "Relay"
      <4>1. CASE e = <<"failure">>
        BY <2>2, <3>1, <3>4, <4>1
      <4>2. CASE e = <<"Connect", "failure">>
        BY <2>2, <3>1, <3>4, <4>2
      <4>3. CASE e = <<"Connect", "Relay">>
        BY <2>2, <3>1, <3>4, <4>3
      <4>4. CASE e = <<"Connect", "success", "Relay">>
        BY <2>2, <3>1, <3>4, <4>4
      <4> QED
        BY <1>1, <4>1, <4>2, <4>3, <4>4
    <3>6. Start + 1 = 2 /\ Start + 2 = 3 /\ Start + 3 = 4
      BY <3>1
    <3> QED
      BY <2>4, <3>3, <3>5, <3>6, Zenon DEF Script
  <2> QED
    BY <2>3, <2>4
<1>2. CASE requireAuth /\ c \in {<<"no method">>, <<"method", "Authorize", "refused">>}
  <2>1. CASE c = <<"no method">>
    <3>1. Len(c) = 1 /\ c[1] = "no method"
      BY <2>1
    <3> QED
      BY <1>2, <3>1, Zenon DEF Script
  <2>2. CASE c = <<"method", "Authorize", "refused">>
    <3>1. Len(c) = 3 /\ c[1] = "method" /\ c[2] = "Authorize" /\ c[3] = "refused"
      BY <2>2
    <3> QED
      BY <1>2, <3>1, Zenon DEF Script
  <2> QED
    BY <1>2, <2>1, <2>2
<1>3. \/ \E e \in {<<"failure">>, <<"Connect", "failure">>,
                  <<"Connect", "success", "Relay">>, <<"Connect", "Relay">>} : c = Opened \o e
      \/ requireAuth /\ c \in {<<"no method">>, <<"method", "Authorize", "refused">>}
  BY Zenon DEF Conversations, Opened
<1>4. CASE \E e \in {<<"failure">>, <<"Connect", "failure">>,
                    <<"Connect", "success", "Relay">>, <<"Connect", "Relay">>} : c = Opened \o e
  <2>1. PICK e \in {<<"failure">>, <<"Connect", "failure">>,
                   <<"Connect", "success", "Relay">>, <<"Connect", "Relay">>} : c = Opened \o e
    BY <1>4
  <2> QED
    BY <1>1, <2>1
<1> QED
  BY <1>2, <1>3, <1>4, Zenon

\* The record follows a script.
Follows(c) ==
  /\ Script(c) /\ Len(c) \in Nat /\ Len(log) \in Nat /\ Len(log) <= Len(c)
  /\ DOMAIN log = 1 .. Len(log)
  /\ \A i \in 1 .. Len(log) : Kind(log[i]) = c[i]

LEMMA LogFollows ==
  ASSUME TypeOK, LegalConversation
  PROVE  \E c \in Conversations : Follows(c)
<1>1. PICK c \in Conversations : Len(log) <= Len(c) /\ \A i \in 1 .. Len(log) : Kind(log[i]) = c[i]
  BY DEF LegalConversation
<1>2. Len(c) \in Nat /\ Len(log) \in Nat /\ DOMAIN log = 1 .. Len(log)
  BY ConversationsAreWords, LenProperties DEF TypeOK
<1>3. Follows(c)
  BY <1>1, <1>2, ConversationScript, Zenon DEF Follows
<1> QED
  BY <1>3

\* A target is only asked for once the credentials were, if they have to be.
LEMMA AskedForAuth ==
  ASSUME TypeOK, LegalConversation, requireAuth,
         NEW i \in DOMAIN log, Kind(log[i]) \in {"Connect", "success", "Relay"}
  PROVE  2 \in DOMAIN log /\ Kind(log[2]) = "Authorize"
<1>1. PICK c \in Conversations : Follows(c)
  BY LogFollows
<1>2. /\ c[i] \in {"Connect", "success", "Relay"}
      /\ DOMAIN log = 1 .. Len(log) /\ \A j \in 1 .. Len(log) : Kind(log[j]) = c[j]
      /\ Script(c)
  BY <1>1, Zenon DEF Follows
<1>3. i \in Nat /\ Len(c) \in Nat /\ 1 <= i /\ i <= Len(c) /\ i <= Len(log) /\ Len(log) \in Nat
  BY <1>1 DEF Follows
<1>4. c[1] \in {"no method", "method"}
  BY <1>2, Zenon DEF Script
<1>5. /\ Len(c) = 1 \/ c[2] = "Authorize"
      /\ Len(c) = 1 \/ c[3] \in {"refused", "accepted"}
  BY <1>2, Zenon DEF Script
<1>6. i # 1
  BY <1>2, <1>4
<1>7. Len(c) # 1
  <2>1. ASSUME NEW n \in Nat, i <= n PROVE n # 1
    BY <1>3, <1>6, <2>1
  <2> QED
    BY <1>3, <2>1
<1>8. i # 2
  BY <1>2, <1>5, <1>7
<1>9. 2 \in 1 .. Len(log)
  BY <1>3, <1>6
<1>10. c[2] = "Authorize"
  BY <1>5, <1>7
<1>11. 2 \in DOMAIN log
  BY <1>2, <1>9
<1>12. Kind(log[2]) = c[2]
  BY <1>2, <1>9
<1> QED
  BY <1>10, <1>11, <1>12

-----------------------------------------------------------------------------
(* A peer that goes on speaking. *)

\* The record is only opened once a greeting is read.
Greeted == log # <<>> => HasGreeting(stream)

\* More bytes of the peer are under way; the server has not seen them yet.
PeerSays(data) ==
  /\ stream' = stream \o data
  /\ inflight' = inflight \o data
  /\ UNCHANGED <<requireAuth, buf, state, out, dec, ev, log, driver>>

LEMMA GreetingGrows ==
  ASSUME TypeOK, HasGreeting(stream), NEW data \in Bytes, PeerSays(data)
  PROVE  /\ AfterGreeting \in Bytes
         /\ AfterGreeting' = AfterGreeting \o data
         /\ HasGreeting(stream')
         /\ parse_greeting(stream') = parse_greeting(stream)
<1>1. stream \in Bytes /\ stream' = stream \o data
  BY DEF TypeOK, PeerSays
<1>2. 2 + stream[2] \in 0 .. Len(stream) /\ Len(stream) >= 2 /\ 2 + stream[2] \in Nat
  BY <1>1, GreetingFacts DEF HasGreeting
<1>3. (stream \o data)[2] = stream[2]
  BY <1>1, <1>2, GreetingStable
<1>4. Drop(stream, 2 + stream[2]) \in Bytes
  BY <1>1, <1>2, DropType
<1>5. Drop(stream, 2 + stream[2]) \o data = Drop(stream \o data, 2 + stream[2])
  BY <1>1, <1>2, DropOfConcat
<1>6. HasGreeting(stream \o data) /\ parse_greeting(stream \o data) = parse_greeting(stream)
  BY <1>1, GreetingKept
<1> QED
  BY <1>1, <1>3, <1>4, <1>5, <1>6 DEF AfterGreeting

LEMMA AuthGrows ==
  ASSUME TypeOK, HasGreeting(stream), NEW data \in Bytes, PeerSays(data),
         requireAuth => HasUserpass(AfterGreeting)
  PROVE  /\ AfterAuth \in Bytes
         /\ AfterAuth' = AfterAuth \o data
<1>1. /\ AfterGreeting \in Bytes /\ AfterGreeting' = AfterGreeting \o data
      /\ requireAuth' = requireAuth
  BY GreetingGrows DEF PeerSays
<1>2. CASE requireAuth
  <2> DEFINE b == AfterGreeting
             n == 3 + b[2] + b[3 + b[2]]
  <2>1. n \in 0 .. Len(b)
    BY <1>1, <1>2, UserpassFacts
  <2>2. (b \o data)[2] = b[2] /\ (b \o data)[3 + b[2]] = b[3 + b[2]]
    BY <1>1, <1>2, UserpassStable
  <2>3. AfterAuth = Drop(b, n) /\ AfterAuth' = Drop(b \o data, n)
    BY <1>1, <1>2, <2>2 DEF AfterAuth
  <2> HIDE DEF b, n
  <2>4. b \in Bytes
    BY <1>1 DEF b
  <2>5. n \in Nat
    BY <2>1
  <2> QED
    BY <2>1, <2>3, <2>4, <2>5, DropType, DropOfConcat
<1>3. CASE ~requireAuth
  BY <1>1, <1>3 DEF AfterAuth
<1> QED
  BY <1>2, <1>3

LEMMA RequestGrows ==
  ASSUME AfterAuth \in Bytes, NEW data \in Bytes, AfterAuth' = AfterAuth \o data,
         HasRequest(AfterAuth)
  PROVE  /\ AfterRequest' = AfterRequest \o data
         /\ HasRequest(AfterAuth') /\ parse_request(AfterAuth') = parse_request(AfterAuth)
<1> DEFINE b == AfterAuth
<1>1. HasSize(b) /\ Len(b) >= Size(b)
  BY SizeIsEnd DEF HasRequest
<1>2. Size(b) \in 0 .. Len(b)
  BY <1>1, SizeFacts
<1>3. Size(b \o data) = Size(b)
  BY <1>1, SizeStable
<1>4. Drop(b, Size(b)) \o data = Drop(b \o data, Size(b))
  BY <1>2, DropOfConcat
<1>5. HasRequest(b \o data) /\ parse_request(b \o data) = parse_request(b)
  BY RequestStable
<1> QED
  BY <1>3, <1>4, <1>5 DEF AfterRequest

LEMMA LastingKinds ==
  ASSUME NEW e \in LastingEvent
  PROVE  /\ e.type \in {"Send", "Authorize", "Connect", "Relay"}
         /\ e.type # "Send" => Kind(e) = e.type
         /\ e.type = "Send" =>
              Kind(e) \in {"method", "no method", "accepted", "refused", "success", "failure"}
<1>1. e.type \in {"Send", "Authorize", "Connect", "Relay"}
  BY DEF LastingEvent, SendEvent, RelayEvent
<1>2. SendKind(e.data) \in {"method", "no method", "accepted", "refused", "success", "failure"}
  BY DEF SendKind, MethodKind, AuthKind, VerdictKind
<1> QED
  BY <1>1, <1>2 DEF Kind

\* What the record says was consumed.
LEMMA Consumed ==
  ASSUME TypeOK, ParsedAsSent, NEW i \in DOMAIN log
  PROVE  /\ Kind(log[i]) = "Authorize" => HasUserpass(AfterGreeting)
         /\ Kind(log[i]) = "Connect" => HasRequest(AfterAuth)
<1>1. log[i] \in LastingEvent
  BY DEF TypeOK
<1>2. Kind(log[i]) \in {"Authorize", "Connect"} => log[i].type = Kind(log[i])
  BY <1>1, LastingKinds
<1> QED
  BY <1>2 DEF ParsedAsSent

\* In each state something was said.
LEMMA InStageSays ==
  ASSUME Conversing
  PROVE  /\ state \in {"auth", "auth_wait", "request", "connect_wait", "relay"} => log # <<>>
         /\ state \in {"auth_wait", "request", "connect_wait", "relay"} /\ requireAuth =>
              2 \in DOMAIN log /\ Kind(log[2]) = "Authorize"
         /\ state \in {"connect_wait", "relay"} =>
              \E i \in DOMAIN log : Kind(log[i]) = "Connect"
<1>1. TypeOK /\ DOMAIN log = 1 .. Len(log) /\ (log = <<>> => Len(log) = 0)
  BY DEF Conversing, TypeOK
<1>2. ASSUME NEW k \in Seq(Word), NEW m, Told(log, k), IsStart(m, k), m \in Seq(Word)
      PROVE  \A i \in 1 .. Len(m) : i \in DOMAIN log /\ Kind(log[i]) = m[i]
  <2>1. Len(log) = Len(k) /\ Len(m) <= Len(k) /\ Len(k) \in Nat /\ Len(m) \in Nat
    BY <1>2 DEF Told, IsStart
  <2>2. \A i \in 1 .. Len(m) : i \in 1 .. Len(k)
    BY <2>1
  <2> QED
    BY <1>1, <1>2, <2>1, <2>2 DEF Told, IsStart
<1>3. CASE state = "auth"
  <2>1. Len(log) = 1
    BY <1>3 DEF Conversing, InStage, Told
  <2> QED
    BY <1>1, <1>3, <2>1
<1>4. CASE state = "auth_wait"
  <2>1. Len(log) = 2 /\ Kind(log[2]) = "Authorize"
    <3>1. Told(log, <<"method", "Authorize">>)
      BY <1>4 DEF Conversing, InStage
    <3>2. Len(<<"method", "Authorize">>) = 2 /\ <<"method", "Authorize">>[2] = "Authorize"
      OBVIOUS
    <3> QED
      BY <3>1, <3>2 DEF Told
  <2> QED
    BY <1>1, <1>4, <2>1
<1>5. CASE state = "request"
  <2>1. Told(log, Opened)
    BY <1>5 DEF Conversing, InStage
  <2>2. /\ Len(Opened) \in {1, 3}
        /\ requireAuth => Len(Opened) = 3 /\ Opened[2] = "Authorize"
    BY DEF Opened
  <2>3. Len(log) = Len(Opened) /\ \A i \in 1 .. Len(log) : Kind(log[i]) = Opened[i]
    BY <2>1 DEF Told
  <2> QED
    BY <1>1, <1>5, <2>2, <2>3
<1>6. CASE state \in {"connect_wait", "relay"}
  <2> DEFINE granted == Append(Asked, "success")
             served  == Append(granted, "Relay")
             raw     == Append(Asked, "Relay")
  <2>1. /\ granted \in Seq(Word) /\ served \in Seq(Word) /\ raw \in Seq(Word)
        /\ IsStart(Asked, Asked) /\ IsStart(Asked, granted) /\ IsStart(Asked, raw)
        /\ IsStart(granted, served) /\ Asked \in Seq(Word)
    BY Words, StartOfAppend
  <2>2. IsStart(Asked, served)
    BY <2>1, StartOfStart
  <2>3. Told(log, Asked) \/ Told(log, granted) \/ Told(log, served) \/ Told(log, raw)
    BY <1>6 DEF Conversing, InStage
  <2> HIDE DEF granted, served, raw
  <2>4. \A i \in 1 .. Len(Asked) : i \in DOMAIN log /\ Kind(log[i]) = Asked[i]
    BY <1>2, <2>1, <2>2, <2>3
  <2>5. /\ Len(Asked) \in {2, 4} /\ Asked[Len(Asked)] = "Connect"
        /\ requireAuth => Asked[2] = "Authorize"
    BY DEF Asked, Opened
  <2>6. Len(Asked) \in DOMAIN log /\ Kind(log[Len(Asked)]) = "Connect"
    BY <2>4, <2>5
  <2>7. 2 \in DOMAIN log /\ (requireAuth => Kind(log[2]) = "Authorize")
    BY <2>4, <2>5
  <2> QED
    BY <1>1, <1>6, <2>6, <2>7
<1> QED
  BY <1>3, <1>4, <1>5, <1>6

LEMMA SessionGrows ==
  ASSUME Session, Greeted, NEW data \in Bytes, PeerSays(data)
  PROVE  Session' /\ Greeted'
<1>1. /\ TypeOK /\ Conversing /\ BytesAccounted /\ ParsedAsSent
      /\ buf \in Bytes /\ inflight \in Bytes /\ stream \in Bytes
  BY DEF Session, Conversing, Reassembled, TypeOK
<1>2. /\ stream' = stream \o data /\ inflight' = inflight \o data
      /\ UNCHANGED <<requireAuth, buf, state, out, dec, ev, log>>
  BY DEF PeerSays
<1>3. stream' \in Bytes /\ inflight' \in Bytes
  BY <1>1, <1>2, ConcatType
<1>4. TypeOK'
  BY <1>1, <1>2, <1>3 DEF TypeOK
<1>5. Conversing'
  BY <1>1, <1>2, <1>4, UntouchedStage DEF Conversing
<1>6. buf' \o inflight' = (buf \o inflight) \o data
  BY <1>1, <1>2, BytesAssociative
<1>7. log # <<>> => /\ AfterGreeting \in Bytes
                    /\ AfterGreeting' = AfterGreeting \o data
                    /\ HasGreeting(stream')
  BY <1>1, GreetingGrows DEF Greeted
<1>8. ASSUME log # <<>>, requireAuth => HasUserpass(AfterGreeting)
      PROVE  AfterAuth \in Bytes /\ AfterAuth' = AfterAuth \o data
  BY <1>1, <1>8, AuthGrows DEF Greeted
<1>9. BytesAccounted'
  <2>1. CASE state = "greeting"
    BY <1>1, <1>2, <1>6, <2>1 DEF BytesAccounted
  <2>2. CASE state = "auth"
    BY <1>1, <1>2, <1>6, <1>7, <2>2, InStageSays DEF BytesAccounted
  <2>3. CASE state \in {"auth_wait", "request"}
    <3>1. AfterAuth' = AfterAuth \o data
      BY <1>1, <1>8, <2>3, InStageSays, Consumed
    <3> QED
      BY <1>1, <1>2, <1>6, <2>3, <3>1 DEF BytesAccounted
  <2>4. CASE state \in {"connect_wait", "relay"}
    <3>1. AfterAuth \in Bytes /\ AfterAuth' = AfterAuth \o data
      BY <1>1, <1>8, <2>4, InStageSays, Consumed
    <3>2. HasRequest(AfterAuth)
      BY <1>1, <2>4, InStageSays, Consumed
    <3>3. AfterRequest' = AfterRequest \o data
      BY <3>1, <3>2, RequestGrows
    <3> QED
      BY <1>1, <1>2, <1>6, <2>4, <3>3 DEF BytesAccounted
  <2>5. CASE state = "closed"
    BY <1>2, <2>5 DEF BytesAccounted
  <2> QED
    BY <1>1, <2>1, <2>2, <2>3, <2>4, <2>5 DEF TypeOK, States
<1>10. ParsedAsSent'
  <2> SUFFICES ASSUME NEW i \in DOMAIN log
      PROVE  /\ log[i].type = "Authorize" =>
                  /\ HasUserpass(AfterGreeting')
                  /\ log[i] = Authorize(parse_userpass(AfterGreeting'))
             /\ log[i].type = "Connect" =>
                  /\ HasRequest(AfterAuth')
                  /\ log[i] = Connect(Cmd.CONNECT, parse_request(AfterAuth').dst)
    BY <1>2 DEF ParsedAsSent
  <2>1. log # <<>>
    OBVIOUS
  <2>2. ASSUME log[i].type = "Authorize"
        PROVE  /\ HasUserpass(AfterGreeting')
               /\ log[i] = Authorize(parse_userpass(AfterGreeting'))
    <3>1. HasUserpass(AfterGreeting) /\ log[i] = Authorize(parse_userpass(AfterGreeting))
      BY <1>1, <2>2 DEF ParsedAsSent
    <3> QED
      BY <1>7, <2>1, <3>1, UserpassStable
  <2>3. ASSUME log[i].type = "Connect"
        PROVE  /\ HasRequest(AfterAuth')
               /\ log[i] = Connect(Cmd.CONNECT, parse_request(AfterAuth').dst)
    <3>1. HasRequest(AfterAuth) /\ log[i] = Connect(Cmd.CONNECT, parse_request(AfterAuth).dst)
      BY <1>1, <2>3 DEF ParsedAsSent
    <3>2. Kind(log[i]) = "Connect"
      BY <2>3 DEF Kind
    <3>3. requireAuth => HasUserpass(AfterGreeting)
      <4>1. LegalConversation
        BY <1>1, StageLegal
      <4> QED
        BY <1>1, <3>2, <4>1, AskedForAuth, Consumed
    <3>4. AfterAuth \in Bytes /\ AfterAuth' = AfterAuth \o data
      BY <1>8, <2>1, <3>3
    <3>5. HasRequest(AfterAuth') /\ parse_request(AfterAuth') = parse_request(AfterAuth)
      BY <3>1, <3>4, RequestGrows
    <3> QED
      BY <3>1, <3>5
  <2> QED
    BY <2>2, <2>3
<1>11. Greeted'
  BY <1>2, <1>7 DEF Greeted
<1> QED
  BY <1>4, <1>5, <1>9, <1>10, <1>11 DEF Session, Reassembled

\* The server's half is as it was for a peer that has said all of it at once.
LEMMA PeerMaySayMore ==
  ASSUME DriverInv, Greeted, NEW data \in Bytes, PeerSays(data)
  PROVE  DriverInv' /\ Greeted'
<1>1. Session' /\ Greeted' /\ TypeOK'
  <2>1. Session' /\ Greeted'
    BY SessionGrows DEF DriverInv
  <2> QED
    BY <2>1 DEF Session, Conversing
<1>2. /\ stream' = stream \o data
      /\ UNCHANGED <<requireAuth, buf, state, out, dec, ev, log, async, pc, peerClosed,
                     downstream, upstream, end, answered, refused, disconnects>>
  BY DEF PeerSays, driver
<1>3. TypeOK /\ stream \in Bytes /\ Greeted
  BY DEF DriverInv, DriverTypeOK, TypeOK
<1>4. Complete => Complete'
  BY <1>2, PeerIsFixed DEF Complete, Told
<1>5. NotSpoken => NotSpoken'
  <2>1. SUFFICES ASSUME stream # <<>>
        PROVE  (stream \o data)[1] = stream[1] /\ stream \o data # <<>>
    BY <1>2 DEF NotSpoken
  <2>2. 1 \in Nat /\ 1 <= 1 /\ 1 <= Len(stream)
    BY <1>3, <2>1, EmptySeq, LenProperties DEF Bytes
  <2>3. (stream \o data)[1] = stream[1] /\ 1 <= Len(stream \o data)
    BY <1>3, <2>2, PrefixByte
  <2> QED
    BY <2>3, EmptySeq
<1>6. TooLong => TooLong'
  <2>1. SUFFICES ASSUME TooLong PROVE TooLong'
    OBVIOUS
  <2> DEFINE b == AfterGreeting
  <2>2. b \in Bytes /\ AfterGreeting' = b \o data
    <3>1. log # <<>>
      <4>1. Len(log) = 1
        BY <2>1 DEF TooLong, Told
      <4> QED
        BY <4>1, EmptySeq
    <3> QED
      BY <1>3, <3>1, GreetingGrows DEF Greeted
  <2>3. Len(b) > 3 + MaxByte + MaxByte /\ b[1] # AuthVer
    BY <2>1 DEF TooLong
  <2>4. Told(log, <<"method">>)' /\ requireAuth'
    BY <1>2, <2>1 DEF TooLong, Told
  <2>5. AfterGreeting' = b \o data
    BY <2>2
  <2> HIDE DEF b
  <2>6. /\ Len(b \o data) > 3 + MaxByte + MaxByte
        /\ 1 \in Nat /\ 1 <= 1 /\ 1 <= Len(b)
    <3>1. MaxByte \in Nat
      BY ByteFacts
    <3>2. Len(b \o data) = Len(b) + Len(data) /\ Len(b) \in Nat /\ Len(data) \in Nat
      BY <2>2, ConcatType
    <3> QED
      BY <2>3, <3>1, <3>2
  <2>7. (b \o data)[1] = b[1]
    BY <2>2, <2>6, PrefixByte
  <2>8. Len(AfterGreeting') > 3 + MaxByte + MaxByte /\ AfterGreeting'[1] # AuthVer
    BY <2>3, <2>5, <2>6, <2>7
  <2> QED
    BY <2>4, <2>8 DEF TooLong
<1>7. ClosedWell'
  BY <1>2, <1>4, <1>5, <1>6 DEF DriverInv, ClosedWell
<1>8. DriverTypeOK' /\ InStep' /\ Refusing' /\ Dialled' /\ Decided'
  BY <1>1, <1>2 DEF DriverInv, DriverTypeOK, InStep, Refusing, Dialled, Decided
<1>9. UpstreamOnlyIfAuthorized' /\ TruthfulVerdict' /\ CleanTeardown'
  BY <1>2 DEF DriverInv, UpstreamOnlyIfAuthorized, TruthfulVerdict, CleanTeardown, IsSaid
<1> QED
  BY <1>1, <1>7, <1>8, <1>9 DEF DriverInv

-----------------------------------------------------------------------------
(* What the peer is told, to the byte. *)

\* Every message there is.
Worded(e) ==
  e.type = "Send" =>
    \/ /\ requireAuth /\ OffersUserpass(stream)
       /\ e.data = method_selection(Method.USERPASS)
    \/ ~requireAuth /\ e.data = method_selection(Method.NO_AUTH)
    \/ /\ requireAuth /\ ~OffersUserpass(stream)
       /\ e.data = method_selection(Method.NO_ACCEPTABLE)
    \/ e.data \in {auth_reply(0), auth_reply(1)}
    \/ \E r \in Byte \ {Rep.SUCCEEDED} : e.data = reply(r, Unbound)
    \/ /\ dec.connectedBnd # None /\ Encodable(dec.connectedBnd.host)
       /\ e.data = reply(Rep.SUCCEEDED, dec.connectedBnd)

\* The address the peer is told is the dialled socket's or the target's.
Bound ==
  \/ dec.connectedBnd \in {None, LocalAddress}
  \/ \E i \in DOMAIN log : log[i].type = "Connect" /\ log[i].dst = dec.connectedBnd

Answering ==
  /\ Greeted
  /\ \A i \in DOMAIN log : Worded(log[i])
  /\ Bound
  /\ ~dec.relayRaw
  /\ \A i \in DOMAIN log : Kind(log[i]) = "Relay" => IsSaid("success")
  /\ pc \in {"Send", "Authorize", "Connect", "Relay"} =>
       log # <<>> /\ ev = log[Len(log)] /\ ev.type = pc

LEMMA GoFacts ==
  ASSUME NEW n, NEW s, NEW e, NEW events, NEW d, Go(n, s, events, d), Head(events) = e
  PROVE  /\ ev' = e /\ dec' = d /\ stream' = stream /\ requireAuth' = requireAuth
         /\ log' = IF Lasting(ev') THEN Append(log, ev') ELSE log
BY DEF Go, peer

\* The decisions a turn leaves alone.
LEMMA TurnDecides ==
  ASSUME TypeOK, next_event
  PROVE  /\ dec'.relayRaw = dec.relayRaw
         /\ \/ dec'.connectedBnd = dec.connectedBnd
            \/ state = "request" /\ dec'.connectedBnd = None
<1>1. dec \in Decisions
  BY DEF TypeOK
<1>2. dec' = dec \/ AuthMessage \/ RequestNotConnect \/ RequestConnect
  BY DEF next_event, PopQueued, GreetingStep, AuthStep, RequestStep, ConnectStep,
     EndStep, GreetingBadVersion, GreetingIncomplete, GreetingNoAuth, GreetingUserpass,
     GreetingNoAcceptable, AuthIncomplete, AuthUndecodable, AuthRejected, AuthAccepted,
     RequestUnsized, RequestBadAtyp, RequestIncomplete, RequestMalformed,
     RequestUndecodable, ConnectRaw, ConnectRejected, ConnectFailed, ConnectSucceeded,
     ConnectUnsendable, ConnectUndecided, RelayFinished, Closed, Await, Closing, Return, Go
<1>3. AuthMessage => dec' = [dec EXCEPT !.rejected = FALSE]
  BY DEF AuthMessage, Go
<1>4. RequestNotConnect => dec' = [dec EXCEPT !.cmd = parse_request(Sized).cmd]
  BY DEF RequestNotConnect, Go
<1>5. RequestConnect =>
        /\ dec' = [dec EXCEPT !.cmd = Cmd.CONNECT, !.target = parse_request(Sized).dst,
                              !.rejected = FALSE, !.connectedBnd = None,
                              !.connectFailed = FALSE]
        /\ state = "request"
  BY DEF RequestConnect, RequestParsed, RequestComplete, In, Go
<1> QED
  BY <1>1, <1>2, <1>3, <1>4, <1>5 DEF Decisions

\* What is buffered of a greeting is what the stream begins with.
LEMMA GreetingBuffered ==
  ASSUME Session, state = "greeting", HasGreeting(buf)
  PROVE  HasGreeting(stream) /\ (OffersUserpass(stream) <=> OffersUserpass(buf))
<1>1. buf \in Bytes /\ inflight \in Bytes /\ buf \o inflight = stream
  BY DEF Session, Conversing, TypeOK, Reassembled, BytesAccounted
<1>2. HasGreeting(buf \o inflight) /\ parse_greeting(buf \o inflight) = parse_greeting(buf)
  BY <1>1, GreetingKept
<1> QED
  BY <1>1, <1>2 DEF OffersUserpass

LEMMA GreetingWords ==
  ASSUME Session, GreetingStep
  PROVE  Worded(ev)' /\ (HasGreeting(stream) \/ log' = log)
<1>1. In("greeting") => state = "greeting"
  BY DEF In
<1>2. ASSUME NEW e \in {Close, NeedData}, NEW s, NEW d, Go(0, s, <<e>>, d)
      PROVE  ev'.type # "Send" /\ log' = log
  BY <1>2, GoFacts, HeadOfOne, TypesOf, LastingEvents
<1>3. CASE GreetingBadVersion
  BY <1>2, <1>3 DEF GreetingBadVersion, Closing, Worded
<1>4. CASE GreetingIncomplete
  BY <1>2, <1>4 DEF GreetingIncomplete, Await, Closing, Return, Worded
<1>5. CASE GreetingNoAuth
  <2> DEFINE e == Send(method_selection(Method.NO_AUTH))
  <2>1. Go(GreetingSize, "request", <<e>>, dec) /\ ~requireAuth /\ HasGreeting(buf)
          /\ state = "greeting"
    BY <1>1, <1>5 DEF GreetingNoAuth
  <2>2. ev' = e /\ requireAuth' = requireAuth
    <3> HIDE DEF e
    <3> QED
      BY <2>1, GoFacts, HeadOfOne
  <2>3. HasGreeting(stream)
    BY <2>1, GreetingBuffered
  <2> QED
    BY <2>1, <2>2, <2>3 DEF Worded, Send
<1>6. CASE GreetingUserpass
  <2> DEFINE e == Send(method_selection(Method.USERPASS))
  <2>1. Go(GreetingSize, "auth", <<e>>, dec) /\ requireAuth /\ HasGreeting(buf)
          /\ state = "greeting" /\ OffersUserpass(buf)
    BY <1>1, <1>6 DEF GreetingUserpass
  <2>2. ev' = e /\ requireAuth' = requireAuth /\ stream' = stream
    <3> HIDE DEF e
    <3> QED
      BY <2>1, GoFacts, HeadOfOne
  <2>3. HasGreeting(stream) /\ OffersUserpass(stream)
    BY <2>1, GreetingBuffered
  <2> QED
    BY <2>1, <2>2, <2>3 DEF Worded, Send
<1>7. CASE GreetingNoAcceptable
  <2> DEFINE e == Send(method_selection(Method.NO_ACCEPTABLE))
             es == <<e, Close>>
  <2>1. Go(GreetingSize, "closed", es, dec) /\ requireAuth /\ HasGreeting(buf)
          /\ state = "greeting" /\ ~OffersUserpass(buf)
    BY <1>1, <1>7 DEF GreetingNoAcceptable
  <2>2. Head(es) = e
    OBVIOUS
  <2>3. ev' = e /\ requireAuth' = requireAuth /\ stream' = stream
    <3> HIDE DEF e, es
    <3> QED
      BY <2>1, <2>2, GoFacts
  <2>4. HasGreeting(stream) /\ ~OffersUserpass(stream)
    BY <2>1, GreetingBuffered
  <2> QED
    BY <2>1, <2>3, <2>4 DEF Worded, Send
<1> QED
  BY <1>3, <1>4, <1>5, <1>6, <1>7 DEF GreetingStep

\* A turn that sends one of these, or nothing.
LEMMA SaidInFull ==
  ASSUME NEW n, NEW s, NEW e, NEW events, NEW d, Go(n, s, events, d), Head(events) = e,
         \/ e.type # "Send"
         \/ e \in {Send(auth_reply(0)), Send(auth_reply(1))}
         \/ \E r \in Byte \ {Rep.SUCCEEDED} : e = Send(reply(r, Unbound))
  PROVE  Worded(ev)'
<1>1. ev' = e
  BY GoFacts
<1> QED
  BY <1>1 DEF Worded, Send

LEMMA OtherWords ==
  ASSUME Session, AuthStep \/ RequestStep \/ ConnectStep \/ EndStep \/ PopQueued
  PROVE  Worded(ev)'
<1>1. dec.rep \in Byte \ {Rep.SUCCEEDED}
  BY DEF Session, Conversing, TypeOK, Decisions
<1>2. ASSUME NEW e \in {Close, NeedData, Raise}, NEW s, NEW d, Go(0, s, <<e>>, d)
      PROVE  Worded(ev)'
  BY <1>2, SaidInFull, HeadOfOne, TypesOf
<1>3. ASSUME NEW data, NEW n, NEW d, NEW r \in Byte \ {Rep.SUCCEEDED},
             data \in {auth_reply(0), auth_reply(1), reply(r, Unbound)},
             \/ Go(n, "closed", <<Send(data), Close>>, d)
             \/ \E s : Go(n, s, <<Send(data)>>, d)
      PROVE  Worded(ev)'
  <2>1. Head(<<Send(data), Close>>) = Send(data) /\ Head(<<Send(data)>>) = Send(data)
    OBVIOUS
  <2>2. \/ Send(data) \in {Send(auth_reply(0)), Send(auth_reply(1))}
        \/ \E x \in Byte \ {Rep.SUCCEEDED} : Send(data) = Send(reply(x, Unbound))
    BY <1>3
  <2> DEFINE e == Send(data)
             es == <<Send(data), Close>>
             fs == <<Send(data)>>
  <2>3. Head(es) = e /\ Head(fs) = e
    BY <2>1
  <2>4. Go(n, "closed", es, d) \/ \E s : Go(n, s, fs, d)
    BY <1>3
  <2>5. \/ e \in {Send(auth_reply(0)), Send(auth_reply(1))}
        \/ \E x \in Byte \ {Rep.SUCCEEDED} : e = Send(reply(x, Unbound))
    BY <2>2
  <2> HIDE DEF e, es, fs
  <2> QED
    BY <2>3, <2>4, <2>5, SaidInFull
<1>4. /\ Rep.ATYP_NOT_SUPPORTED \in Byte \ {Rep.SUCCEEDED}
      /\ Rep.GENERAL_FAILURE \in Byte \ {Rep.SUCCEEDED}
      /\ Rep.CMD_NOT_SUPPORTED \in Byte \ {Rep.SUCCEEDED}
  BY ByteFacts DEF Rep
<1>5. CASE AuthStep
  <2>1. CASE AuthIncomplete
    BY <1>2, <2>1 DEF AuthIncomplete, Await, Closing, Return
  <2>2. CASE AuthUndecodable
    BY <1>2, <2>2 DEF AuthUndecodable, Return
  <2>3. CASE AuthMessage
    <3> DEFINE e == Authorize(parse_userpass(buf))
    <3>1. \E n, s, d : Go(n, s, <<e>>, d)
      BY <2>3 DEF AuthMessage
    <3>2. e.type # "Send"
      BY TypesOf
    <3> HIDE DEF e
    <3> QED
      BY <3>1, <3>2, SaidInFull, HeadOfOne
  <2>4. CASE AuthRejected
    BY <1>3, <1>4, <2>4 DEF AuthRejected, Closing
  <2>5. CASE AuthAccepted
    BY <1>3, <1>4, <2>5 DEF AuthAccepted
  <2> QED
    BY <1>5, <2>1, <2>2, <2>3, <2>4, <2>5 DEF AuthStep
<1>6. CASE RequestStep
  <2>1. CASE RequestUnsized \/ RequestIncomplete \/ RequestUndecodable
    BY <1>2, <2>1 DEF RequestUnsized, RequestIncomplete, RequestUndecodable, Await, Closing,
       Return
  <2>2. CASE RequestBadAtyp
    BY <1>3, <1>4, <2>2 DEF RequestBadAtyp, Closing
  <2>3. CASE RequestMalformed
    BY <1>3, <1>4, <2>3 DEF RequestMalformed, Closing
  <2>4. CASE RequestNotConnect
    BY <1>3, <1>4, <2>4 DEF RequestNotConnect
  <2>5. CASE RequestConnect
    <3> DEFINE e == Connect(Cmd.CONNECT, parse_request(Sized).dst)
    <3>1. \E n, s, d : Go(n, s, <<e>>, d)
      BY <2>5 DEF RequestConnect
    <3>2. e.type # "Send"
      BY TypesOf
    <3> HIDE DEF e
    <3> QED
      BY <3>1, <3>2, SaidInFull, HeadOfOne
  <2> QED
    BY <1>6, <2>1, <2>2, <2>3, <2>4, <2>5 DEF RequestStep
<1>7. CASE ConnectStep
  <2>1. CASE ConnectRaw
    <3> DEFINE e == Relay(dec.target)
    <3>1. \E n, s, d : Go(n, s, <<e>>, d)
      BY <2>1 DEF ConnectRaw
    <3>2. e.type # "Send"
      BY TypesOf
    <3> HIDE DEF e
    <3> QED
      BY <3>1, <3>2, SaidInFull, HeadOfOne
  <2>2. CASE ConnectRejected
    BY <1>1, <1>3, <2>2 DEF ConnectRejected, Closing
  <2>3. CASE ConnectFailed
    BY <1>1, <1>3, <2>3 DEF ConnectFailed, Closing
  <2>4. CASE ConnectSucceeded
    <3> DEFINE e == Send(reply(Rep.SUCCEEDED, dec.connectedBnd))
               es == <<e, Relay(dec.target)>>
    <3>1. Go(0, "relay", es, dec) /\ dec.connectedBnd # None /\ Encodable(dec.connectedBnd.host)
      BY <2>4 DEF ConnectSucceeded
    <3>2. Head(es) = e
      OBVIOUS
    <3>3. ev' = e /\ dec' = dec
      <4> HIDE DEF e, es
      <4> QED
        BY <3>1, <3>2, GoFacts
    <3> QED
      BY <3>1, <3>3 DEF Worded, Send
  <2>5. CASE ConnectUnsendable \/ ConnectUndecided
    BY <1>2, <2>5 DEF ConnectUnsendable, ConnectUndecided, Return
  <2> QED
    BY <1>7, <2>1, <2>2, <2>3, <2>4, <2>5 DEF ConnectStep
<1>8. CASE EndStep
  BY <1>2, <1>8 DEF EndStep, RelayFinished, Closed, Closing, Return
<1>9. CASE PopQueued
  <2>1. out # <<>> /\ Go(0, state, out, dec)
    BY <1>9 DEF PopQueued
  <2>2. Head(out) = Close \/ \E dst : Head(out) = Relay(dst)
    <3>1. (\E dst \in Address : out = <<Relay(dst)>>) \/ out = <<Close>>
      BY <2>1 DEF Session, Conversing, TypeOK, States, InStage
    <3>2. \A x : Head(<<x>>) = x
      BY HeadOfOne
    <3> QED
      BY <3>1, <3>2
  <2>3. Head(out).type # "Send"
    BY <2>2, TypesOf
  <2> DEFINE e == Head(out)
  <2>4. Head(out) = e /\ e.type # "Send"
    BY <2>3
  <2> HIDE DEF e
  <2> QED
    BY <2>1, <2>4, SaidInFull
<1> QED
  BY <1>5, <1>6, <1>7, <1>8, <1>9

\* A turn as the peer sees it.
LEMMA TurnWords ==
  ASSUME Session, Greeted, next_event
  PROVE  /\ stream' = stream /\ requireAuth' = requireAuth
         /\ log' = IF Lasting(ev') THEN Append(log, ev') ELSE log
         /\ Worded(ev)' /\ Greeted'
<1>1. \E n, s, events, d : Go(n, s, events, d)
  BY DEF next_event, PopQueued, GreetingStep, AuthStep, RequestStep, ConnectStep,
     EndStep, GreetingBadVersion, GreetingIncomplete, GreetingNoAuth, GreetingUserpass,
     GreetingNoAcceptable, AuthIncomplete, AuthUndecodable, AuthMessage, AuthRejected,
     AuthAccepted, RequestUnsized, RequestBadAtyp, RequestIncomplete, RequestMalformed,
     RequestUndecodable, RequestNotConnect, RequestConnect, ConnectRaw, ConnectRejected,
     ConnectFailed, ConnectSucceeded, ConnectUnsendable, ConnectUndecided, RelayFinished,
     Closed, Await, Closing, Return
<1>2. /\ stream' = stream /\ requireAuth' = requireAuth
      /\ log' = IF Lasting(ev') THEN Append(log, ev') ELSE log
  BY <1>1, GoFacts
<1>3. Worded(ev)'
  BY GreetingWords, OtherWords DEF next_event
<1>4. HasGreeting(stream) \/ log' = log \/ log # <<>>
  <2>1. CASE GreetingStep
    BY <2>1, GreetingWords
  <2>2. CASE AuthStep \/ RequestStep \/ ConnectStep
    <3>1. state \in {"auth", "auth_wait", "request", "connect_wait"}
      BY <2>2 DEF AuthStep, RequestStep, ConnectStep, AuthIncomplete, AuthUndecodable,
         AuthMessage, AuthRejected, AuthAccepted, RequestUnsized, RequestBadAtyp,
         RequestIncomplete, RequestMalformed, RequestUndecodable, RequestNotConnect,
         RequestConnect, RequestParsed, RequestComplete, ConnectRaw, ConnectRejected,
         ConnectFailed, ConnectSucceeded, ConnectUnsendable, ConnectUndecided, In
    <3> QED
      BY <3>1, InStageSays DEF Session
  <2>3. CASE EndStep
    <3>1. \E s : Go(0, s, <<Close>>, dec)
      BY <2>3 DEF EndStep, RelayFinished, Closed, Closing, Return
    <3>2. ev' = Close
      BY <3>1, GoFacts, HeadOfOne
    <3> QED
      BY <1>2, <3>2, LastingEvents
  <2>4. CASE PopQueued
    <3>1. out # <<>> /\ Go(0, state, out, dec)
      BY <2>4 DEF PopQueued
    <3>2. state = "relay" \/ out = <<Close>>
      BY <3>1 DEF Session, Conversing, TypeOK, States, InStage
    <3>3. ASSUME out = <<Close>> PROVE ev' = Close
      BY <3>1, <3>3, GoFacts, HeadOfOne
    <3> QED
      BY <1>2, <3>2, <3>3, LastingEvents, InStageSays DEF Session
  <2> QED
    BY <2>1, <2>2, <2>3, <2>4 DEF next_event
<1> QED
  BY <1>2, <1>3, <1>4 DEF Greeted

\* A turn adds one word to the record or none.
LEMMA TurnSays ==
  ASSUME Turn, Pull
  PROVE  \/ log' = log /\ pc' \in {"finally", "NeedData"}
         \/ /\ log' = Append(log, ev') /\ pc' = ev'.type
            /\ Kind(ev') = "Relay" => HandsOver
<1> DEFINE Goal == \/ log' = log /\ pc' \in {"finally", "NeedData"}
                   \/ /\ log' = Append(log, ev') /\ pc' = ev'.type
                      /\ Kind(ev') = "Relay" => HandsOver
<1>1. ASSUME NEW type \in {"Send", "Authorize", "Connect", "Relay"}, NEW word, NEW s,
             Says(type, word, s), word # "Relay" \/ HandsOver
      PROVE  Goal
  <2>1. pc' = type
    BY <1>1, WhereTo
  <2> QED
    BY <1>1, <2>1 DEF Says
<1>2. CASE Waits \/ Fails \/ Closes
  BY <1>2, WhereTo DEF Waits, Fails, Closes, Silent
<1>3. CASE Greets
  BY <1>1, <1>3 DEF Greets
<1>4. CASE SaysLast
  BY <1>1, <1>4 DEF SaysLast
<1>5. CASE AsksAuth
  BY <1>1, <1>5 DEF AsksAuth
<1>6. CASE Accepts
  BY <1>1, <1>6 DEF Accepts
<1>7. CASE AsksConnect
  BY <1>1, <1>7 DEF AsksConnect
<1>8. CASE Succeeds
  BY <1>1, <1>8 DEF Succeeds
<1>9. CASE HandsOver
  BY <1>1, <1>9 DEF HandsOver
<1> QED
  BY <1>2, <1>3, <1>4, <1>5, <1>6, <1>7, <1>8, <1>9 DEF Turn

\* A reply that says `success' counts as such in the record.
LEMMA SuccessIsSaid ==
  ASSUME TypeOK, NEW i \in DOMAIN log, log[i].type = "Send",
         dec.connectedBnd # None, Encodable(dec.connectedBnd.host),
         log[i].data = reply(Rep.SUCCEEDED, dec.connectedBnd)
  PROVE  IsSaid("success")
<1>1. dec.connectedBnd \in Address /\ Rep.SUCCEEDED \in Byte
  BY ByteFacts DEF TypeOK, Decisions, Rep
<1>2. Kind(Send(reply(Rep.SUCCEEDED, dec.connectedBnd))) = "success"
  BY <1>1, ReplyKind
<1>3. Kind(log[i]) = "success"
  BY <1>2, KindOfSend DEF Kind
<1> QED
  BY <1>3 DEF IsSaid

LEMMA NoneBeforeRequest ==
  ASSUME Session, state = "request"
  PROVE  ~IsSaid("success")
<1>1. Told(log, Opened) /\ DOMAIN log = 1 .. Len(log)
  BY DEF Session, Conversing, TypeOK, InStage
<1>2. \A i \in 1 .. Len(Opened) : Opened[i] # "success"
  BY DEF Opened
<1> QED
  BY <1>1, <1>2 DEF IsSaid, Told

\* The words of the record stay what they are.
LEMMA WordKept ==
  ASSUME TypeOK, NEW i \in DOMAIN log, Worded(log[i]), stream' = stream,
         requireAuth' = requireAuth, log'[i] = log[i],
         dec'.connectedBnd = dec.connectedBnd \/ ~IsSaid("success")
  PROVE  Worded(log[i])'
<1>1. CASE dec'.connectedBnd = dec.connectedBnd
  BY <1>1 DEF Worded
<1>2. CASE ~IsSaid("success")
  BY <1>2, SuccessIsSaid DEF Worded
<1> QED
  BY <1>1, <1>2

LEMMA OneMore ==
  ASSUME NEW l \in Seq(LastingEvent), NEW e
  PROVE  LET m == Append(l, e)
         IN  /\ Len(m) = Len(l) + 1 /\ Len(l) \in Nat
             /\ DOMAIN l = 1 .. Len(l) /\ DOMAIN m = 1 .. Len(l) + 1
             /\ \A i \in 1 .. Len(l) : m[i] = l[i]
             /\ m[Len(l) + 1] = e
             /\ m # <<>> /\ m # l
<1> DEFINE m == Append(l, e)
<1>1. /\ Len(m) = Len(l) + 1 /\ Len(l) \in Nat
      /\ DOMAIN l = 1 .. Len(l) /\ DOMAIN m = 1 .. Len(l) + 1
      /\ \A i \in 1 .. Len(l) : m[i] = l[i]
      /\ m[Len(l) + 1] = e
  OBVIOUS
<1>2. Len(l) + 1 # Len(l) /\ Len(l) + 1 # 0
  <2>1. \A n \in Nat : n + 1 # n /\ n + 1 # 0
    OBVIOUS
  <2> QED
    BY <1>1, <2>1, Zenon
<1>3. m # <<>> /\ m # l
  <2>1. Len(<<>>) = 0
    OBVIOUS
  <2>2. Len(m) # Len(<<>>) /\ Len(m) # Len(l)
    BY <1>1, <1>2, <2>1
  <2> QED
    BY <2>2, Zenon
<1>4. Len(m) = Len(l) + 1 /\ DOMAIN m = 1 .. Len(l) + 1 /\ m[Len(l) + 1] = e
        /\ \A i \in 1 .. Len(l) : m[i] = l[i]
  BY <1>1
<1> HIDE DEF m
<1>5. /\ Len(m) = Len(l) + 1 /\ Len(l) \in Nat
      /\ DOMAIN l = 1 .. Len(l) /\ DOMAIN m = 1 .. Len(l) + 1
      /\ \A i \in 1 .. Len(l) : m[i] = l[i]
      /\ m[Len(l) + 1] = e /\ m # <<>> /\ m # l
  BY <1>1, <1>3, <1>4
<1> QED
  BY <1>5, Zenon DEF m

LEMMA PullAnswers ==
  ASSUME DriverInv, Answering, Pull
  PROVE  Answering'
<1>1. /\ Turn /\ TypeOK /\ TypeOK' /\ Session /\ InStep /\ pc = "next" /\ next_event
      /\ stream' = stream /\ requireAuth' = requireAuth
      /\ log \in Seq(LastingEvent) /\ DOMAIN log = 1 .. Len(log) /\ Len(log) \in Nat
  BY PullFacts DEF DriverInv, Pull, TypeOK
<1>2. /\ log' = IF Lasting(ev') THEN Append(log, ev') ELSE log
      /\ Worded(ev)' /\ Greeted'
  BY <1>1, TurnWords DEF Answering
<1>3. /\ ~dec'.relayRaw
      /\ dec'.connectedBnd = dec.connectedBnd \/ (state = "request" /\ dec'.connectedBnd = None)
  BY <1>1, TurnDecides DEF Answering
<1>4. log' = log \/ log' = Append(log, ev')
  BY <1>2
<1>5. /\ \A i \in DOMAIN log : i \in DOMAIN log' /\ log'[i] = log[i]
      /\ \A i \in DOMAIN log' :
           i \in DOMAIN log \/ (i = Len(log) + 1 /\ log' = Append(log, ev'))
      /\ log' = Append(log, ev') =>
           Len(log') = Len(log) + 1 /\ log'[Len(log')] = ev' /\ log' # <<>>
  <2>1. CASE log' = log
    <3>1. log # Append(log, ev')
      BY <1>1, OneMore
    <3>2. DOMAIN log' = DOMAIN log /\ log' # Append(log, ev')
      BY <2>1, <3>1
    <3> QED
      BY <2>1, <3>2, Zenon
  <2>2. CASE log' = Append(log, ev')
    <3>1. /\ Len(log') = Len(log) + 1 /\ DOMAIN log' = 1 .. Len(log) + 1
          /\ \A i \in 1 .. Len(log) : log'[i] = log[i]
          /\ log'[Len(log) + 1] = ev'
      BY <1>1, <2>2, OneMore
    <3>2. log' # <<>>
      BY <1>1, <2>2, OneMore
    <3>3. \A i \in 1 .. Len(log) + 1 : i \in 1 .. Len(log) \/ i = Len(log) + 1
      <4>1. \A n \in Nat : \A i \in 1 .. n + 1 : i \in 1 .. n \/ i = n + 1
        OBVIOUS
      <4> QED
        BY <1>1, <4>1
    <3>4. \A i \in 1 .. Len(log) : i \in 1 .. Len(log) + 1
      BY <1>1
    <3> QED
      BY <1>1, <2>2, <3>1, <3>2, <3>3, <3>4, Zenon
  <2> QED
    BY <1>4, <2>1, <2>2
<1>6. dec'.connectedBnd = dec.connectedBnd \/ ~IsSaid("success")
  BY <1>1, <1>3, NoneBeforeRequest
<1>7. \A i \in DOMAIN log' : Worded(log[i])'
  <2> SUFFICES ASSUME NEW i \in DOMAIN log'
      PROVE  Worded(log[i])'
    OBVIOUS
  <2>1. CASE i \in DOMAIN log
    BY <1>1, <1>5, <1>6, <2>1, WordKept DEF Answering
  <2>2. CASE i = Len(log) + 1 /\ log' = Append(log, ev')
    <3>1. log'[i] = ev'
      BY <1>5, <2>2
    <3> QED
      BY <1>2, <3>1 DEF Worded
  <2> QED
    BY <1>5, <2>1, <2>2
<1>8. Bound'
  BY <1>3, <1>5 DEF Answering, Bound
<1>9. IsSaid("success") => IsSaid("success")'
  BY <1>5 DEF IsSaid
<1>10. ASSUME NEW i \in DOMAIN log', Kind(log'[i]) = "Relay"
       PROVE  IsSaid("success")'
  <2>1. CASE i \in DOMAIN log
    BY <1>5, <1>9, <1>10, <2>1 DEF Answering
  <2>2. CASE i = Len(log) + 1 /\ log' = Append(log, ev')
    <3>1. Kind(ev') = "Relay"
      BY <1>5, <1>10, <2>2
    <3>2. HandsOver
      <4>1. log' # log
        BY <1>1, <2>2, OneMore
      <4> QED
        BY <1>1, <3>1, <4>1, TurnSays
    <3>3. state = "relay" /\ out # <<>>
      BY <1>1, <3>2 DEF HandsOver, InStep, Answering
    <3>4. Told(log, Append(Asked, "success"))
      BY <1>1, <3>3 DEF Session, Conversing, InStage
    <3>5. Len(Append(Asked, "success")) \in 1 .. Len(Append(Asked, "success"))
             /\ Append(Asked, "success")[Len(Append(Asked, "success"))] = "success"
      <4>1. Asked \in Seq(Word) /\ Len(Asked) \in Nat
        BY Words, LenProperties
      <4> QED
        BY <4>1, AppendProperties
    <3>6. IsSaid("success")
      BY <1>1, <3>4, <3>5 DEF Told, IsSaid
    <3> QED
      BY <1>9, <3>6
  <2> QED
    BY <1>5, <2>1, <2>2
<1>11. pc' \in {"Send", "Authorize", "Connect", "Relay"} =>
         log' # <<>> /\ ev' = log'[Len(log')] /\ ev'.type = pc'
  BY <1>1, <1>5, TurnSays
<1> QED
  BY <1>2, <1>3, <1>7, <1>8, <1>10, <1>11 DEF Answering

\* Any other step of the driver.
LEMMA AnsweringStays ==
  ASSUME DriverInv, Answering, stream' = stream, requireAuth' = requireAuth,
         ev' = ev, log' = log, ~dec'.relayRaw,
         pc' = pc \/ pc' \notin {"Send", "Authorize", "Connect", "Relay"},
         \/ dec'.connectedBnd = dec.connectedBnd
         \/ state = "connect_wait" /\ dec'.connectedBnd = LocalAddress
         \/ state = "connect_wait" /\ pc = "Connect" /\ dec'.connectedBnd = ev.dst
  PROVE  Answering'
<1>1. TypeOK /\ Session
  BY DEF DriverInv, Session, Conversing
<1>2. dec'.connectedBnd = dec.connectedBnd \/ ~IsSaid("success")
  BY <1>1, NoVerdictYet
<1>3. \A i \in DOMAIN log' : Worded(log[i])'
  BY <1>1, <1>2, WordKept DEF Answering
<1>4. Bound'
  <2>1. CASE dec'.connectedBnd = dec.connectedBnd
    BY <2>1 DEF Answering, Bound
  <2>2. CASE dec'.connectedBnd = LocalAddress
    BY <2>2 DEF Bound
  <2>3. CASE pc = "Connect" /\ dec'.connectedBnd = ev.dst
    <3>1. log # <<>> /\ ev = log[Len(log)] /\ ev.type = "Connect"
      BY <2>3 DEF Answering
    <3>2. Len(log) \in DOMAIN log
      BY <1>1, <3>1 DEF TypeOK
    <3> QED
      BY <2>3, <3>1, <3>2 DEF Bound
  <2> QED
    BY <2>1, <2>2, <2>3
<1> QED
  BY <1>3, <1>4 DEF Answering, Greeted, IsSaid

LEMMA OthersAnswer ==
  ASSUME DriverInv, Answering,
         \/ SendAll \/ Recv \/ RecvEOF \/ SocketError \/ Hooks
         \/ AuthorizeReturns \/ AuthorizeRaises \/ OnConnectRaises \/ OnConnectRejected
         \/ OnConnectIntercepted \/ Dial \/ RelayEnds \/ Exit \/ Teardown \/ PeerCloses
         \/ UNCHANGED driverVars
  PROVE  Answering'
<1>1. dec \in Decisions /\ ~dec.relayRaw
  BY DEF DriverInv, Session, Conversing, TypeOK, Answering
<1>2. CASE SendAll \/ RecvEOF \/ SocketError \/ AuthorizeReturns \/ OnConnectRejected
             \/ DialRaises \/ DialUnnamed \/ RelayEnds \/ Exit \/ Teardown \/ PeerCloses
             \/ UNCHANGED driverVars
  BY <1>1, <1>2, AnsweringStays DEF SendAll, RecvEOF, SocketError, AuthorizeReturns,
     OnConnectRejected, DialRaises, DialUnnamed, RelayEnds, Exit, Teardown, PeerCloses, driverVars, vars,
     peer, driver, Leave, Continue
<1>3. CASE Recv
  BY <1>1, <1>3, AnsweringStays DEF Recv, receive, Continue
<1>4. CASE Hooks
  <2>1. /\ UNCHANGED <<stream, requireAuth, ev, log, pc>>
        /\ dec'.connectedBnd = dec.connectedBnd
    BY <1>1, <1>4 DEF Hooks, HookCalls, HookCall, ok, reject, set_target, pipe, relay_raw, intercept,
       Decide, driver, peer, Decisions
  <2> QED
    BY <1>4, <2>1, AnsweringStays DEF Hooks
<1>5. CASE AuthorizeRaises \/ OnConnectRaises
  <2>1. /\ UNCHANGED <<stream, requireAuth, ev, log>>
        /\ pc' = "next" /\ dec'.relayRaw = dec.relayRaw
        /\ dec'.connectedBnd = dec.connectedBnd
    BY <1>1, <1>5 DEF AuthorizeRaises, OnConnectRaises, reject, Decide, Continue, peer, Decisions
  <2> QED
    BY <1>1, <2>1, AnsweringStays
<1>6. CASE OnConnectIntercepted \/ DialSucceeds
  <2>1. pc = "Connect" /\ state = "connect_wait"
    BY <1>6, Undecided DEF OnConnectIntercepted, DialSucceeds, Dialling
  <2>2. /\ UNCHANGED <<stream, requireAuth, ev, log>>
        /\ pc' = "next" /\ dec'.relayRaw = dec.relayRaw
        /\ dec'.connectedBnd \in {ev.dst, LocalAddress}
    BY <1>1, <1>6 DEF OnConnectIntercepted, DialSucceeds, connected, Decide, Continue, peer,
       Decisions
  <2> QED
    BY <1>1, <2>1, <2>2, AnsweringStays
<1>7. CASE DialFails
  <2>1. /\ UNCHANGED <<stream, requireAuth, ev, log>>
        /\ pc' = "next" /\ dec'.relayRaw = dec.relayRaw
        /\ dec'.connectedBnd = dec.connectedBnd
    BY <1>1, <1>7 DEF DialFails, connect_failed, Decide, Continue, peer, Decisions
  <2> QED
    BY <1>1, <2>1, AnsweringStays
<1> QED
  BY <1>2, <1>3, <1>4, <1>5, <1>6, <1>7 DEF Dial

LEMMA PeerHears ==
  ASSUME DriverInv, Answering, NEW data \in Bytes, PeerSays(data)
  PROVE  Answering'
<1>1. Greeted'
  BY PeerMaySayMore DEF Answering
<1>2. UNCHANGED <<requireAuth, dec, ev, log, pc>>
  BY DEF PeerSays, driver
<1>3. log # <<>> => parse_greeting(stream') = parse_greeting(stream)
  BY GreetingGrows DEF Answering, Greeted, DriverInv, DriverTypeOK
<1>4. log # <<>> => (OffersUserpass(stream)' <=> OffersUserpass(stream))
  BY <1>3 DEF OffersUserpass
<1>5. \A i \in DOMAIN log' : Worded(log[i])'
  <2> SUFFICES ASSUME NEW i \in DOMAIN log
      PROVE  Worded(log[i])'
    BY <1>2
  <2>1. log # <<>>
    BY DEF DriverInv, DriverTypeOK, TypeOK
  <2> QED
    BY <1>2, <1>4, <2>1 DEF Answering, Worded
<1> QED
  BY <1>1, <1>2, <1>5 DEF Answering, Bound, IsSaid

LEMMA InitAnswers == DriverInit => Answering
<1> SUFFICES ASSUME DriverInit PROVE Answering
  OBVIOUS
<1>1. log = <<>> /\ dec.relayRaw = FALSE /\ dec.connectedBnd = None /\ pc = "next"
  BY DEF DriverInit, Init, FreshDecisions
<1>2. DOMAIN log = {}
  BY <1>1
<1> QED
  BY <1>1, <1>2 DEF Answering, Greeted, Bound

-----------------------------------------------------------------------------
(* The two ends. *)

\* The client's lemmas, for this client.
CP == INSTANCE ClientProofs WITH
  Streams <- {<<>>}, MaxConnects <- 2, staged <- attempt = 2,
  stream <- cStream, inflight <- cInflight, auth <- cAuth, buf <- cBuf,
  state <- cState, reply_ <- cReply, feeding <- cFeeding, result <- cResult, pc <- cpc

\* Both ends use the same codec.
LEMMA SameCodec ==
  /\ CP!Byte = Byte /\ CP!Bytes = Bytes /\ CP!Address = Address
  /\ CP!LiteralHost = LiteralHost
  /\ CP!Method = Method /\ CP!Rep = Rep /\ CP!Cmd = Cmd /\ CP!Ver = Ver
  /\ CP!AuthVer = AuthVer /\ CP!Domain = Domain
BY DEF CP!Byte, CP!Bytes, CP!Address, CP!LiteralHost, CP!Method, CP!Rep, CP!Cmd, CP!Ver,
   CP!AuthVer, CP!Domain, CP!Host, CP!Port, CP!Atyps, CP!IPv4, CP!IPv6,
   Byte, Bytes, Address, LiteralHost, Method, Rep, Cmd, Ver,
   AuthVer, Domain, Host, Port, Atyps, IPv4, IPv6

LEMMA SameMessages ==
  /\ \A m : CP!method_selection(m) = method_selection(m)
  /\ \A x : CP!auth_reply(x) = auth_reply(x)
  /\ \A r, a : CP!reply(r, a) = reply(r, a)
  /\ \A b, n : CP!Drop(b, n) = Drop(b, n)
  /\ \A h : CP!Encodable(h) <=> Encodable(h)
  /\ \A h : CP!Canonical(h) <=> Canonical(h)
BY DEF CP!method_selection, CP!auth_reply, CP!reply, CP!Drop, CP!Encodable, CP!Canonical,
   CP!encode_address, CP!push_port, CP!Ver, CP!AuthVer, CP!Domain, CP!IPv4, CP!IPv6,
   method_selection, auth_reply, reply, Drop, Encodable, Canonical,
   encode_address, push_port, Ver, AuthVer, Domain, IPv4, IPv6

LEMMA Assumed == CP!CodecAssumption /\ CP!ClientAssumption /\ CP!ConnectAssumption
<1>1. CP!CodecAssumption
  BY CodecAssumption, SameCodec DEF CP!CodecAssumption
<1>2. CP!ClientAssumption
  <2>1. <<>> \in Bytes
    BY DEF Bytes
  <2> QED
    BY E2EAssumption, SameCodec, <2>1 DEF CP!ClientAssumption
<1>3. CP!ConnectAssumption
  BY E2EAssumption, SameCodec, SameMessages DEF CP!ConnectAssumption
<1> QED
  BY <1>1, <1>2, <1>3

LEMMA SameCall == (C!connect => CP!connect) /\ (C!close => CP!close) /\ (C!Expire => CP!Expire)
BY DEF C!connect, C!close, C!Expire, C!OptimisticStep, C!StagedStep, C!SendPipeline,
   C!SendGreeting, C!ChosenUserpass, C!ChosenNoAuth, C!StatusAccepted, C!Chose, C!Say,
   C!Feed, C!FeedTurns, C!FeedReplied, C!FeedRaised, C!Recv, C!ChosenOther, C!StatusRefused,
   C!LoggedIn, C!ReplyRead, C!Parsed, C!ReplyRefused, C!Refusable, C!Whole, C!Wanted,
   C!ReplySize, C!ProxyGone, C!TimesOut, C!Waiting, C!Hungry, C!Short, C!Reading, C!Fail,
   C!Conclude, C!session, C!object, C!clock, C!Turn, C!MethodShort, C!MethodMalformed,
   C!MethodOther, C!MethodChosen, C!AuthShort, C!AuthMalformed, C!AuthRefused,
   C!AuthAccepted, C!ReplyUnknownAtyp, C!ReplyShort, C!ReplyMalformed, C!ReplyUndecodable,
   C!ReplyParsed, C!Done, C!Leave, C!Finish, C!Advance, C!feed, C!In, C!optimistic_pipeline,
   C!Login, C!Ask, C!Offered, C!method, C!Method, C!Rep, C!Cmd, C!client_greeting,
   C!userpass_auth, C!request, C!encode_address, C!push_port, C!Ver, C!AuthVer, C!Domain,
   C!IPv4, C!IPv6, C!Atyps, C!HasMethodSelection, C!parse_method_selection, C!HasAuthReply,
   C!parse_auth_reply, C!UnknownAtyp, C!Arrived, C!Sized, C!HasSize, C!Size, C!HasReply,
   C!parse_reply, C!HasAddress, C!AddrLast, C!AddrFirst, C!RawAddress, C!decode_address,
   C!HostText, C!AddressRaises, C!Drop, CP!connect, CP!close, CP!Expire, CP!OptimisticStep,
   CP!StagedStep, CP!SendPipeline, CP!SendGreeting, CP!ChosenUserpass, CP!ChosenNoAuth,
   CP!StatusAccepted, CP!Chose, CP!Say, CP!Feed, CP!FeedTurns, CP!FeedReplied, CP!FeedRaised,
   CP!Recv, CP!ChosenOther, CP!StatusRefused, CP!LoggedIn, CP!ReplyRead, CP!Parsed,
   CP!ReplyRefused, CP!Refusable, CP!Whole, CP!Wanted, CP!ReplySize, CP!ProxyGone,
   CP!TimesOut, CP!Waiting, CP!Hungry, CP!Short, CP!Reading, CP!Fail, CP!Conclude,
   CP!session, CP!object, CP!clock, CP!Turn, CP!MethodShort, CP!MethodMalformed,
   CP!MethodOther, CP!MethodChosen, CP!AuthShort, CP!AuthMalformed, CP!AuthRefused,
   CP!AuthAccepted, CP!ReplyUnknownAtyp, CP!ReplyShort, CP!ReplyMalformed,
   CP!ReplyUndecodable, CP!ReplyParsed, CP!Done, CP!Leave, CP!Finish, CP!Advance, CP!feed,
   CP!In, CP!optimistic_pipeline, CP!Login, CP!Ask, CP!Offered, CP!method, CP!Method, CP!Rep,
   CP!Cmd, CP!client_greeting, CP!userpass_auth, CP!request, CP!encode_address, CP!push_port,
   CP!Ver, CP!AuthVer, CP!Domain, CP!IPv4, CP!IPv6, CP!Atyps, CP!HasMethodSelection,
   CP!parse_method_selection, CP!HasAuthReply, CP!parse_auth_reply, CP!UnknownAtyp,
   CP!Arrived, CP!Sized, CP!HasSize, CP!Size, CP!HasReply, CP!parse_reply, CP!HasAddress,
   CP!AddrLast, CP!AddrFirst, CP!RawAddress, CP!decode_address, CP!HostText,
   CP!AddressRaises, CP!Drop

LEMMA SameStart ==
  /\ C!Open => CP!Open
  /\ C!ClientInit => CP!ClientInit
  /\ C!ProxyCloses => CP!ProxyCloses
BY DEF C!Open, C!ClientInit, C!ProxyCloses, CP!Open, CP!ClientInit, CP!ProxyCloses, C!Init,
   CP!Init, C!session, CP!session, C!object, CP!object

LEMMA SameNext ==
  (C!connect \/ C!close \/ C!Expire \/ C!ProxyCloses \/ C!Open) => CP!ClientNext
BY SameCall, SameStart DEF CP!ClientNext

-----------------------------------------------------------------------------
(* What was said and what was heard. *)

\* What the peer was sent of the i-th event, and behind everything, of the upstream.
Voice(i) == IF i \in 1 .. answered /\ log[i].type = "Send" THEN log[i].data ELSE <<>>
HB       == IF spoken THEN Banner ELSE <<>>
Voices   == (((Voice(1) \o Voice(2)) \o Voice(3)) \o Voice(4)) \o Voice(5)

ClientSaid == stream = sent /\ CP!SaysRight(connects = 2)
Heard      == cStream = Voices \o HB

\* The upstream only speaks once everything is said.
BannerLast ==
  /\ spoken => pc \in {"Relay", "finally", "done"}
  /\ spoken \/ end = "relay" => log # <<>> /\ log[Len(log)].type = "Relay"
  /\ end = "relay" => answered = Len(log)

ClientHalf ==
  /\ CP!ClientTypeOK
  /\ attempt \in {1, 2} /\ connects <= attempt
  /\ attempt = 2 => connects >= 1 /\ leftover = <<>>
  /\ cpc # "idle" => CP!ClientInv /\ connects = attempt
  /\ connects = 0 => sock = None /\ cpc = "idle" /\ conn = "none"

\* What holds the connection between the two.
Wire ==
  /\ gone => downstream = "closed"
  /\ conn = "open" => end \notin {"eof", "error"}

Connected ==
  sock # None =>
    /\ cpc = "idle" /\ connects = attempt /\ outcome = "connected"
    /\ IsSaid("success") /\ answered >= Start + 2
    /\ bound = dec.connectedBnd
    /\ leftover \o cInflight = HB

Excused ==
  /\ cpc = "idle" /\ connects = attempt /\ sock = None /\ outcome # "connected" => Excuse
  /\ attempt = 2 /\ ~first.ok => first.excuse

E2EInv ==
  /\ DriverInv
  /\ Answering
  /\ ClientSaid
  /\ Heard
  /\ BannerLast
  /\ ClientHalf
  /\ Wire
  /\ Connected
  /\ Excused

-----------------------------------------------------------------------------
(* What the server reads is what the client means. *)

LEMMA SameWords ==
  /\ CP!Ask = request(Cmd.CONNECT, Destination)
  /\ CP!Login = userpass_auth(Credentials.user, Credentials.pass)
  /\ \A st : CP!Hello(st) =
       client_greeting(IF st /\ cAuth THEN <<Method.USERPASS, Method.NO_AUTH>>
                       ELSE IF cAuth THEN <<Method.USERPASS>> ELSE <<Method.NO_AUTH>>)
BY DEF CP!Ask, CP!Login, CP!Hello, CP!request, CP!userpass_auth, CP!client_greeting,
   CP!encode_address, CP!push_port, CP!Cmd, CP!Ver, CP!AuthVer, CP!Domain, CP!Offered,
   CP!method, CP!Method, request, userpass_auth, client_greeting, encode_address, push_port,
   Cmd, Ver, AuthVer, Domain, Method

LEMMA DestinationFacts ==
  /\ Destination \in Address /\ Encodable(Destination.host) /\ Canonical(Destination.host)
  /\ Destination.host.raw \notin Undecodable \/ Destination.host.atyp # Domain
<1>1. Destination.host.atyp = Domain => Canonical(Destination.host)
  BY E2EAssumption DEF Canonical, IPv4, IPv6, Domain
<1> QED
  BY <1>1, E2EAssumption, LiteralCanonical

LEMMA AskMeans ==
  LET b == CP!Ask
  IN  /\ b \in Bytes /\ b # <<>> /\ b[1] = Ver /\ Len(b) <= MaxByte + 7
      /\ HasRequest(b) /\ parse_request(b) = [cmd |-> Cmd.CONNECT, dst |-> Destination]
<1>1. Cmd.CONNECT \in Byte
  BY ByteFacts DEF Cmd
<1> QED
  BY <1>1, SameWords, DestinationFacts, RequestMeans

\* What may stand behind the greeting, as the server reads it.
LEMMA TailsMean ==
  ASSUME cAuth \in BOOLEAN, NEW t \in CP!Tails
  PROVE  /\ t \in Bytes
         /\ HasRequest(t) => t = CP!Ask
         /\ HasUserpass(t) =>
              /\ parse_userpass(t) = [user |-> Credentials.user, pass |-> Credentials.pass]
              /\ Drop(t, 3 + t[2] + t[3 + t[2]]) \in {<<>>, CP!Ask}
         /\ t[1] # AuthVer => Len(t) <= MaxByte + 7
<1>1. /\ CP!Ask \in Bytes /\ CP!Ask[1] = Ver /\ Len(CP!Ask) <= MaxByte + 7
      /\ HasRequest(CP!Ask) /\ CP!Ask # <<>>
  BY AskMeans
<1>2. <<>> \in Bytes /\ Len(<<>>) = 0 /\ MaxByte \in Nat /\ Ver # AuthVer
  BY ByteFacts DEF Bytes, Ver, AuthVer
<1>3. ASSUME NEW r \in {<<>>, CP!Ask}
      PROVE  LET s == CP!Login \o r
             IN  /\ s \in Bytes /\ s[1] = AuthVer
                 /\ parse_userpass(s) = [user |-> Credentials.user, pass |-> Credentials.pass]
                 /\ Drop(s, 3 + s[2] + s[3 + s[2]]) = r
  <2> DEFINE u == Credentials.user
             p == Credentials.pass
  <2>1. r \in Bytes
    BY <1>1, <1>2
  <2>2. u \in Bytes /\ p \in Bytes /\ Len(u) <= MaxByte /\ Len(p) <= MaxByte
    BY E2EAssumption
  <2>3. CP!Login = userpass_auth(u, p)
    BY SameWords
  <2> HIDE DEF u, p
  <2>4. LET s == userpass_auth(u, p) \o r
        IN  /\ s \in Bytes /\ s[1] = AuthVer
            /\ parse_userpass(s) = [user |-> u, pass |-> p]
            /\ Drop(s, 3 + s[2] + s[3 + s[2]]) = r
    BY <2>1, <2>2, UserpassMeans
  <2>5. LET s == CP!Login \o r
        IN  /\ s \in Bytes /\ s[1] = AuthVer
            /\ parse_userpass(s) = [user |-> u, pass |-> p]
            /\ Drop(s, 3 + s[2] + s[3 + s[2]]) = r
    BY <2>3, <2>4, Zenon
  <2> QED
    BY <2>5 DEF u, p
<1>4. CP!Login \o <<>> = CP!Login
  <2>1. CP!Login \in Bytes
    <3>1. CP!Byte = Byte /\ CP!Bytes = Bytes
      BY SameCodec
    <3>2. CP!Login \in CP!Bytes
      BY CP!MessageTypes, Assumed
    <3> QED
      BY <3>1, <3>2, Zenon
  <2> QED
    BY <2>1, ConcatEmptySeq DEF Bytes
<1>5. \/ t = <<>> \/ t = CP!Ask
      \/ \E r \in {<<>>, CP!Ask} : t = CP!Login \o r
  BY <1>4 DEF CP!Tails
<1>6. CASE t = <<>>
  BY <1>2, <1>6 DEF HasRequest, HasUserpass
<1>7. CASE t = CP!Ask
  BY <1>1, <1>2, <1>7 DEF HasUserpass
<1>8. CASE \E r \in {<<>>, CP!Ask} : t = CP!Login \o r
  <2>1. PICK r \in {<<>>, CP!Ask} : t = CP!Login \o r
    BY <1>8
  <2>2. /\ t \in Bytes /\ t[1] = AuthVer
        /\ parse_userpass(t) = [user |-> Credentials.user, pass |-> Credentials.pass]
        /\ Drop(t, 3 + t[2] + t[3 + t[2]]) = r
    BY <1>3, <2>1
  <2> QED
    BY <1>2, <2>2 DEF HasRequest
<1> QED
  BY <1>5, <1>6, <1>7, <1>8

LEMMA StreamMeans ==
  ASSUME ClientSaid, stream # <<>>, cAuth \in BOOLEAN, connects \in Nat
  PROVE  /\ stream[1] = Ver /\ HasGreeting(stream)
         /\ AfterGreeting \in CP!Tails
         /\ OffersUserpass(stream) <=> cAuth
<1>1. PICK t \in CP!Tails : stream = CP!Hello(connects = 2) \o t
  BY DEF ClientSaid, CP!SaysRight
<1>2. t \in Bytes
  BY TailsMean
<1> DEFINE ms == IF connects = 2 /\ cAuth THEN <<Method.USERPASS, Method.NO_AUTH>>
                 ELSE IF cAuth THEN <<Method.USERPASS>> ELSE <<Method.NO_AUTH>>
<1>3. ms \in Bytes /\ Len(ms) <= MaxByte
  <2>1. Method.USERPASS \in Byte /\ Method.NO_AUTH \in Byte
    BY ByteFacts DEF Method
  <2>2. MaxByte \in Nat /\ MaxByte >= 15
    BY CodecAssumption
  <2>3. ms \in Bytes
    BY <2>1 DEF Bytes
  <2>4. Len(ms) \in {1, 2}
    OBVIOUS
  <2> QED
    BY <2>2, <2>3, <2>4
<1>4. (\E i \in 1 .. Len(ms) : ms[i] = Method.USERPASS) <=> cAuth
  <2>1. Method.NO_AUTH # Method.USERPASS
    BY DEF Method
  <2>2. CASE cAuth
    <3>1. 1 \in 1 .. Len(ms) /\ ms[1] = Method.USERPASS
      BY <2>2
    <3> QED
      BY <2>2, <3>1
  <2>3. CASE ~cAuth
    <3>1. \A i \in 1 .. Len(ms) : ms[i] = Method.NO_AUTH
      BY <2>3
    <3> QED
      BY <2>1, <2>3, <3>1
  <2> QED
    BY <2>2, <2>3
<1>5. stream = client_greeting(ms) \o t
  BY <1>1, SameWords
<1> HIDE DEF ms
<1>6. /\ stream[1] = Ver /\ HasGreeting(stream) /\ parse_greeting(stream) = ms
      /\ Drop(stream, 2 + stream[2]) = t
  BY <1>2, <1>3, <1>5, GreetingMeans
<1> QED
  BY <1>1, <1>4, <1>6 DEF AfterGreeting, OffersUserpass

\* The hooks are given what the client asked for.
LEMMA HooksGetTheWish ==
  ASSUME Session, Greeted, ClientSaid, cAuth \in BOOLEAN, connects \in Nat,
         NEW i \in DOMAIN log
  PROVE  /\ log[i].type = "Connect" => log[i] = Connect(Cmd.CONNECT, Destination)
         /\ log[i].type = "Authorize" => log[i] = Authorize(Credentials)
<1>1. TypeOK /\ Conversing /\ ParsedAsSent
  BY DEF Session, Conversing, Reassembled
<1>2. stream # <<>> /\ stream \in Bytes
  <2>1. log # <<>> /\ Len(<<>>) = 0
    BY <1>1 DEF TypeOK
  <2> QED
    BY <1>1, <2>1 DEF Greeted, HasGreeting, TypeOK
<1>3. AfterGreeting \in CP!Tails
  BY <1>2, StreamMeans
<1>4. /\ AfterGreeting \in Bytes
      /\ HasRequest(AfterGreeting) => AfterGreeting = CP!Ask
      /\ HasUserpass(AfterGreeting) =>
           /\ parse_userpass(AfterGreeting)
                = [user |-> Credentials.user, pass |-> Credentials.pass]
           /\ Drop(AfterGreeting, 3 + AfterGreeting[2] + AfterGreeting[3 + AfterGreeting[2]])
                \in {<<>>, CP!Ask}
  BY <1>3, TailsMean
<1>5. ASSUME log[i].type = "Authorize"
      PROVE  log[i] = Authorize(Credentials)
  BY <1>1, <1>4, <1>5 DEF ParsedAsSent, Authorize
<1>6. ASSUME log[i].type = "Connect"
      PROVE  log[i] = Connect(Cmd.CONNECT, Destination)
  <2>1. HasRequest(AfterAuth) /\ log[i] = Connect(Cmd.CONNECT, parse_request(AfterAuth).dst)
    BY <1>1, <1>6 DEF ParsedAsSent
  <2>2. AfterAuth = CP!Ask
    <3>1. CASE requireAuth
      <4>1. HasUserpass(AfterGreeting)
        <5>1. Kind(log[i]) = "Connect"
          BY <1>6 DEF Kind
        <5>2. LegalConversation
          BY <1>1, StageLegal
        <5> QED
          BY <1>1, <3>1, <5>1, <5>2, AskedForAuth, Consumed
      <4>2. AfterAuth \in {<<>>, CP!Ask}
        BY <1>4, <3>1, <4>1 DEF AfterAuth
      <4>3. ~HasRequest(<<>>)
        BY DEF HasRequest
      <4> QED
        BY <2>1, <4>2, <4>3
    <3>2. CASE ~requireAuth
      BY <1>4, <2>1, <3>2 DEF AfterAuth
    <3> QED
      BY <3>1, <3>2
  <2> QED
    BY <2>1, <2>2, AskMeans
<1> QED
  BY <1>5, <1>6

\* A server of this client that closes has had a whole conversation.
LEMMA ClosedIsComplete ==
  ASSUME Session, ClosedWell, Greeted, ClientSaid, cAuth \in BOOLEAN, connects \in Nat,
         state = "closed"
  PROVE  Complete
<1>1. Complete \/ NotSpoken \/ TooLong
  BY DEF ClosedWell
<1>2. ~NotSpoken
  BY StreamMeans DEF NotSpoken
<1>3. ~TooLong
  <2>1. SUFFICES ASSUME TooLong PROVE FALSE
    OBVIOUS
  <2>2. log # <<>>
    <3>1. Len(log) = 1
      BY <2>1 DEF TooLong, Told
    <3> QED
      BY <3>1
  <2>3. stream # <<>>
    <3>1. Len(<<>>) = 0
      OBVIOUS
    <3> QED
      BY <2>2, <3>1 DEF Greeted, HasGreeting
  <2>4. AfterGreeting[1] # AuthVer => Len(AfterGreeting) <= MaxByte + 7
    BY <2>3, StreamMeans, TailsMean
  <2>5. MaxByte \in Nat /\ MaxByte >= 15
    BY CodecAssumption
  <2>6. AfterGreeting \in Bytes
    BY <2>3, StreamMeans, TailsMean
  <2>7. Len(AfterGreeting) \in Nat
    BY <2>6, LenProperties DEF Bytes
  <2> QED
    BY <2>1, <2>4, <2>5, <2>7 DEF TooLong
<1> QED
  BY <1>1, <1>2, <1>3

-----------------------------------------------------------------------------
(* What the client has heard of the conversation. *)

LEMMA ScriptEnds ==
  ASSUME NEW c, Script(c), Len(c) \in Nat
  PROVE  Len(c) >= 1 /\ c[Len(c)] \in {"no method", "refused", "failure", "Relay"}
<1>1. Start \in {1, 3} /\ Start \in Nat
  BY DEF Start
<1>2. CASE Len(c) = 1 /\ c[1] = "no method"
  <2>1. 1 >= 1
    OBVIOUS
  <2> QED
    BY <1>2, <2>1, Zenon
<1>3. CASE Len(c) = 3 /\ c[3] = "refused"
  BY <1>3
<1>4. CASE Len(c) = Start + 1 /\ c[Start + 1] = "failure"
  BY <1>1, <1>4
<1>5. CASE Len(c) = Start + 2 /\ c[Start + 2] \in {"failure", "Relay"}
  <2>1. Len(c) >= 1
    BY <1>1, <1>5
  <2> QED
    BY <1>5, <2>1, Zenon
<1>6. CASE Len(c) = Start + 3 /\ c[Start + 3] = "Relay"
  BY <1>1, <1>6
<1>7. \/ Len(c) = 1 /\ c[1] = "no method"
      \/ Len(c) = 3 /\ c[3] = "refused"
      \/ Len(c) = Start + 1 /\ c[Start + 1] = "failure"
      \/ Len(c) = Start + 2 /\ c[Start + 2] \in {"failure", "Relay"}
      \/ Len(c) = Start + 3 /\ c[Start + 3] = "Relay"
  BY Zenon DEF Script
<1> QED
  BY <1>2, <1>3, <1>4, <1>5, <1>6, <1>7

\* A whole conversation has a last word.
LEMMA LastWord ==
  ASSUME TypeOK, Complete
  PROVE  Len(log) >= 1 /\ Kind(log[Len(log)]) \in {"no method", "refused", "failure", "Relay"}
<1>1. PICK c \in Conversations : Told(log, c)
  BY DEF Complete
<1>2. Len(c) \in Nat /\ Script(c)
  BY ConversationsAreWords, ConversationScript, LenProperties
<1>3. Len(c) >= 1 /\ c[Len(c)] \in {"no method", "refused", "failure", "Relay"}
  BY <1>2, ScriptEnds
<1>4. Len(c) \in 1 .. Len(c)
  <2>1. \A n \in Nat : n >= 1 => n \in 1 .. n
    OBVIOUS
  <2> QED
    BY <1>2, <1>3, <2>1, Zenon
<1>5. Len(log) = Len(c) /\ \A i \in 1 .. Len(log) : Kind(log[i]) = c[i]
  BY <1>1 DEF Told
<1>6. Kind(log[Len(c)]) = c[Len(c)]
  BY <1>4, <1>5, Zenon
<1> QED
  BY <1>3, <1>5, <1>6, Zenon

\* Whoever is told `success' is told so behind all the rest.
LEMMA SuccessScript ==
  ASSUME NEW c, Script(c), Len(c) \in Nat, requireAuth \in BOOLEAN,
         NEW i \in 1 .. Len(c), c[i] = "success"
  PROVE  /\ i = Start + 2 /\ Len(c) = Start + 3
         /\ c[1] = "method" /\ (requireAuth => c[2] = "Authorize" /\ c[3] = "accepted")
         /\ c[Start + 1] = "Connect" /\ c[Start + 2] = "success" /\ c[Start + 3] = "Relay"
<1>1. /\ requireAuth => Start = 3
      /\ ~requireAuth => Start = 1
  BY DEF Start
<1>2. i \in Nat /\ 1 <= i /\ i <= Len(c)
  OBVIOUS
<1>3. CASE Len(c) = 1 /\ c[1] = "no method"
  <2>1. \A j \in 1 .. 1 : j = 1
    OBVIOUS
  <2>2. i = 1
    BY <1>3, <2>1, Zenon
  <2> QED
    BY <1>3, <2>2
<1>4. CASE Len(c) = 3 /\ c[1] = "method" /\ c[2] = "Authorize" /\ c[3] = "refused"
  BY <1>2, <1>4
<1>5. CASE /\ c[1] = "method"
           /\ requireAuth => c[2] = "Authorize" /\ c[3] = "accepted"
           /\ \/ Len(c) = Start + 1 /\ c[Start + 1] = "failure"
              \/ Len(c) = Start + 2 /\ c[Start + 1] = "Connect" /\ c[Start + 2] = "failure"
              \/ Len(c) = Start + 2 /\ c[Start + 1] = "Connect" /\ c[Start + 2] = "Relay"
  <2>1. CASE requireAuth
    <3>1. Start + 1 = 4 /\ Start + 2 = 5
      BY <1>1, <2>1
    <3>2. \/ Len(c) = 4 /\ c[4] = "failure"
          \/ Len(c) = 5 /\ c[4] = "Connect" /\ c[5] = "failure"
          \/ Len(c) = 5 /\ c[4] = "Connect" /\ c[5] = "Relay"
      BY <1>5, <3>1, Zenon
    <3>3. i \in {1, 2, 3, 4} \/ (i = 5 /\ Len(c) = 5)
      BY <1>2, <3>2
    <3> QED
      BY <1>5, <2>1, <3>2, <3>3
  <2>2. CASE ~requireAuth
    <3>1. Start + 1 = 2 /\ Start + 2 = 3
      BY <1>1, <2>2
    <3>2. \/ Len(c) = 2 /\ c[2] = "failure"
          \/ Len(c) = 3 /\ c[2] = "Connect" /\ c[3] = "failure"
          \/ Len(c) = 3 /\ c[2] = "Connect" /\ c[3] = "Relay"
      BY <1>5, <3>1, Zenon
    <3>3. i \in {1, 2} \/ (i = 3 /\ Len(c) = 3)
      BY <1>2, <3>2
    <3> QED
      BY <1>5, <2>2, <3>2, <3>3
  <2> QED
    BY <2>1, <2>2
<1>6. CASE /\ c[1] = "method"
           /\ requireAuth => c[2] = "Authorize" /\ c[3] = "accepted"
           /\ Len(c) = Start + 3 /\ c[Start + 1] = "Connect"
           /\ c[Start + 2] = "success" /\ c[Start + 3] = "Relay"
  <2>1. CASE requireAuth
    <3>1. i \in {1, 2, 3, 4, 5, 6}
      BY <1>1, <1>2, <1>6, <2>1
    <3>2. Start + 1 = 4 /\ Start + 2 = 5 /\ Start + 3 = 6
      BY <1>1, <2>1
    <3>3. i = 5
      BY <1>6, <2>1, <3>1, <3>2
    <3> QED
      BY <1>6, <3>2, <3>3
  <2>2. CASE ~requireAuth
    <3>1. i \in {1, 2, 3, 4}
      BY <1>1, <1>2, <1>6, <2>2
    <3>2. Start + 1 = 2 /\ Start + 2 = 3 /\ Start + 3 = 4
      BY <1>1, <2>2
    <3>3. i = 3
      BY <1>6, <2>2, <3>1, <3>2
    <3> QED
      BY <1>6, <3>2, <3>3
  <2> QED
    BY <2>1, <2>2
<1> QED
  BY <1>3, <1>4, <1>5, <1>6, Zenon DEF Script

\* The tunnel is only opened to a peer that was told so.
LEMMA AtRelay ==
  ASSUME DriverInv, Answering, NEW c, Follows(c), NEW j \in DOMAIN log, log[j].type = "Relay"
  PROVE  /\ j = Start + 3 /\ Len(log) = Start + 3 /\ Len(c) = Start + 3
         /\ c[1] = "method" /\ (requireAuth => c[2] = "Authorize" /\ c[3] = "accepted")
         /\ c[Start + 1] = "Connect" /\ c[Start + 2] = "success" /\ c[Start + 3] = "Relay"
         /\ answered >= Start + 2 /\ IsSaid("success")
<1>1. /\ TypeOK /\ requireAuth \in BOOLEAN /\ answered \in Nat /\ answered >= Len(log) - 1
      /\ DOMAIN log = 1 .. Len(log) /\ Len(log) \in Nat /\ Len(c) \in Nat /\ Len(log) <= Len(c)
      /\ log[j] \in LastingEvent
  BY DEF DriverInv, DriverTypeOK, TypeOK, Follows
<1>2. Kind(log[j]) = "Relay" /\ IsSaid("success")
  BY <1>1, LastingKinds DEF Answering
<1>3. PICK i \in DOMAIN log : Kind(log[i]) = "success"
  BY <1>2 DEF IsSaid
<1>4. c[i] = "success" /\ c[j] = "Relay" /\ i \in 1 .. Len(c) /\ Script(c)
  BY <1>1, <1>2, <1>3 DEF Follows
<1>5. /\ i = Start + 2 /\ Len(c) = Start + 3
      /\ c[1] = "method" /\ (requireAuth => c[2] = "Authorize" /\ c[3] = "accepted")
      /\ c[Start + 1] = "Connect" /\ c[Start + 2] = "success" /\ c[Start + 3] = "Relay"
  BY <1>1, <1>4, SuccessScript
<1>6. /\ requireAuth => Start = 3
      /\ ~requireAuth => Start = 1
  BY DEF Start
<1>7. j \in Nat /\ 1 <= j /\ j <= Len(log) /\ i <= Len(log)
  BY <1>1, <1>3
<1>8. j = Start + 3
  <2>1. CASE requireAuth
    <3>1. Start + 1 = 4 /\ Start + 2 = 5 /\ Start + 3 = 6 /\ j \in {1, 2, 3, 4, 5, 6}
      BY <1>1, <1>5, <1>6, <1>7, <2>1
    <3> QED
      BY <1>4, <1>5, <2>1, <3>1
  <2>2. CASE ~requireAuth
    <3>1. Start + 1 = 2 /\ Start + 2 = 3 /\ Start + 3 = 4 /\ j \in {1, 2, 3, 4}
      BY <1>1, <1>5, <1>6, <1>7, <2>2
    <3> QED
      BY <1>4, <1>5, <2>2, <3>1
  <2> QED
    BY <2>1, <2>2
<1>9. Len(log) = Start + 3 /\ answered >= Start + 2
  <2>1. Start \in Nat
    BY <1>6
  <2> QED
    BY <1>1, <1>5, <1>7, <1>8, <2>1
<1> QED
  BY <1>2, <1>5, <1>8, <1>9

LEMMA VoiceTypes ==
  ASSUME DriverTypeOK
  PROVE  HB \in Bytes /\ \A i : Voice(i) \in Bytes
<1>1. <<>> \in Bytes
  BY DEF Bytes
<1>2. HB \in Bytes
  BY <1>1, E2EAssumption DEF HB
<1>3. ASSUME NEW i PROVE Voice(i) \in Bytes
  <2>1. CASE i \in 1 .. answered /\ log[i].type = "Send"
    <3>1. i \in DOMAIN log
      BY <2>1 DEF DriverTypeOK, TypeOK
    <3>2. log[i] \in LastingEvent
      BY <3>1 DEF DriverTypeOK, TypeOK
    <3>3. log[i].data \in Bytes
      BY <2>1, <3>2 DEF LastingEvent, SendEvent, RelayEvent
    <3> QED
      BY <2>1, <3>3 DEF Voice
  <2>2. CASE ~(i \in 1 .. answered /\ log[i].type = "Send")
    BY <1>1, <2>2 DEF Voice
  <2> QED
    BY <2>1, <2>2
<1> QED
  BY <1>2, <1>3

\* What a message of the record says, it says in these bytes.
LEMMA VoiceSays ==
  ASSUME DriverInv, Answering, NEW i \in 1 .. answered
  PROVE  /\ i \in DOMAIN log
         /\ Kind(log[i]) = "method" =>
              \/ /\ requireAuth /\ OffersUserpass(stream)
                 /\ Voice(i) = method_selection(Method.USERPASS)
              \/ ~requireAuth /\ Voice(i) = method_selection(Method.NO_AUTH)
         /\ Kind(log[i]) = "no method" =>
              /\ requireAuth /\ ~OffersUserpass(stream)
              /\ Voice(i) = method_selection(Method.NO_ACCEPTABLE)
         /\ Kind(log[i]) = "accepted" => Voice(i) = auth_reply(0)
         /\ Kind(log[i]) = "refused" => Voice(i) = auth_reply(1)
         /\ Kind(log[i]) = "failure" =>
              \E r \in Byte \ {Rep.SUCCEEDED} : Voice(i) = reply(r, Unbound)
         /\ Kind(log[i]) = "success" =>
              /\ dec.connectedBnd # None /\ Encodable(dec.connectedBnd.host)
              /\ Voice(i) = reply(Rep.SUCCEEDED, dec.connectedBnd)
         /\ Kind(log[i]) \in {"Authorize", "Connect", "Relay"} => Voice(i) = <<>>
<1>1. /\ TypeOK /\ i \in DOMAIN log /\ log[i] \in LastingEvent
      /\ Worded(log[i]) /\ dec \in Decisions
  <2>1. answered \in 0 .. Len(log) /\ TypeOK
    BY DEF DriverInv, DriverTypeOK
  <2>2. i \in DOMAIN log
    BY <2>1 DEF TypeOK
  <2> QED
    BY <2>1, <2>2 DEF TypeOK, Answering
<1>2. CASE log[i].type # "Send"
  <2>1. Voice(i) = <<>> /\ Kind(log[i]) \in {"Authorize", "Connect", "Relay"}
    BY <1>1, <1>2, LastingKinds DEF Voice
  <2> QED
    BY <1>1, <2>1
<1>3. CASE log[i].type = "Send"
  <2> DEFINE d == log[i].data
  <2>1. Voice(i) = d /\ Kind(log[i]) = Kind(Send(d))
    BY <1>1, <1>3, KindOfSend DEF Voice, Kind
  <2>2. \/ requireAuth /\ OffersUserpass(stream) /\ d = method_selection(Method.USERPASS)
        \/ ~requireAuth /\ d = method_selection(Method.NO_AUTH)
        \/ requireAuth /\ ~OffersUserpass(stream)
             /\ d = method_selection(Method.NO_ACCEPTABLE)
        \/ d \in {auth_reply(0), auth_reply(1)}
        \/ \E r \in Byte \ {Rep.SUCCEEDED} : d = reply(r, Unbound)
        \/ dec.connectedBnd # None /\ Encodable(dec.connectedBnd.host)
             /\ d = reply(Rep.SUCCEEDED, dec.connectedBnd)
    BY <1>1, <1>3 DEF Worded
  <2> HIDE DEF d
  <2>3. CASE requireAuth /\ OffersUserpass(stream) /\ d = method_selection(Method.USERPASS)
    <3>1. Kind(log[i]) = "method"
      BY <2>1, <2>3, Kinds
    <3> QED
      BY <1>1, <2>1, <2>3, <3>1
  <2>4. CASE ~requireAuth /\ d = method_selection(Method.NO_AUTH)
    <3>1. Kind(log[i]) = "method"
      BY <2>1, <2>4, Kinds
    <3> QED
      BY <1>1, <2>1, <2>4, <3>1
  <2>5. CASE requireAuth /\ ~OffersUserpass(stream)
              /\ d = method_selection(Method.NO_ACCEPTABLE)
    <3>1. Kind(log[i]) = "no method"
      BY <2>1, <2>5, Kinds
    <3> QED
      BY <1>1, <2>1, <2>5, <3>1
  <2>6. CASE d \in {auth_reply(0), auth_reply(1)}
    <3>1. \/ d = auth_reply(0) /\ Kind(log[i]) = "accepted"
          \/ d = auth_reply(1) /\ Kind(log[i]) = "refused"
      BY <2>1, <2>6, Kinds
    <3> QED
      BY <1>1, <2>1, <3>1
  <2>7. CASE \E r \in Byte \ {Rep.SUCCEEDED} : d = reply(r, Unbound)
    <3>1. PICK r \in Byte \ {Rep.SUCCEEDED} : d = reply(r, Unbound)
      BY <2>7
    <3>2. Kind(Send(reply(r, Unbound))) = "failure"
      BY ReplyKind, UnboundType
    <3> QED
      BY <1>1, <2>1, <3>1, <3>2
  <2>8. CASE dec.connectedBnd # None /\ Encodable(dec.connectedBnd.host)
              /\ d = reply(Rep.SUCCEEDED, dec.connectedBnd)
    <3>1. dec.connectedBnd \in Address /\ Rep.SUCCEEDED \in Byte
      BY <1>1, <2>8, ByteFacts DEF Decisions, Rep
    <3>2. Kind(Send(reply(Rep.SUCCEEDED, dec.connectedBnd))) = "success"
      BY <2>8, <3>1, ReplyKind
    <3> QED
      BY <1>1, <2>1, <2>8, <3>2
  <2> QED
    BY <2>2, <2>3, <2>4, <2>5, <2>6, <2>7, <2>8
<1> QED
  BY <1>2, <1>3

Unfinished == ~(answered = Len(log) /\ Complete)

Granted ==
  /\ IsSaid("success") /\ answered >= Start + 2
  /\ dec.connectedBnd # None /\ Encodable(dec.connectedBnd.host)

\* What may stand behind the phases, behind the method, and at all.
ReplyHeard(r) ==
  \/ Unfinished /\ r = <<>>
  \/ IsSaid("failure") /\ \E rep \in Byte \ {Rep.SUCCEEDED} : r = reply(rep, Unbound)
  \/ Granted /\ r = reply(Rep.SUCCEEDED, dec.connectedBnd) \o HB

LoginHeard(l) ==
  \/ Unfinished /\ l = <<>>
  \/ IsSaid("refused") /\ l = auth_reply(1)
  \/ \E r \in Bytes : l = auth_reply(0) \o r /\ ReplyHeard(r)

ServerSaid(s) ==
  \/ Unfinished /\ s = <<>>
  \/ IsSaid("no method") /\ s = method_selection(Method.NO_ACCEPTABLE)
  \/ /\ requireAuth /\ log # <<>> /\ OffersUserpass(stream)
     /\ \E l \in Bytes : s = method_selection(Method.USERPASS) \o l /\ LoginHeard(l)
  \/ /\ ~requireAuth
     /\ \E r \in Bytes : s = method_selection(Method.NO_AUTH) \o r /\ ReplyHeard(r)

LEMMA EmptyConcat == <<>> \in Bytes /\ \A x \in Bytes : <<>> \o x = x /\ x \o <<>> = x
<1>1. <<>> \in Bytes
  BY DEF Bytes
<1> QED
  BY <1>1, ConcatEmptySeq DEF Bytes

SameFour(a, b, c, d)      == ((a \o b) \o c) \o d = a \o (b \o (c \o d))
SameSix(a, b, c, d, e, h) ==
  ((((a \o b) \o c) \o d) \o e) \o h = a \o (b \o (c \o (d \o (e \o h))))

LEMMA FourParts ==
  ASSUME NEW a \in Bytes, NEW b \in Bytes, NEW c \in Bytes, NEW d \in Bytes
  PROVE  SameFour(a, b, c, d)
<1> DEFINE ab == a \o b
           cd == c \o d
<1>1. ab \in Bytes /\ cd \in Bytes
  BY ConcatType
<1>2. (ab \o c) \o d = ab \o (c \o d)
  <2>1. ab \in Bytes
    BY <1>1
  <2> HIDE DEF ab
  <2> QED
    BY <2>1, BytesAssociative, Zenon
<1>3. (a \o b) \o cd = a \o (b \o cd)
  <2>1. cd \in Bytes
    BY <1>1
  <2> HIDE DEF cd
  <2> QED
    BY <2>1, BytesAssociative, Zenon
<1> QED
  BY <1>2, <1>3, Zenon DEF SameFour

LEMMA SixParts ==
  ASSUME NEW a \in Bytes, NEW b \in Bytes, NEW c \in Bytes, NEW d \in Bytes, NEW e \in Bytes,
         NEW h \in Bytes
  PROVE  SameSix(a, b, c, d, e, h)
<1> DEFINE abc == (a \o b) \o c
           deh == d \o (e \o h)
<1>1. abc \in Bytes /\ deh \in Bytes
  <2>1. a \o b \in Bytes /\ e \o h \in Bytes
    BY ConcatType
  <2> QED
    BY <2>1, ConcatType
<1>2. SameFour(abc, d, e, h)
  <2> HIDE DEF abc
  <2> QED
    BY <1>1, FourParts
<1>3. SameFour(a, b, c, deh)
  <2> HIDE DEF deh
  <2> QED
    BY <1>1, FourParts
<1> QED
  BY <1>2, <1>3, Zenon DEF SameFour, SameSix

\* The upstream waits for the relay, and is heard behind `success'.
LEMMA BannerNeeds ==
  ASSUME DriverInv, Answering, BannerLast, NEW c, Follows(c), spoken \/ HB # <<>>
  PROVE  /\ Len(log) = Start + 3 /\ Len(c) = Start + 3 /\ answered >= Start + 2
         /\ IsSaid("success")
<1>1. spoken
  BY DEF HB
<1>2. log # <<>> /\ log[Len(log)].type = "Relay"
  BY <1>1 DEF BannerLast
<1>3. Len(log) \in DOMAIN log
  BY <1>2 DEF DriverInv, DriverTypeOK, TypeOK
<1> QED
  BY <1>2, <1>3, AtRelay

\* Whoever waits for a word has not had the last one.
LEMMA NotTheLast ==
  ASSUME TypeOK, NEW c, Follows(c), NEW k \in Nat, answered = k,
         k = 0 \/ c[k] \in {"method", "Authorize", "accepted", "Connect"}
  PROVE  Unfinished
<1>1. SUFFICES ASSUME k = Len(log), Complete PROVE FALSE
  BY DEF Unfinished
<1>2. Len(log) >= 1 /\ Kind(log[Len(log)]) \in {"no method", "refused", "failure", "Relay"}
  BY <1>1, LastWord
<1>3. k # 0
  <2>1. \A n \in Nat : n >= 1 => n # 0
    OBVIOUS
  <2> QED
    BY <1>1, <1>2, <2>1, Zenon
<1>4. k \in 1 .. Len(log)
  BY <1>1, <1>3
<1>5. Kind(log[k]) = c[k]
  BY <1>4 DEF Follows
<1> QED
  BY <1>1, <1>2, <1>3, <1>5

LEMMA ReplyIsHeard ==
  ASSUME DriverInv, Answering, BannerLast, NEW c, Follows(c),
         c[1] = "method", requireAuth => c[2] = "Authorize" /\ c[3] = "accepted",
         \/ Len(c) = Start + 1 /\ c[Start + 1] = "failure"
         \/ Len(c) = Start + 2 /\ c[Start + 1] = "Connect" /\ c[Start + 2] = "failure"
         \/ Len(c) = Start + 2 /\ c[Start + 1] = "Connect" /\ c[Start + 2] = "Relay"
         \/ /\ Len(c) = Start + 3 /\ c[Start + 1] = "Connect"
            /\ c[Start + 2] = "success" /\ c[Start + 3] = "Relay",
         answered >= Start
  PROVE  ReplyHeard(Voice(Start + 1) \o (Voice(Start + 2) \o HB))
<1> DEFINE one == Voice(Start + 1)
           two == Voice(Start + 2)
<1> SUFFICES ReplyHeard(one \o (two \o HB))
  OBVIOUS
<1>1. /\ TypeOK /\ DriverTypeOK /\ answered \in Nat /\ Len(log) \in Nat /\ Len(c) \in Nat
      /\ answered <= Len(log) /\ Len(log) <= Len(c) /\ Start \in {1, 3} /\ Start \in Nat
      /\ \A i \in 1 .. Len(log) : Kind(log[i]) = c[i]
      /\ DOMAIN log = 1 .. Len(log)
  BY DEF DriverInv, DriverTypeOK, TypeOK, Follows, Start
<1>2. \A i \in 1 .. answered : Kind(log[i]) = c[i]
  BY <1>1
<1>3. one \in Bytes /\ two \in Bytes /\ HB \in Bytes
  BY <1>1, VoiceTypes
<1>4. answered = Start => one = <<>>
  BY <1>1 DEF Voice
<1>5. answered < Start + 2 => two = <<>>
  BY <1>1 DEF Voice
<1>14. HB # <<>> => Len(c) = Start + 3 /\ answered >= Start + 2
  BY BannerNeeds
<1>6. answered < Start + 2 => HB = <<>>
  BY <1>1, <1>14
<1>7. CASE answered = Start
  <2>1. one = <<>> /\ two = <<>> /\ HB = <<>>
    BY <1>1, <1>4, <1>5, <1>6, <1>7
  <2>2. one \o (two \o HB) = <<>>
    BY <2>1, EmptyConcat
  <2>3. c[Start] \in {"method", "accepted"}
    BY DEF Start
  <2>4. Unfinished
    BY <1>1, <1>7, <2>3, NotTheLast
  <2> QED
    BY <2>2, <2>4 DEF ReplyHeard
<1>8. CASE answered >= Start + 1 /\ c[Start + 1] = "failure"
  <2>1. Start + 1 \in 1 .. answered /\ Kind(log[Start + 1]) = "failure"
    BY <1>1, <1>2, <1>8
  <2>2. \E r \in Byte \ {Rep.SUCCEEDED} : one = reply(r, Unbound)
    BY <2>1, VoiceSays
  <2>3. Start + 1 \in DOMAIN log
    BY <2>1, VoiceSays
  <2>4. IsSaid("failure")
    BY <2>1, <2>3 DEF IsSaid
  <2>5. Len(c) = Start + 1
    BY <1>8
  <2>6. answered < Start + 2
    BY <1>1, <2>5
  <2>7. one \o (two \o HB) = one
    BY <1>3, <1>5, <1>6, <2>6, EmptyConcat
  <2> HIDE DEF one, two
  <2> QED
    BY <2>2, <2>4, <2>7 DEF ReplyHeard
<1>9. CASE answered = Start + 1 /\ c[Start + 1] = "Connect"
  <2>1. Start + 1 \in 1 .. answered /\ Kind(log[Start + 1]) = "Connect"
    BY <1>1, <1>2, <1>9
  <2>2. one = <<>>
    BY <2>1, VoiceSays
  <2>3. two = <<>> /\ HB = <<>>
    BY <1>1, <1>5, <1>6, <1>9
  <2>4. one \o (two \o HB) = <<>>
    BY <2>2, <2>3, EmptyConcat
  <2>5. Unfinished
    BY <1>1, <1>9, NotTheLast
  <2> QED
    BY <2>4, <2>5 DEF ReplyHeard
<1>10. CASE answered >= Start + 2 /\ c[Start + 1] = "Connect"
  <2>1. /\ Start + 1 \in 1 .. answered /\ Kind(log[Start + 1]) = "Connect"
        /\ Start + 2 \in 1 .. answered /\ Kind(log[Start + 2]) = c[Start + 2]
    BY <1>1, <1>2, <1>10
  <2>2. one = <<>>
    BY <2>1, VoiceSays
  <2>3. Start + 2 \in DOMAIN log
    BY <2>1, VoiceSays
  <2>4. one \o (two \o HB) = two \o HB
    <3>1. two \o HB \in Bytes
      BY <1>3, ConcatType
    <3> HIDE DEF one, two
    <3> QED
      BY <2>2, <3>1, EmptyConcat
  <2>5. CASE c[Start + 2] = "failure"
    <3>1. \E r \in Byte \ {Rep.SUCCEEDED} : two = reply(r, Unbound)
      BY <2>1, <2>5, VoiceSays
    <3>2. IsSaid("failure")
      BY <2>1, <2>3, <2>5 DEF IsSaid
    <3>3. Len(c) = Start + 2
      BY <1>10, <2>5
    <3>4. HB = <<>>
      BY <1>1, <1>14, <3>3
    <3>5. two \o HB = two
      BY <1>3, <3>4, EmptyConcat
    <3> HIDE DEF one, two
    <3> QED
      BY <2>4, <3>1, <3>2, <3>5 DEF ReplyHeard
  <2>6. CASE c[Start + 2] = "success"
    <3>1. /\ dec.connectedBnd # None /\ Encodable(dec.connectedBnd.host)
          /\ two = reply(Rep.SUCCEEDED, dec.connectedBnd)
      BY <2>1, <2>6, VoiceSays
    <3>2. IsSaid("success")
      BY <2>1, <2>3, <2>6 DEF IsSaid
    <3> HIDE DEF one, two
    <3> QED
      BY <1>10, <2>4, <3>1, <3>2 DEF ReplyHeard, Granted
  <2>7. CASE c[Start + 2] = "Relay"
    <3>1. log[Start + 2] \in LastingEvent
      BY <1>1, <2>3 DEF TypeOK
    <3>2. log[Start + 2].type = "Relay"
      BY <2>1, <2>7, <3>1, LastingKinds
    <3>3. Start + 2 = Start + 3
      BY <2>3, <3>2, AtRelay
    <3> QED
      BY <1>1, <3>3
  <2> QED
    BY <1>10, <2>5, <2>6, <2>7
<1>11. c[Start + 1] \in {"failure", "Connect"}
  OBVIOUS
<1>12. answered = Start \/ answered = Start + 1 \/ answered >= Start + 2
  BY <1>1
<1>13. answered = Start + 1 \/ answered >= Start + 2 => answered >= Start + 1
  BY <1>1
<1> QED
  BY <1>7, <1>8, <1>9, <1>10, <1>11, <1>12, <1>13

LEMMA Hearing ==
  ASSUME DriverInv, Answering, BannerLast, Heard
  PROVE  ServerSaid(cStream)
<1> DEFINE v(i) == Voice(i)
           rest == v(2) \o (v(3) \o (v(4) \o (v(5) \o HB)))
<1>1. /\ TypeOK /\ DriverTypeOK /\ answered \in Nat /\ answered <= Len(log)
      /\ Len(log) \in Nat /\ DOMAIN log = 1 .. Len(log) /\ requireAuth \in BOOLEAN
  BY DEF DriverInv, DriverTypeOK, TypeOK
<1>2. PICK c \in Conversations : Follows(c)
  <2>1. LegalConversation
    BY StageLegal DEF DriverInv, Session
  <2> QED
    BY <1>1, <2>1, LogFollows
<1>3. /\ Script(c) /\ Len(c) \in Nat /\ Len(log) <= Len(c)
      /\ \A i \in 1 .. answered : Kind(log[i]) = c[i]
  <2>1. Script(c) /\ Len(c) \in Nat /\ Len(log) <= Len(c)
    BY <1>2 DEF Follows
  <2>2. \A i \in 1 .. Len(log) : Kind(log[i]) = c[i]
    BY <1>2, Zenon DEF Follows
  <2> QED
    BY <1>1, <2>1, <2>2
<1>4. HB \in Bytes /\ v(1) \in Bytes /\ v(2) \in Bytes /\ v(3) \in Bytes /\ v(4) \in Bytes
        /\ v(5) \in Bytes
  BY <1>1, VoiceTypes
<1>5. cStream = v(1) \o rest
  <2>1. cStream = ((((v(1) \o v(2)) \o v(3)) \o v(4)) \o v(5)) \o HB
    BY DEF Heard, Voices
  <2> HIDE DEF v
  <2>2. SameSix(v(1), v(2), v(3), v(4), v(5), HB)
    BY <1>4, SixParts
  <2> QED
    BY <2>1, <2>2, Zenon DEF SameSix
<1>6. rest \in Bytes /\ v(3) \o (v(4) \o (v(5) \o HB)) \in Bytes
        /\ v(4) \o (v(5) \o HB) \in Bytes /\ v(5) \o HB \in Bytes
  <2>1. v(5) \o HB \in Bytes
    BY <1>4, ConcatType
  <2>2. v(4) \o (v(5) \o HB) \in Bytes
    BY <1>4, <2>1, ConcatType
  <2>3. v(3) \o (v(4) \o (v(5) \o HB)) \in Bytes
    BY <1>4, <2>2, ConcatType
  <2>4. rest \in Bytes
    BY <1>4, <2>3, ConcatType
  <2> QED
    BY <2>1, <2>2, <2>3, <2>4
<1>7. /\ answered < 1 => v(1) = <<>>
      /\ answered < 2 => v(2) = <<>>
      /\ answered < 3 => v(3) = <<>>
      /\ answered < 4 => v(4) = <<>>
      /\ answered < 5 => v(5) = <<>>
  BY <1>1 DEF Voice
<1>8. HB # <<>> => answered >= Start + 2 /\ Len(c) = Start + 3
  BY <1>2, BannerNeeds
<1>16. answered >= 1 => log # <<>>
  <2>1. Len(<<>>) = 0
    OBVIOUS
  <2> QED
    BY <1>1, <2>1
<1>9. Start \in {1, 3} /\ (requireAuth => Start = 3) /\ (~requireAuth => Start = 1)
  BY DEF Start
<1>10. CASE answered = 0
  <2>1. v(1) = <<>> /\ v(2) = <<>> /\ v(3) = <<>> /\ v(4) = <<>> /\ v(5) = <<>>
    BY <1>7, <1>10
  <2>2. HB = <<>>
    BY <1>8, <1>9, <1>10
  <2>3. cStream = <<>>
    BY <1>5, <2>1, <2>2, EmptyConcat
  <2>4. Unfinished
    BY <1>1, <1>2, <1>10, NotTheLast
  <2> QED
    BY <2>3, <2>4 DEF ServerSaid
<1>11. CASE answered >= 1 /\ requireAuth /\ Len(c) = 1 /\ c[1] = "no method"
  <2>8. answered = 1
    <3>1. \A k \in Nat, l \in Nat : k >= 1 /\ k <= l /\ l <= 1 => k = 1
      OBVIOUS
    <3> QED
      BY <1>1, <1>3, <1>11, <3>1, Zenon
  <2>9. 1 \in 1 .. answered
    BY <2>8
  <2>1. Kind(log[1]) = "no method"
    BY <1>3, <1>11, <2>9, Zenon
  <2>2. v(1) = method_selection(Method.NO_ACCEPTABLE) /\ 1 \in DOMAIN log
    BY <2>1, <2>9, VoiceSays
  <2>3. v(2) = <<>> /\ v(3) = <<>> /\ v(4) = <<>> /\ v(5) = <<>>
    BY <1>7, <2>8
  <2>4. HB = <<>>
    BY <1>8, <1>9, <2>8
  <2>5. rest = <<>>
    BY <2>3, <2>4, EmptyConcat
  <2>6. cStream = v(1)
    BY <1>4, <1>5, <2>5, EmptyConcat
  <2>7. IsSaid("no method")
    BY <2>1, <2>2 DEF IsSaid
  <2> QED
    BY <2>2, <2>6, <2>7 DEF ServerSaid
<1>12. CASE answered >= 1 /\ c[1] = "method" /\ requireAuth
              /\ Len(c) = 3 /\ c[2] = "Authorize" /\ c[3] = "refused"
  <2>1. 1 \in 1 .. answered /\ Kind(log[1]) = "method"
    BY <1>1, <1>3, <1>12
  <2>2. OffersUserpass(stream) /\ v(1) = method_selection(Method.USERPASS)
    BY <1>12, <2>1, VoiceSays
  <2>3. v(4) = <<>> /\ v(5) = <<>> /\ HB = <<>>
    BY <1>1, <1>3, <1>7, <1>8, <1>9, <1>12
  <2>4. v(2) = <<>>
    <3>1. CASE answered = 1
      BY <1>7, <3>1
    <3>2. CASE answered >= 2
      <4>1. 2 \in 1 .. answered /\ Kind(log[2]) = "Authorize"
        BY <1>1, <1>3, <1>12, <3>2
      <4> QED
        BY <4>1, VoiceSays
    <3> QED
      BY <1>1, <1>12, <3>1, <3>2
  <2>5. rest = v(3)
    <3>1. v(4) \o (v(5) \o HB) = <<>>
      BY <2>3, EmptyConcat
    <3>2. v(3) \o (v(4) \o (v(5) \o HB)) = v(3)
      BY <1>4, <3>1, EmptyConcat
    <3> QED
      BY <1>4, <2>4, <3>2, EmptyConcat
  <2>6. LoginHeard(rest)
    <3>1. CASE answered < 3
      <4>1. rest = <<>>
        BY <1>7, <2>5, <3>1
      <4>2. answered \in {1, 2}
        BY <1>1, <1>12, <3>1
      <4>3. Unfinished
        BY <1>1, <1>2, <1>12, <4>2, NotTheLast
      <4> QED
        BY <4>1, <4>3 DEF LoginHeard
    <3>2. CASE answered >= 3
      <4>1. 3 \in 1 .. answered /\ Kind(log[3]) = "refused"
        BY <1>1, <1>3, <1>12, <3>2
      <4>2. v(3) = auth_reply(1) /\ 3 \in DOMAIN log
        BY <4>1, VoiceSays
      <4>3. IsSaid("refused")
        BY <4>1, <4>2 DEF IsSaid
      <4> QED
        BY <2>5, <4>2, <4>3 DEF LoginHeard
    <3> QED
      BY <1>1, <3>1, <3>2
  <2> HIDE DEF rest
  <2> QED
    BY <1>5, <1>6, <1>12, <1>16, <2>2, <2>6 DEF ServerSaid
<1>13. CASE /\ answered >= 1 /\ c[1] = "method"
            /\ requireAuth => c[2] = "Authorize" /\ c[3] = "accepted"
            /\ \/ Len(c) = Start + 1 /\ c[Start + 1] = "failure"
               \/ Len(c) = Start + 2 /\ c[Start + 1] = "Connect" /\ c[Start + 2] = "failure"
               \/ Len(c) = Start + 2 /\ c[Start + 1] = "Connect" /\ c[Start + 2] = "Relay"
               \/ /\ Len(c) = Start + 3 /\ c[Start + 1] = "Connect"
                  /\ c[Start + 2] = "success" /\ c[Start + 3] = "Relay"
  <2> DEFINE answer == v(Start + 1) \o (v(Start + 2) \o HB)
  <2>1. 1 \in 1 .. answered /\ Kind(log[1]) = "method"
    BY <1>1, <1>3, <1>13
  <2>2. answered >= Start => ReplyHeard(answer)
    BY <1>2, <1>13, ReplyIsHeard
  <2>3. CASE requireAuth
    <3>1. OffersUserpass(stream) /\ v(1) = method_selection(Method.USERPASS)
      BY <2>1, <2>3, VoiceSays
    <3>2. v(2) = <<>>
      <4>1. CASE answered = 1
        BY <1>7, <4>1
      <4>2. CASE answered >= 2
        <5>1. 2 \in 1 .. answered /\ Kind(log[2]) = "Authorize"
          BY <1>1, <1>3, <1>13, <2>3, <4>2
        <5> QED
          BY <5>1, VoiceSays
      <4> QED
        BY <1>1, <1>13, <4>1, <4>2
    <3>3. rest = v(3) \o (v(4) \o (v(5) \o HB))
      BY <1>6, <3>2, EmptyConcat
    <3>4. LoginHeard(rest)
      <4>1. CASE answered < 3
        <5>1. v(3) = <<>> /\ v(4) = <<>> /\ v(5) = <<>> /\ HB = <<>>
          BY <1>1, <1>7, <1>8, <1>9, <2>3, <4>1
        <5>2. rest = <<>>
          BY <3>3, <5>1, EmptyConcat
        <5>3. answered \in {1, 2}
          BY <1>1, <1>13, <4>1
        <5>4. Unfinished
          BY <1>1, <1>2, <1>13, <2>3, <5>3, NotTheLast
        <5> QED
          BY <5>2, <5>4 DEF LoginHeard
      <4>2. CASE answered >= 3
        <5>1. 3 \in 1 .. answered /\ Kind(log[3]) = "accepted"
          BY <1>1, <1>3, <1>13, <2>3, <4>2
        <5>2. v(3) = auth_reply(0)
          BY <5>1, VoiceSays
        <5>3. Start + 1 = 4 /\ Start + 2 = 5 /\ Start = 3
          BY <1>9, <2>3
        <5>4. ReplyHeard(v(4) \o (v(5) \o HB))
          BY <2>2, <4>2, <5>3
        <5> QED
          BY <1>6, <3>3, <5>2, <5>4 DEF LoginHeard
      <4> QED
        BY <1>1, <4>1, <4>2
    <3> HIDE DEF rest
    <3> QED
      BY <1>5, <1>6, <1>13, <1>16, <2>3, <3>1, <3>4 DEF ServerSaid
  <2>4. CASE ~requireAuth
    <3>1. v(1) = method_selection(Method.NO_AUTH)
      BY <2>1, <2>4, VoiceSays
    <3>2. Start = 1 /\ Start + 1 = 2 /\ Start + 2 = 3 /\ Start + 3 = 4 /\ Len(c) \in {2, 3, 4}
      BY <1>9, <1>13, <2>4
    <3>3. v(5) = <<>>
      BY <1>1, <1>3, <1>7, <3>2
    <3>4. v(4) = <<>>
      <4>1. CASE answered < 4
        BY <1>7, <4>1
      <4>2. CASE answered >= 4
        <5>1. 4 \in 1 .. answered /\ Len(c) = 4
          BY <1>1, <1>3, <3>2, <4>2
        <5>2. c[4] = "Relay"
          BY <1>13, <3>2, <5>1
        <5> QED
          BY <1>3, <5>1, <5>2, VoiceSays
      <4> QED
        BY <1>1, <4>1, <4>2
    <3>5. rest = v(2) \o (v(3) \o HB)
      <4>1. v(5) \o HB = HB /\ v(4) \o HB = HB
        BY <1>4, <3>3, <3>4, EmptyConcat
      <4> QED
        BY <4>1
    <3>6. ReplyHeard(rest)
      BY <1>13, <2>2, <3>2, <3>5
    <3> HIDE DEF rest
    <3> QED
      BY <1>5, <1>6, <2>4, <3>1, <3>6 DEF ServerSaid
  <2> QED
    BY <2>3, <2>4
<1>14. \/ requireAuth /\ Len(c) = 1 /\ c[1] = "no method"
       \/ requireAuth /\ Len(c) = 3 /\ c[1] = "method" /\ c[2] = "Authorize" /\ c[3] = "refused"
       \/ /\ c[1] = "method"
          /\ requireAuth => c[2] = "Authorize" /\ c[3] = "accepted"
          /\ \/ Len(c) = Start + 1 /\ c[Start + 1] = "failure"
             \/ Len(c) = Start + 2 /\ c[Start + 1] = "Connect" /\ c[Start + 2] = "failure"
             \/ Len(c) = Start + 2 /\ c[Start + 1] = "Connect" /\ c[Start + 2] = "Relay"
             \/ /\ Len(c) = Start + 3 /\ c[Start + 1] = "Connect"
                /\ c[Start + 2] = "success" /\ c[Start + 3] = "Relay"
  BY <1>3, Zenon DEF Script
<1>15. answered = 0 \/ answered >= 1
  BY <1>1
<1> QED
  BY <1>10, <1>11, <1>12, <1>13, <1>14, <1>15, Zenon

-----------------------------------------------------------------------------
(* What it means to the client. *)

LEMMA MethodRead ==
  ASSUME cAuth \in BOOLEAN, NEW m \in Byte, NEW r \in Bytes,
         cStream = method_selection(m) \o r
  PROVE  /\ attempt # 2 /\ m # CP!method => CP!Deserved = "method"
         /\ attempt = 2 /\ m = Method.NO_ACCEPTABLE => CP!Deserved = "method"
<1>1. cStream = CP!method_selection(m) \o r
  BY SameMessages
<1>2. m \in CP!Byte /\ r \in CP!Bytes /\ CP!Method = Method
  BY SameCodec
<1> QED
  BY <1>1, <1>2, Assumed, CP!MethodMeans

LEMMA PlainRead ==
  ASSUME cAuth \in BOOLEAN, NEW r \in Bytes,
         cStream = method_selection(Method.NO_AUTH) \o r, attempt = 2 \/ ~cAuth
  PROVE  CP!Deserved = CP!ReplyVerdict(r) /\ CP!ReplyPart = r
<1>1. cStream = CP!method_selection(CP!Method.NO_AUTH) \o r
  BY SameMessages, SameCodec
<1>2. r \in CP!Bytes
  BY SameCodec
<1> QED
  BY <1>1, <1>2, Assumed, CP!PlainMeans

LEMMA LoginRead ==
  ASSUME cAuth, NEW l \in Bytes, cStream = method_selection(Method.USERPASS) \o l
  PROVE  /\ l = <<>> => CP!Deserved = "need"
         /\ l = auth_reply(1) => CP!Deserved = "auth"
         /\ \A r \in Bytes :
              l = auth_reply(0) \o r => CP!Deserved = CP!ReplyVerdict(r) /\ CP!ReplyPart = r
<1>1. cStream = CP!method_selection(CP!Method.USERPASS) \o l
  BY SameMessages, SameCodec
<1>2. l \in CP!Bytes
  BY SameCodec
<1>3. /\ l = <<>> => CP!Deserved = "need"
      /\ \A r \in CP!Bytes : l = CP!auth_reply(1) \o r => CP!Deserved = "auth"
      /\ \A r \in CP!Bytes :
           l = CP!auth_reply(0) \o r => CP!Deserved = CP!ReplyVerdict(r) /\ CP!ReplyPart = r
  BY <1>1, <1>2, Assumed, CP!LoginMeans
<1>4. ASSUME l = auth_reply(1) PROVE CP!Deserved = "auth"
  <2>1. auth_reply(1) \o <<>> = auth_reply(1)
    BY <1>4, EmptyConcat
  <2>2. <<>> \in CP!Bytes /\ auth_reply(1) = CP!auth_reply(1)
    BY EmptyConcat, SameCodec, SameMessages
  <2>3. l = CP!auth_reply(1) \o <<>>
    BY <1>4, <2>1, <2>2, Zenon
  <2> QED
    BY <1>3, <2>2, <2>3, Zenon
<1>5. ASSUME NEW r \in Bytes, l = auth_reply(0) \o r
      PROVE  CP!Deserved = CP!ReplyVerdict(r) /\ CP!ReplyPart = r
  <2>1. r \in CP!Bytes /\ auth_reply(0) = CP!auth_reply(0)
    BY SameCodec, SameMessages
  <2>2. l = CP!auth_reply(0) \o r
    BY <1>5, <2>1, Zenon
  <2> QED
    BY <1>3, <2>1, <2>2, Zenon
<1> QED
  BY <1>3, <1>4, <1>5, Zenon

LEMMA ReplyRead ==
  ASSUME NEW rep \in Byte, NEW a \in Address, Encodable(a.host), Canonical(a.host),
         a.host.raw \notin Undecodable \/ a.host.atyp # Domain, NEW t \in Bytes
  PROVE  LET r == reply(rep, a) \o t
         IN  /\ CP!ReplyVerdict(r) = "reply"
             /\ CP!parse_reply(r).rep = rep /\ CP!parse_reply(r).bound = a
             /\ Drop(r, CP!Size(r)) = t
<1>1. /\ rep \in CP!Byte /\ a \in CP!Address /\ t \in CP!Bytes
      /\ CP!Encodable(a.host) /\ CP!Canonical(a.host)
      /\ a.host.raw \notin Undecodable \/ a.host.atyp # CP!Domain
  BY SameCodec, SameMessages
<1>2. LET r == CP!reply(rep, a) \o t
      IN  /\ CP!ReplyVerdict(r) = "reply"
          /\ CP!parse_reply(r).rep = rep /\ CP!parse_reply(r).bound = a
          /\ CP!Drop(r, CP!Size(r)) = t
  BY <1>1, Assumed, CP!ReplyMeans
<1>3. CP!reply(rep, a) = reply(rep, a) /\ \A b, n : CP!Drop(b, n) = Drop(b, n)
  BY SameMessages
<1> QED
  BY <1>2, <1>3, Zenon

\* What the client makes of what it has heard, and why.
Understood ==
  \/ CP!Deserved \notin {"need", "reply"} /\ Excuse
  \/ CP!Deserved = "need" /\ Unfinished
  \/ /\ CP!Deserved = "reply" /\ CP!parse_reply(CP!ReplyPart).rep # Rep.SUCCEEDED
     /\ IsSaid("failure")
  \/ /\ CP!Deserved = "reply" /\ CP!parse_reply(CP!ReplyPart).rep = Rep.SUCCEEDED
     /\ Granted
     /\ CP!parse_reply(CP!ReplyPart).bound = dec.connectedBnd
     /\ Drop(CP!ReplyPart, CP!Size(CP!ReplyPart)) = HB

\* The address the server advertises is one the client can read.
LEMMA BoundIsReadable ==
  ASSUME DriverInv, Answering, ClientSaid, cAuth \in BOOLEAN, connects \in Nat,
         dec.connectedBnd # None
  PROVE  /\ dec.connectedBnd \in Address /\ Canonical(dec.connectedBnd.host)
         /\ \/ dec.connectedBnd.host.raw \notin Undecodable
            \/ dec.connectedBnd.host.atyp # Domain
<1>1. dec.connectedBnd \in Address
  BY DEF DriverInv, DriverTypeOK, TypeOK, Decisions
<1>2. CASE dec.connectedBnd = LocalAddress
  <2>1. LocalAddress.host \in LiteralHost
    BY E2EAssumption
  <2>2. LocalAddress.host.atyp # Domain
    BY <2>1 DEF LiteralHost, IPv4, IPv6, Domain
  <2> QED
    BY <1>1, <1>2, <2>1, <2>2, LiteralCanonical
<1>3. CASE \E i \in DOMAIN log : log[i].type = "Connect" /\ log[i].dst = dec.connectedBnd
  <2>1. PICK i \in DOMAIN log : log[i].type = "Connect" /\ log[i].dst = dec.connectedBnd
    BY <1>3
  <2>2. log[i] = Connect(Cmd.CONNECT, Destination)
    BY <2>1, HooksGetTheWish DEF DriverInv, Answering
  <2>3. dec.connectedBnd = Destination
    BY <2>1, <2>2, TypesOf
  <2> QED
    BY <1>1, <2>3, DestinationFacts
<1> QED
  BY <1>2, <1>3 DEF Answering, Bound

LEMMA AnswerMeans ==
  ASSUME DriverInv, Answering, ClientSaid, cAuth \in BOOLEAN, connects \in Nat,
         NEW r \in Bytes, ReplyHeard(r),
         CP!Deserved = CP!ReplyVerdict(r), CP!ReplyPart = r
  PROVE  Understood
<1>1. HB \in Bytes /\ Rep.SUCCEEDED \in Byte /\ <<>> \in Bytes
  BY VoiceTypes, ByteFacts, EmptyConcat DEF DriverInv, Rep
<1>2. CASE Unfinished /\ r = <<>>
  <2>1. CP!ReplyVerdict(r) = "need"
    BY <1>2, Assumed, CP!NoReplyYet
  <2> QED
    BY <1>2, <2>1 DEF Understood
<1>3. CASE IsSaid("failure") /\ \E rep \in Byte \ {Rep.SUCCEEDED} : r = reply(rep, Unbound)
  <2>1. PICK rep \in Byte \ {Rep.SUCCEEDED} : r = reply(rep, Unbound)
    BY <1>3
  <2>2. r \o <<>> = r
    BY EmptyConcat
  <2>3. Canonical(Unbound.host) /\ Unbound.host.atyp # Domain
    BY DEF Canonical, Unbound, IPv4, IPv6, Domain
  <2>4. LET q == reply(rep, Unbound) \o <<>>
        IN  CP!ReplyVerdict(q) = "reply" /\ CP!parse_reply(q).rep = rep
    <3>1. rep \in Byte /\ <<>> \in Bytes
      BY <1>1, <2>1
    <3>2. /\ Unbound \in Address /\ Encodable(Unbound.host) /\ Canonical(Unbound.host)
          /\ Unbound.host.raw \notin Undecodable \/ Unbound.host.atyp # Domain
      BY <2>3, UnboundType
    <3>3. \A t \in Bytes :
            LET q == reply(rep, Unbound) \o t
            IN  CP!ReplyVerdict(q) = "reply" /\ CP!parse_reply(q).rep = rep
      BY <3>1, <3>2, ReplyRead
    <3> QED
      BY <3>1, <3>3, Zenon
  <2>5. CP!ReplyVerdict(r) = "reply" /\ CP!parse_reply(r).rep = rep
    BY <2>1, <2>2, <2>4, Zenon
  <2> QED
    BY <1>3, <2>5 DEF Understood
<1>4. CASE Granted /\ r = reply(Rep.SUCCEEDED, dec.connectedBnd) \o HB
  <2>1. /\ dec.connectedBnd \in Address /\ Canonical(dec.connectedBnd.host)
        /\ \/ dec.connectedBnd.host.raw \notin Undecodable
           \/ dec.connectedBnd.host.atyp # Domain
        /\ Encodable(dec.connectedBnd.host)
    BY <1>4, BoundIsReadable DEF Granted
  <2>2. /\ CP!ReplyVerdict(r) = "reply"
        /\ CP!parse_reply(r).rep = Rep.SUCCEEDED /\ CP!parse_reply(r).bound = dec.connectedBnd
        /\ Drop(r, CP!Size(r)) = HB
    BY <1>1, <1>4, <2>1, ReplyRead
  <2> QED
    BY <1>4, <2>2 DEF Understood
<1> QED
  BY <1>2, <1>3, <1>4 DEF ReplyHeard

LEMMA Meaning ==
  ASSUME DriverInv, Answering, BannerLast, Heard, ClientSaid, cAuth \in BOOLEAN,
         connects \in Nat, attempt \in {1, 2}
  PROVE  Understood
<1>1. ServerSaid(cStream)
  BY Hearing
<1>2. Method.NO_AUTH \in Byte /\ Method.USERPASS \in Byte /\ Method.NO_ACCEPTABLE \in Byte
  BY ByteFacts DEF Method
<1>3. /\ CP!method \in {Method.NO_AUTH, Method.USERPASS}
      /\ cAuth => CP!method = Method.USERPASS
  BY SameCodec DEF CP!method
<1>4. Method.NO_AUTH # Method.USERPASS /\ Method.NO_ACCEPTABLE \notin {Method.NO_AUTH, Method.USERPASS}
  BY CodecAssumption DEF Method
<1>5. CASE Unfinished /\ cStream = <<>>
  <2>1. CP!Deserved = "need"
    BY <1>5, Assumed, CP!NothingMeans
  <2> QED
    BY <1>5, <2>1 DEF Understood
<1>6. CASE IsSaid("no method") /\ cStream = method_selection(Method.NO_ACCEPTABLE)
  <2>1. <<>> \in Bytes /\ method_selection(Method.NO_ACCEPTABLE) \in Bytes
    BY <1>2, ByteFacts, EmptyConcat DEF method_selection, Bytes, Ver
  <2>2. cStream = method_selection(Method.NO_ACCEPTABLE) \o <<>>
    BY <1>6, <2>1, EmptyConcat
  <2>3. Method.NO_ACCEPTABLE # CP!method
    BY <1>3, <1>4
  <2>4. CP!Deserved = "method"
    BY <1>2, <2>1, <2>2, <2>3, MethodRead
  <2> QED
    BY <1>6, <2>4 DEF Understood, Excuse, ServerRefused
<1>7. CASE /\ requireAuth /\ log # <<>> /\ OffersUserpass(stream)
           /\ \E l \in Bytes : cStream = method_selection(Method.USERPASS) \o l /\ LoginHeard(l)
  <2>1. PICK l \in Bytes : cStream = method_selection(Method.USERPASS) \o l /\ LoginHeard(l)
    BY <1>7
  <2>2. stream # <<>>
    <3>1. Len(<<>>) = 0
      OBVIOUS
    <3> QED
      BY <1>7, <3>1 DEF Answering, Greeted, HasGreeting
  <2>3. cAuth
    BY <1>7, <2>2, StreamMeans
  <2>4. CASE Unfinished /\ l = <<>>
    BY <2>1, <2>3, <2>4, LoginRead DEF Understood
  <2>5. CASE IsSaid("refused") /\ l = auth_reply(1)
    BY <2>1, <2>3, <2>5, LoginRead DEF Understood, Excuse, ServerRefused
  <2>6. CASE \E r \in Bytes : l = auth_reply(0) \o r /\ ReplyHeard(r)
    <3>1. PICK r \in Bytes : l = auth_reply(0) \o r /\ ReplyHeard(r)
      BY <2>6
    <3>2. CP!Deserved = CP!ReplyVerdict(r) /\ CP!ReplyPart = r
      BY <2>1, <2>3, <3>1, LoginRead
    <3> QED
      BY <3>1, <3>2, AnswerMeans
  <2> QED
    BY <2>1, <2>4, <2>5, <2>6 DEF LoginHeard
<1>8. CASE /\ ~requireAuth
           /\ \E r \in Bytes : cStream = method_selection(Method.NO_AUTH) \o r /\ ReplyHeard(r)
  <2>1. PICK r \in Bytes : cStream = method_selection(Method.NO_AUTH) \o r /\ ReplyHeard(r)
    BY <1>8
  <2>2. CASE attempt = 2 \/ ~cAuth
    <3>1. CP!Deserved = CP!ReplyVerdict(r) /\ CP!ReplyPart = r
      BY <2>1, <2>2, PlainRead
    <3> QED
      BY <2>1, <3>1, AnswerMeans
  <2>3. CASE attempt = 1 /\ cAuth
    <3>1. cStream = method_selection(Method.NO_AUTH) \o r /\ r \in Bytes /\ cAuth
      BY <2>1, <2>3
    <3>2. attempt # 2 /\ Method.NO_AUTH # CP!method /\ Method.NO_AUTH \in Byte
          /\ cAuth \in BOOLEAN
      BY <1>2, <1>3, <1>4, <2>3
    <3>3. CP!Deserved = "method"
      BY <3>1, <3>2, MethodRead, Zenon
    <3> QED
      BY <1>8, <2>3, <3>3 DEF Understood, Excuse
  <2> QED
    BY <2>2, <2>3
<1> QED
  BY <1>1, <1>5, <1>6, <1>7, <1>8 DEF ServerSaid

-----------------------------------------------------------------------------
(* What a step adds to the conversation. *)

LEMMA SameVoices ==
  ASSUME DriverTypeOK, \A i \in 1 .. answered : log'[i] = log[i],
         \/ answered' = answered
         \/ answered' = answered + 1 /\ log'[answered + 1].type # "Send"
  PROVE  Voices' = Voices
<1>1. answered \in Nat
  BY DEF DriverTypeOK, TypeOK
<1>2. ASSUME NEW i \in Nat
      PROVE  Voice(i)' = Voice(i)
  BY <1>1 DEF Voice
<1>3. /\ Voice(1)' = Voice(1) /\ Voice(2)' = Voice(2) /\ Voice(3)' = Voice(3)
      /\ Voice(4)' = Voice(4) /\ Voice(5)' = Voice(5)
  BY <1>2
<1> QED
  BY <1>3, Zenon DEF Voices

Five(a, b, c, d, e) == (((a \o b) \o c) \o d) \o e

LEMMA FiveGrow ==
  ASSUME NEW x \in Bytes
  PROVE  /\ Five(x, <<>>, <<>>, <<>>, <<>>) = Five(<<>>, <<>>, <<>>, <<>>, <<>>) \o x
         /\ \A a \in Bytes : Five(a, x, <<>>, <<>>, <<>>) = Five(a, <<>>, <<>>, <<>>, <<>>) \o x
         /\ \A a, b \in Bytes :
              Five(a, b, x, <<>>, <<>>) = Five(a, b, <<>>, <<>>, <<>>) \o x
         /\ \A a, b, c \in Bytes : Five(a, b, c, x, <<>>) = Five(a, b, c, <<>>, <<>>) \o x
         /\ \A a, b, c, d \in Bytes : Five(a, b, c, d, x) = Five(a, b, c, d, <<>>) \o x
<1>1. <<>> \o <<>> = <<>> /\ <<>> \o x = x /\ x \o <<>> = x
  BY EmptyConcat
<1>2. Five(x, <<>>, <<>>, <<>>, <<>>) = Five(<<>>, <<>>, <<>>, <<>>, <<>>) \o x
  BY <1>1, Zenon DEF Five
<1>3. ASSUME NEW a \in Bytes
      PROVE  Five(a, x, <<>>, <<>>, <<>>) = Five(a, <<>>, <<>>, <<>>, <<>>) \o x
  <2> DEFINE ax == a \o x
  <2>1. ax \in Bytes
    BY ConcatType
  <2>2. a \o <<>> = a
    BY EmptyConcat
  <2>3. ax \o <<>> = ax
    <3> HIDE DEF ax
    <3> QED
      BY <2>1, EmptyConcat
  <2> QED
    BY <2>2, <2>3, Zenon DEF Five
<1>4. ASSUME NEW a \in Bytes, NEW b \in Bytes
      PROVE  Five(a, b, x, <<>>, <<>>) = Five(a, b, <<>>, <<>>, <<>>) \o x
  <2> DEFINE ab  == a \o b
             abx == ab \o x
  <2>1. ab \in Bytes
    BY ConcatType
  <2>2. ab \o <<>> = ab /\ abx \in Bytes
    <3> HIDE DEF ab
    <3> QED
      BY <2>1, EmptyConcat, ConcatType
  <2>3. abx \o <<>> = abx
    <3> HIDE DEF abx
    <3> QED
      BY <2>2, EmptyConcat
  <2> QED
    BY <2>2, <2>3, Zenon DEF Five
<1>5. ASSUME NEW a \in Bytes, NEW b \in Bytes, NEW c \in Bytes
      PROVE  Five(a, b, c, x, <<>>) = Five(a, b, c, <<>>, <<>>) \o x
  <2> DEFINE ab   == a \o b
             abc  == ab \o c
             abcx == abc \o x
  <2>1. ab \in Bytes
    BY ConcatType
  <2>2. abc \in Bytes
    <3> HIDE DEF ab
    <3> QED
      BY <2>1, ConcatType
  <2>3. abc \o <<>> = abc /\ abcx \in Bytes
    <3> HIDE DEF abc
    <3> QED
      BY <2>2, EmptyConcat, ConcatType
  <2>4. abcx \o <<>> = abcx
    <3> HIDE DEF abcx
    <3> QED
      BY <2>3, EmptyConcat
  <2> QED
    BY <2>3, <2>4, Zenon DEF Five
<1>6. ASSUME NEW a \in Bytes, NEW b \in Bytes, NEW c \in Bytes, NEW d \in Bytes
      PROVE  Five(a, b, c, d, x) = Five(a, b, c, d, <<>>) \o x
  <2> DEFINE ab   == a \o b
             abc  == ab \o c
             abcd == abc \o d
  <2>1. ab \in Bytes
    BY ConcatType
  <2>2. abc \in Bytes
    <3> HIDE DEF ab
    <3> QED
      BY <2>1, ConcatType
  <2>3. abcd \in Bytes
    <3> HIDE DEF abc
    <3> QED
      BY <2>2, ConcatType
  <2>4. abcd \o <<>> = abcd
    <3> HIDE DEF abcd
    <3> QED
      BY <2>3, EmptyConcat
  <2> QED
    BY <2>4, Zenon DEF Five
<1> QED
  BY <1>2, <1>3, <1>4, <1>5, <1>6

LEMMA OneMoreVoice ==
  ASSUME DriverTypeOK, log' = log, answered' = answered + 1,
         NEW k \in 1 .. 5, k = answered + 1, k \in DOMAIN log, log[k].type = "Send"
  PROVE  log[k].data \in Bytes /\ Voices' = Voices \o log[k].data
<1> DEFINE x == log[k].data
<1>1. answered \in Nat
  BY DEF DriverTypeOK, TypeOK
<1>2. x \in Bytes
  <2>1. log[k] \in LastingEvent
    BY DEF DriverTypeOK, TypeOK
  <2> QED
    BY <2>1 DEF LastingEvent, SendEvent, RelayEvent
<1>3. Voice(k)' = x
  <2>1. k \in 1 .. answered'
    BY <1>1
  <2> QED
    BY <2>1 DEF Voice
<1>4. ASSUME NEW i \in 1 .. 5
      PROVE  /\ i < k => Voice(i)' = Voice(i)
             /\ i >= k => Voice(i) = <<>>
             /\ i > k => Voice(i)' = <<>>
  BY <1>1 DEF Voice
<1>5. \A i : Voice(i) \in Bytes
  BY VoiceTypes
<1> HIDE DEF x
<1>6. /\ Voices = Five(Voice(1), Voice(2), Voice(3), Voice(4), Voice(5))
      /\ Voices' = Five(Voice(1)', Voice(2)', Voice(3)', Voice(4)', Voice(5)')
  BY DEF Voices, Five
<1>7. CASE k = 1
  <2>1. /\ Voice(1) = <<>> /\ Voice(2) = <<>> /\ Voice(3) = <<>> /\ Voice(4) = <<>>
        /\ Voice(5) = <<>>
        /\ Voice(1)' = x /\ Voice(2)' = <<>> /\ Voice(3)' = <<>> /\ Voice(4)' = <<>>
        /\ Voice(5)' = <<>>
    BY <1>3, <1>4, <1>7
  <2>2. Five(x, <<>>, <<>>, <<>>, <<>>) = Five(<<>>, <<>>, <<>>, <<>>, <<>>) \o x
    BY <1>2, FiveGrow
  <2>3. /\ Voices = Five(<<>>, <<>>, <<>>, <<>>, <<>>)
        /\ Voices' = Five(x, <<>>, <<>>, <<>>, <<>>)
    BY <1>6, <2>1, Zenon
  <2>4. Voices' = Voices \o x
    BY <2>2, <2>3, Zenon
  <2> QED
    BY <1>2, <2>4 DEF x
<1>8. CASE k = 2
  <2>1. /\ Voice(2) = <<>> /\ Voice(3) = <<>> /\ Voice(4) = <<>> /\ Voice(5) = <<>>
        /\ Voice(1)' = Voice(1) /\ Voice(2)' = x /\ Voice(3)' = <<>> /\ Voice(4)' = <<>>
        /\ Voice(5)' = <<>>
    BY <1>3, <1>4, <1>8
  <2>2. \A a \in Bytes : Five(a, x, <<>>, <<>>, <<>>) = Five(a, <<>>, <<>>, <<>>, <<>>) \o x
    BY <1>2, FiveGrow
  <2>3. /\ Voices = Five(Voice(1), <<>>, <<>>, <<>>, <<>>)
        /\ Voices' = Five(Voice(1), x, <<>>, <<>>, <<>>)
    BY <1>6, <2>1, Zenon
  <2>4. Five(Voice(1), x, <<>>, <<>>, <<>>)
          = Five(Voice(1), <<>>, <<>>, <<>>, <<>>) \o x
    BY <1>5, <2>2, Zenon
  <2>5. Voices' = Voices \o x
    BY <2>3, <2>4, Zenon
  <2> QED
    BY <1>2, <2>5 DEF x
<1>9. CASE k = 3
  <2>1. /\ Voice(3) = <<>> /\ Voice(4) = <<>> /\ Voice(5) = <<>>
        /\ Voice(1)' = Voice(1) /\ Voice(2)' = Voice(2) /\ Voice(3)' = x
        /\ Voice(4)' = <<>> /\ Voice(5)' = <<>>
    BY <1>3, <1>4, <1>9
  <2>2. \A a, b \in Bytes :
          Five(a, b, x, <<>>, <<>>) = Five(a, b, <<>>, <<>>, <<>>) \o x
    BY <1>2, FiveGrow
  <2>3. /\ Voices = Five(Voice(1), Voice(2), <<>>, <<>>, <<>>)
        /\ Voices' = Five(Voice(1), Voice(2), x, <<>>, <<>>)
    BY <1>6, <2>1, Zenon
  <2>4. Five(Voice(1), Voice(2), x, <<>>, <<>>)
          = Five(Voice(1), Voice(2), <<>>, <<>>, <<>>) \o x
    BY <1>5, <2>2, Zenon
  <2>5. Voices' = Voices \o x
    BY <2>3, <2>4, Zenon
  <2> QED
    BY <1>2, <2>5 DEF x
<1>10. CASE k = 4
  <2>1. /\ Voice(4) = <<>> /\ Voice(5) = <<>>
        /\ Voice(1)' = Voice(1) /\ Voice(2)' = Voice(2) /\ Voice(3)' = Voice(3)
        /\ Voice(4)' = x /\ Voice(5)' = <<>>
    BY <1>3, <1>4, <1>10
  <2>2. \A a, b, c \in Bytes : Five(a, b, c, x, <<>>) = Five(a, b, c, <<>>, <<>>) \o x
    BY <1>2, FiveGrow
  <2>3. /\ Voices = Five(Voice(1), Voice(2), Voice(3), <<>>, <<>>)
        /\ Voices' = Five(Voice(1), Voice(2), Voice(3), x, <<>>)
    BY <1>6, <2>1, Zenon
  <2>4. Five(Voice(1), Voice(2), Voice(3), x, <<>>)
          = Five(Voice(1), Voice(2), Voice(3), <<>>, <<>>) \o x
    BY <1>5, <2>2, Zenon
  <2>5. Voices' = Voices \o x
    BY <2>3, <2>4, Zenon
  <2> QED
    BY <1>2, <2>5 DEF x
<1>11. CASE k = 5
  <2>1. /\ Voice(5) = <<>>
        /\ Voice(1)' = Voice(1) /\ Voice(2)' = Voice(2) /\ Voice(3)' = Voice(3)
        /\ Voice(4)' = Voice(4) /\ Voice(5)' = x
    BY <1>3, <1>4, <1>11
  <2>2. \A a, b, c, d \in Bytes : Five(a, b, c, d, x) = Five(a, b, c, d, <<>>) \o x
    BY <1>2, FiveGrow
  <2>3. /\ Voices = Five(Voice(1), Voice(2), Voice(3), Voice(4), <<>>)
        /\ Voices' = Five(Voice(1), Voice(2), Voice(3), Voice(4), x)
    BY <1>6, <2>1, Zenon
  <2>4. Five(Voice(1), Voice(2), Voice(3), Voice(4), x)
          = Five(Voice(1), Voice(2), Voice(3), Voice(4), <<>>) \o x
    BY <1>5, <2>2, Zenon
  <2>5. Voices' = Voices \o x
    BY <2>3, <2>4, Zenon
  <2> QED
    BY <1>2, <2>5 DEF x
<1>12. k = 1 \/ k = 2 \/ k = 3 \/ k = 4 \/ k = 5
  OBVIOUS
<1> QED
  BY <1>7, <1>8, <1>9, <1>10, <1>11, <1>12, Zenon

\* What a step of the server leaves of the conversation.
Onward ==
  /\ stream' = stream /\ requireAuth' = requireAuth
  /\ Len(log') \in Nat /\ Len(log') >= Len(log) /\ \A i \in 1 .. Len(log) : log'[i] = log[i]
  /\ \/ answered' = answered
     \/ answered' = answered + 1 /\ answered + 1 = Len(log) /\ log[answered + 1].type # "Send"
  /\ IsSaid("success") => dec'.connectedBnd = dec.connectedBnd
  /\ downstream = "closed" => downstream' = "closed"
  /\ end # None => end' = end /\ answered' = answered
  /\ end' \in {"eof", "error"} => end' = end \/ conn = "closed"
  /\ end' = "relay" => end = "relay" \/ (pc = "Relay" /\ answered' = Len(log))
  /\ pc \in {"Relay", "finally", "done"} => pc' \in {"Relay", "finally", "done"} /\ log' = log

LEMMA AtEvent ==
  ASSUME DriverInv, Answering, pc \in {"Send", "Authorize", "Connect", "Relay"}
  PROVE  /\ Len(log) \in Nat /\ answered \in Nat /\ answered + 1 = Len(log)
         /\ answered + 1 \in DOMAIN log /\ DOMAIN log = 1 .. Len(log)
         /\ log[answered + 1] = ev /\ log[Len(log)] = ev /\ ev.type = pc /\ end = None
<1>1. TypeOK /\ DriverTypeOK
  BY DEF DriverInv, DriverTypeOK
<1>2. Len(log) \in Nat /\ DOMAIN log = 1 .. Len(log)
  BY <1>1 DEF TypeOK
<1>3. answered \in Nat
  BY <1>1, <1>2 DEF DriverTypeOK
<1>4. answered = Len(log) - 1
  BY DEF DriverInv, InStep
<1>5. end = None
  BY <1>1 DEF DriverTypeOK
<1>6. ev = log[Len(log)] /\ ev.type = pc
  BY DEF Answering
<1>7. answered + 1 = Len(log) /\ answered + 1 \in 1 .. Len(log)
  BY <1>2, <1>3, <1>4
<1> QED
  BY <1>2, <1>3, <1>5, <1>6, <1>7

LEMMA PullGoesOn ==
  ASSUME DriverInv, Answering, Pull
  PROVE  Onward
<1>1. /\ Turn /\ TypeOK /\ Session
      /\ pc = "next" /\ answered = Len(log) /\ Len(log) \in Nat /\ end = None
      /\ UNCHANGED <<downstream, answered, requireAuth, stream>>
  BY PullFacts DEF DriverInv
<1>2. next_event /\ end' \in {end, "crash", "close"}
  BY DEF Pull, Leave, Continue
<1>3. IsSaid("success") => dec'.connectedBnd = dec.connectedBnd
  BY <1>1, <1>2, TurnDecides, NoneBeforeRequest
<1>4. Len(log') \in Nat /\ Len(log') >= Len(log) /\ \A i \in 1 .. Len(log) : log'[i] = log[i]
  <2>1. CASE log' = log
    BY <1>1, <2>1
  <2>2. CASE log' = Append(log, ev')
    <3>1. log \in Seq(LastingEvent)
      BY <1>1 DEF TypeOK
    <3>2. LET m == Append(log, ev')
          IN  Len(m) = Len(log) + 1 /\ \A i \in 1 .. Len(log) : m[i] = log[i]
      BY <3>1, OneMore
    <3> QED
      BY <1>1, <2>2, <3>2
  <2> QED
    BY <1>1, <2>1, <2>2, TurnSays
<1>5. None \notin {"close", "relay", "eof", "error", "crash", "exit", "cut"}
  BY DriverAssumption
<1> QED
  BY <1>1, <1>2, <1>3, <1>4, <1>5 DEF Onward

LEMMA DriverGoesOn ==
  ASSUME DriverInv, Answering, log' = log, stream' = stream, requireAuth' = requireAuth,
         answered' = answered \/ (answered' = answered + 1 /\ pc \in {"Authorize", "Connect", "Relay"}),
         dec'.connectedBnd = dec.connectedBnd \/ state = "connect_wait",
         downstream = "closed" => downstream' = "closed",
         pc \in {"finally", "done"} => end' = end /\ answered' = answered,
         end' \in {"eof", "error"} => end' = end \/ conn = "closed",
         end' = "relay" => end = "relay" \/ (pc = "Relay" /\ answered' = answered + 1),
         pc \in {"Relay", "finally", "done"} => pc' \in {"Relay", "finally", "done"}
  PROVE  Onward
<1>1. Len(log) \in Nat /\ Len(log') >= Len(log)
  BY DEF DriverInv, DriverTypeOK, TypeOK
<1>2. answered' # answered => /\ answered + 1 = Len(log)
                              /\ log[answered + 1].type # "Send"
  <2> SUFFICES ASSUME answered' # answered
               PROVE  answered + 1 = Len(log) /\ log[answered + 1].type # "Send"
    OBVIOUS
  <2>1. pc \in {"Authorize", "Connect", "Relay"}
    OBVIOUS
  <2>2. answered + 1 = Len(log) /\ log[answered + 1].type = pc
    BY <2>1, AtEvent
  <2> QED
    BY <2>1, <2>2
<1>3. IsSaid("success") => dec'.connectedBnd = dec.connectedBnd
  BY NoVerdictYet DEF DriverInv
<1>4. end # None => pc \in {"finally", "done"}
  BY DEF DriverInv, DriverTypeOK
<1>5. end' = "relay" => end = "relay" \/ (pc = "Relay" /\ answered' = Len(log))
  BY AtEvent
<1> QED
  BY <1>1, <1>2, <1>3, <1>4, <1>5 DEF Onward

LEMMA ServerGoesOn ==
  ASSUME DriverInv, Answering, Server
  PROVE  Onward
<1>1. dec \in Decisions
  BY DEF DriverInv, Session, Conversing, TypeOK
<1>2. CASE Pull
  BY <1>2, PullGoesOn
<1>3. CASE Recv
  BY <1>3, DriverGoesOn DEF Recv, receive, Continue, sockets
<1>4. CASE Hooks
  <2>1. /\ UNCHANGED <<stream, requireAuth, log, driver>>
        /\ dec'.connectedBnd = dec.connectedBnd
    BY <1>1, <1>4 DEF Hooks, HookCalls, HookCall, ok, reject, set_target, pipe, relay_raw,
       intercept, Decide, peer, Decisions
  <2>2. pc \in {"Authorize", "Connect"}
    BY <1>4 DEF Hooks, HookCalls
  <2> QED
    BY <2>1, <2>2, DriverGoesOn DEF driver
<1>5. CASE HooksReturn
  <2>1. CASE AuthorizeReturns \/ OnConnectRejected
    BY <2>1, DriverGoesOn DEF AuthorizeReturns, OnConnectRejected, Continue, vars, peer, sockets
  <2>2. CASE OnConnectIntercepted
    <3>1. pc = "Connect" /\ state = "connect_wait"
      BY <2>2, Undecided DEF OnConnectIntercepted
    <3> QED
      BY <2>2, <3>1, DriverGoesOn DEF OnConnectIntercepted, connected, Decide, peer, Continue,
         sockets
  <2> QED
    BY <1>5, <2>1, <2>2 DEF HooksReturn
<1>6. CASE Dial
  <2>1. pc = "Connect" /\ state = "connect_wait"
    BY <1>6, Undecided DEF Dial, DialSucceeds, DialFails, DialRaises, DialUnnamed,
       Dialling
  <2>2. CASE DialSucceeds
    BY <2>1, <2>2, DriverGoesOn DEF DialSucceeds, connected, Decide, peer, Continue
  <2>3. CASE DialFails
    BY <2>1, <2>3, DriverGoesOn DEF DialFails, connect_failed, Decide, peer, Continue, sockets
  <2>4. CASE DialRaises
    BY <2>1, <2>4, DriverGoesOn DEF DialRaises, Leave, vars, peer, sockets
  <2>5. CASE DialUnnamed
    BY <2>1, <2>5, DriverGoesOn DEF DialUnnamed, Leave, vars, peer
  <2> QED
    BY <1>6, <2>2, <2>3, <2>4, <2>5 DEF Dial
<1>7. CASE AuthorizeRaises \/ OnConnectRaises
  <2>1. /\ UNCHANGED <<stream, requireAuth, log, end, downstream>>
        /\ pc \in {"Authorize", "Connect"} /\ pc' = "next" /\ answered' = answered + 1
        /\ dec'.connectedBnd = dec.connectedBnd
    BY <1>1, <1>7 DEF AuthorizeRaises, OnConnectRaises, reject, Decide, Continue, peer,
       Decisions, sockets
  <2> QED
    BY <2>1, DriverGoesOn
<1>8. CASE RelayEnds \/ Exit
  BY <1>8, DriverGoesOn DEF RelayEnds, Exit, Exits, Leave, vars, peer, sockets
<1>9. CASE Ended
  BY <1>9, DriverGoesOn DEF Ended, RecvEOF, SocketError, PeerCloses, Leave, vars, peer, sockets
<1>10. CASE Teardown
  BY <1>10, DriverGoesOn DEF Teardown, vars, peer
<1> QED
  BY <1>2, <1>3, <1>4, <1>5, <1>6, <1>7, <1>8, <1>9, <1>10 DEF Server

LEMMA StaysSaid ==
  ASSUME TypeOK, TypeOK', Onward, NEW k, IsSaid(k)
  PROVE  IsSaid(k)'
<1>1. PICK i \in DOMAIN log : Kind(log[i]) = k
  BY DEF IsSaid
<1>2. Len(log) \in Nat /\ DOMAIN log = 1 .. Len(log)
      /\ Len(log') \in Nat /\ DOMAIN log' = 1 .. Len(log')
  BY DEF TypeOK
<1>3. i \in DOMAIN log' /\ log'[i] = log[i]
  BY <1>2 DEF Onward
<1> QED
  BY <1>1, <1>3 DEF IsSaid

LEMMA ClientRests ==
  ASSUME ClientSaid, ClientHalf, UNCHANGED <<client, probe>>, stream' = stream
  PROVE  ClientSaid' /\ ClientHalf'
<1>1. /\ UNCHANGED <<cStream, cInflight, cAuth, cBuf, cState, cReply, cFeeding, cResult, cpc,
                     got, sent, gone, expired, conn, outcome, connects, sock, bound, leftover>>
      /\ attempt' = attempt /\ first' = first
  BY DEF client, cRest, cCall, probe
<1>2. CP!ClientTypeOK'
  BY <1>1 DEF ClientHalf, CP!ClientTypeOK, CP!TypeOK
<1>3. cpc' # "idle" => CP!ClientInv'
  <2>1. UNCHANGED CP!clientVars
    BY <1>1 DEF CP!clientVars, CP!session, CP!object, CP!clock
  <2> QED
    BY <1>1, <2>1, Assumed, CP!ClientNextKeeps DEF ClientHalf
<1>4. CP!SaysRight(connects = 2)'
  BY <1>1 DEF ClientSaid, CP!SaysRight, CP!Tails, CP!Hello, CP!Offered, CP!method, CP!Ask,
     CP!Login
<1> QED
  BY <1>1, <1>2, <1>3, <1>4 DEF ClientSaid, ClientHalf

LEMMA ServerInv ==
  ASSUME DriverInv, Answering, Server
  PROVE  DriverInv' /\ Answering'
<1>1. DriverNext
  BY DEF Server, DriverNext, Handshake, HooksReturn, Hooks, Ended
<1>2. DriverInv'
  BY <1>1, DriverNextInv
<1>3. Answering'
  BY PullAnswers, OthersAnswer DEF Server, HooksReturn, Ended
<1> QED
  BY <1>2, <1>3

LEMMA ServerKeeps ==
  ASSUME E2EInv, Server
  PROVE  E2EInv'
<1>1. /\ UNCHANGED <<client, probe>> /\ spoken' = spoken
      /\ UNCHANGED <<cStream, cInflight, cpc, gone, expired, conn, outcome, connects, sock,
                     bound, leftover, attempt, first, cAuth>>
  BY DEF Server, client, cRest, cCall, probe
<1>2. /\ DriverInv' /\ Answering' /\ Onward
      /\ DriverTypeOK /\ DriverTypeOK' /\ TypeOK /\ TypeOK'
  BY ServerInv, ServerGoesOn DEF E2EInv, DriverInv, DriverTypeOK
<1>3. ClientSaid' /\ ClientHalf'
  BY <1>1, <1>2, ClientRests DEF E2EInv, Onward
<1>4. answered \in 0 .. Len(log) /\ Len(log) \in Nat /\ answered \in Nat
  BY <1>2 DEF DriverTypeOK, TypeOK
<1>5. Heard'
  <2>1. \A i \in 1 .. answered : log'[i] = log[i]
    BY <1>2, <1>4 DEF Onward
  <2>2. \/ answered' = answered
        \/ answered' = answered + 1 /\ log'[answered + 1].type # "Send"
    BY <1>2, <1>4 DEF Onward
  <2>3. Voices' = Voices
    BY <1>2, <2>1, <2>2, SameVoices
  <2>4. HB' = HB
    BY <1>1 DEF HB
  <2> QED
    BY <1>1, <2>3, <2>4, Zenon DEF E2EInv, Heard
<1>6. BannerLast'
  <2>1. spoken' => pc' \in {"Relay", "finally", "done"}
    BY <1>1, <1>2 DEF E2EInv, BannerLast, Onward
  <2>2. None # "relay"
    BY DriverAssumption
  <2>3. end = "relay" => pc \in {"finally", "done"}
    BY <1>2, <2>2 DEF DriverTypeOK
  <2>4. end' = "relay" => pc \in {"Relay", "finally", "done"}
    BY <1>2, <2>3 DEF Onward
  <2>5. spoken' \/ end' = "relay" => log # <<>> /\ log[Len(log)].type = "Relay"
    <3>1. pc = "Relay" => log # <<>> /\ log[Len(log)].type = "Relay"
      BY DEF E2EInv, Answering
    <3> QED
      BY <1>1, <1>2, <3>1 DEF E2EInv, BannerLast, Onward
  <2>6. spoken' \/ end' = "relay" => log' # <<>> /\ log'[Len(log')].type = "Relay"
    BY <1>1, <1>2, <2>4, <2>5 DEF E2EInv, BannerLast, Onward
  <2>7. end' = "relay" => answered' = Len(log')
    BY <1>2, <2>2, <2>4 DEF E2EInv, BannerLast, Onward
  <2> QED
    BY <2>1, <2>6, <2>7 DEF BannerLast
<1>7. Wire'
  BY <1>1, <1>2 DEF E2EInv, Wire, Onward
<1>8. Connected'
  <2> SUFFICES ASSUME sock # None
      PROVE  /\ cpc = "idle" /\ connects = attempt /\ outcome = "connected"
             /\ IsSaid("success")' /\ answered' >= Start' + 2
             /\ bound = dec'.connectedBnd /\ leftover \o cInflight = HB'
    BY <1>1 DEF Connected
  <2>1. /\ cpc = "idle" /\ connects = attempt /\ outcome = "connected"
        /\ IsSaid("success") /\ answered >= Start + 2
        /\ bound = dec.connectedBnd /\ leftover \o cInflight = HB
    BY DEF E2EInv, Connected
  <2>2. IsSaid("success")'
    BY <1>2, <2>1, StaysSaid
  <2>3. Start' = Start /\ HB' = HB /\ Start \in Nat
    BY <1>1, <1>2 DEF Start, HB, Onward
  <2>4. answered' >= Start' + 2
    BY <1>2, <1>4, <2>1, <2>3 DEF Onward
  <2>5. dec'.connectedBnd = dec.connectedBnd
    BY <1>2, <2>1 DEF Onward
  <2> QED
    BY <2>1, <2>2, <2>3, <2>4, <2>5
<1>9. Excused'
  <2>1. Excuse => Excuse'
    <3>1. ServerRefused => ServerRefused'
      <4>1. None \notin {"crash", "exit", "cut"}
        BY DriverAssumption
      <4>2. end \in {"crash", "exit", "cut"} => end' \in {"crash", "exit", "cut"}
        BY <1>2, <4>1 DEF Onward
      <4>3. \A k \in {"failure", "refused", "no method"} : IsSaid(k) => IsSaid(k)'
        BY <1>2, StaysSaid
      <4> QED
        BY <4>2, <4>3 DEF ServerRefused
    <3> QED
      BY <1>1, <1>2, <3>1 DEF Excuse, Onward
  <2> QED
    BY <1>1, <2>1 DEF E2EInv, Excused
<1> QED
  BY <1>2, <1>3, <1>5, <1>6, <1>7, <1>8, <1>9 DEF E2EInv

\* The client hears what is sent, whatever it is about.
LEMMA ClientHears ==
  ASSUME ClientSaid, ClientHalf, NEW data \in Bytes, Delivers(data), stream' = stream
  PROVE  ClientSaid' /\ ClientHalf'
<1>1. /\ UNCHANGED <<cAuth, cBuf, cState, cReply, cFeeding, cResult, cpc,
                     got, sent, gone, expired, conn, outcome, connects, sock, bound, leftover>>
      /\ attempt' = attempt /\ first' = first
      /\ cStream' = cStream \o data /\ cInflight' = cInflight \o data
  BY DEF Delivers, cRest, cCall, probe
<1>2. CP!ProxySays(data)
  BY <1>1 DEF CP!ProxySays, CP!object, CP!clock
<1>3. data \in CP!Bytes
  BY SameCodec
<1>4. CP!ClientTypeOK'
  BY <1>2, <1>3, Assumed, CP!TypeListens DEF ClientHalf
<1>5. cpc' # "idle" => CP!ClientInv'
  BY <1>1, <1>2, <1>3, Assumed, CP!ClientListens DEF ClientHalf
<1>6. CP!SaysRight(connects = 2)'
  BY <1>1 DEF ClientSaid, CP!SaysRight, CP!Tails, CP!Hello, CP!Offered, CP!method, CP!Ask,
     CP!Login
<1> QED
  BY <1>1, <1>4, <1>5, <1>6 DEF ClientSaid, ClientHalf

\* A server that still sends has not handed over.
LEMMA SendsBefore ==
  ASSUME DriverInv, Answering, BannerLast, pc = "Send"
  PROVE  /\ answered + 1 \in 1 .. 5
         /\ ~(IsSaid("success") /\ answered >= Start + 2)
         /\ ~spoken
<1>1. /\ Len(log) \in Nat /\ answered \in Nat /\ answered + 1 = Len(log)
      /\ DOMAIN log = 1 .. Len(log) /\ log[Len(log)].type = "Send"
  BY AtEvent
<1>2. TypeOK /\ LegalConversation /\ requireAuth \in BOOLEAN
  BY StageLegal DEF DriverInv, Session, Conversing, TypeOK
<1>3. PICK c \in Conversations : Follows(c)
  BY <1>2, LogFollows
<1>4. Kind(log[Len(log)]) # "Relay"
  <2>1. log[Len(log)] \in LastingEvent
    BY <1>1, <1>2 DEF TypeOK
  <2> QED
    BY <1>1, <2>1, LastingKinds
<1>5. Start \in {1, 3}
  BY DEF Start
<1>6. Len(c) \in Nat /\ Len(log) <= Len(c) /\ c[Len(log)] # "Relay" /\ Script(c)
  <2>1. Len(log) \in 1 .. Len(log)
    BY <1>1
  <2> QED
    BY <1>3, <1>4, <2>1 DEF Follows
<1>7. Len(c) <= Start + 3 /\ (Len(c) = Start + 3 => c[Start + 3] = "Relay")
  <2>1. \/ Len(c) = 1 \/ Len(c) = 3 \/ Len(c) = Start + 1 \/ Len(c) = Start + 2
        \/ Len(c) = Start + 3 /\ c[Start + 3] = "Relay"
    BY <1>6, Zenon DEF Script
  <2> QED
    BY <1>5, <1>6, <2>1
<1>8. Len(log) # Start + 3
  <2>1. Len(log) = Start + 3 => Len(c) = Start + 3
    BY <1>1, <1>5, <1>6, <1>7
  <2> QED
    BY <1>6, <1>7, <2>1
<1>9. Len(log) <= 5
  BY <1>1, <1>5, <1>6, <1>7, <1>8
<1>10. ~(IsSaid("success") /\ answered >= Start + 2)
  <2> SUFFICES ASSUME answered >= Start + 2 PROVE FALSE
    OBVIOUS
  <2>1. Len(log) >= Start + 3
    BY <1>1, <1>5
  <2> QED
    BY <1>1, <1>5, <1>6, <1>7, <1>8, <2>1
<1>11. ~spoken
  BY DEF BannerLast
<1> QED
  BY <1>1, <1>9, <1>10, <1>11

LEMMA SendsKeep ==
  ASSUME E2EInv, ServerSends
  PROVE  E2EInv'
<1>1. /\ SendAll /\ Delivers(ev.data) /\ spoken' = spoken
      /\ DriverInv /\ Answering /\ BannerLast
      /\ DriverTypeOK /\ TypeOK
  BY DEF ServerSends, E2EInv, DriverInv, DriverTypeOK
<1>2. /\ pc = "Send" /\ pc' = "next" /\ end' = end /\ answered' = answered + 1
      /\ UNCHANGED <<stream, requireAuth, log, dec, downstream>>
  BY <1>1 DEF SendAll, Continue, vars, peer, sockets
<1>3. /\ answered \in Nat /\ answered + 1 \in DOMAIN log /\ log[answered + 1] = ev
      /\ ev.type = "Send" /\ end = None
  BY <1>1, <1>2, AtEvent
<1>4. /\ answered + 1 \in 1 .. 5
      /\ ~(IsSaid("success") /\ answered >= Start + 2)
      /\ ~spoken
  BY <1>1, <1>2, SendsBefore
<1>5. ev.data \in Bytes /\ Voices' = Voices \o ev.data
  <2> DEFINE k == answered + 1
  <2>1. k \in 1 .. 5 /\ k = answered + 1 /\ k \in DOMAIN log /\ log[k].type = "Send"
    BY <1>3, <1>4
  <2> HIDE DEF k
  <2>2. log[k].data \in Bytes /\ Voices' = Voices \o log[k].data
    BY <1>1, <1>2, <2>1, OneMoreVoice
  <2> QED
    BY <1>3, <2>2 DEF k
<1>6. DriverInv' /\ Answering'
  BY <1>1, DriverStepKeeps, OthersAnswer
<1>7. ClientSaid' /\ ClientHalf'
  BY <1>1, <1>2, <1>5, ClientHears DEF E2EInv
<1>8. /\ UNCHANGED <<cpc, gone, expired, conn, outcome, connects, sock, attempt, first, cAuth>>
      /\ cStream' = cStream \o ev.data
  BY <1>1 DEF Delivers, cRest, cCall, probe
<1>9. Heard'
  <2>1. Voices \in Bytes /\ Voices' \in Bytes
    <3>1. \A i : Voice(i) \in Bytes
      BY <1>1, VoiceTypes
    <3>2. Voices \in Bytes
      BY <3>1, ConcatType DEF Voices
    <3> QED
      BY <1>5, <3>2, ConcatType
  <2>2. HB = <<>> /\ HB' = <<>>
    BY <1>1, <1>4 DEF HB
  <2>3. Voices \o <<>> = Voices /\ Voices' \o <<>> = Voices'
    BY <2>1, EmptyConcat
  <2>4. cStream = Voices
    BY <2>2, <2>3, Zenon DEF E2EInv, Heard
  <2>5. cStream' = Voices'
    BY <1>5, <1>8, <2>4, Zenon
  <2> QED
    BY <2>2, <2>3, <2>5, Zenon DEF Heard
<1>10. BannerLast'
  <2>1. None # "relay"
    BY DriverAssumption
  <2> QED
    BY <1>1, <1>2, <1>3, <1>4, <2>1 DEF BannerLast
<1>11. Wire'
  BY <1>2, <1>8 DEF E2EInv, Wire
<1>12. Connected'
  BY <1>4, <1>8 DEF E2EInv, Connected
<1>13. Excused'
  BY <1>2, <1>8 DEF E2EInv, Excused, Excuse, ServerRefused, IsSaid
<1> QED
  BY <1>6, <1>7, <1>9, <1>10, <1>11, <1>12, <1>13 DEF E2EInv

LEMMA UpstreamKeeps ==
  ASSUME E2EInv, UpstreamSpeaks
  PROVE  E2EInv'
<1>1. /\ pc = "Relay" /\ ~spoken /\ spoken' = TRUE /\ Delivers(Banner)
      /\ UNCHANGED driverVars
      /\ DriverInv /\ Answering /\ BannerLast
      /\ DriverTypeOK /\ TypeOK
  BY DEF UpstreamSpeaks, E2EInv, DriverInv, DriverTypeOK
<1>2. UNCHANGED <<stream, requireAuth, log, dec, downstream, pc, end, answered>>
  BY <1>1 DEF driverVars, driver, vars, peer
<1>3. log # <<>> /\ log[Len(log)].type = "Relay" /\ end = None
  BY <1>1, AtEvent DEF Answering
<1>4. Banner \in Bytes
  BY E2EAssumption
<1>5. DriverInv' /\ Answering'
  BY <1>1, DriverStutter, OthersAnswer
<1>6. ClientSaid' /\ ClientHalf'
  BY <1>1, <1>2, <1>4, ClientHears DEF E2EInv
<1>7. /\ UNCHANGED <<cpc, gone, expired, conn, outcome, connects, sock, attempt, first, cAuth,
                     bound, leftover>>
      /\ cStream' = cStream \o Banner /\ cInflight' = cInflight \o Banner
  BY <1>1 DEF Delivers, cRest, cCall, probe
<1>8. HB = <<>> /\ HB' = Banner
  BY <1>1 DEF HB
<1>9. Heard'
  <2>1. Voices' = Voices
    BY <1>1, <1>2, SameVoices
  <2>2. Voices \in Bytes
    <3>1. \A i : Voice(i) \in Bytes
      BY <1>1, VoiceTypes
    <3> QED
      BY <3>1, ConcatType DEF Voices
  <2>3. Voices \o <<>> = Voices
    BY <2>2, EmptyConcat
  <2> QED
    BY <1>7, <1>8, <2>1, <2>3, Zenon DEF E2EInv, Heard
<1>10. BannerLast'
  <2>1. None # "relay"
    BY DriverAssumption
  <2> QED
    BY <1>1, <1>2, <1>3, <2>1 DEF BannerLast
<1>11. Wire'
  BY <1>2, <1>7 DEF E2EInv, Wire
<1>12. Connected'
  <2> SUFFICES ASSUME sock # None
      PROVE  /\ cpc = "idle" /\ connects = attempt /\ outcome = "connected"
             /\ IsSaid("success")' /\ answered >= Start' + 2
             /\ bound = dec.connectedBnd /\ leftover \o cInflight' = HB'
    BY <1>2, <1>7 DEF Connected
  <2>1. leftover \o cInflight = <<>>
    BY <1>8 DEF E2EInv, Connected
  <2>2. leftover \in Bytes /\ cInflight \in Bytes
    BY SameCodec DEF E2EInv, ClientHalf, CP!ClientTypeOK, CP!TypeOK
  <2>3. (leftover \o cInflight) \o Banner = leftover \o (cInflight \o Banner)
    BY <1>4, <2>2, BytesAssociative
  <2>4. <<>> \o Banner = Banner
    BY <1>4, EmptyConcat
  <2>5. leftover \o cInflight' = HB'
    BY <1>7, <1>8, <2>1, <2>3, <2>4, Zenon
  <2>6. Start' = Start /\ IsSaid("success")' = IsSaid("success")
    BY <1>2 DEF Start, IsSaid
  <2> QED
    BY <2>5, <2>6 DEF E2EInv, Connected
<1>13. Excused'
  BY <1>2, <1>7 DEF E2EInv, Excused, Excuse, ServerRefused, IsSaid
<1> QED
  BY <1>5, <1>6, <1>9, <1>10, <1>11, <1>12, <1>13 DEF E2EInv

\* A new connection: both ends as they start.
LEMMA FreshStart ==
  ASSUME FreshServer, requireAuth \in BOOLEAN, async \in BOOLEAN
  PROVE  DriverInv' /\ Answering' /\ Voices' = <<>>
<1>1. DriverInit'
  <2>1. <<>> \in Streams
    BY E2EAssumption
  <2>2. Init'
    BY <2>1 DEF FreshServer, Init
  <2> QED
    BY <2>2 DEF FreshServer, DriverInit
<1>2. (DriverInit => DriverInv /\ Answering)'
  BY DriverInitInv, InitAnswers, PTL
<1>3. answered' = 0
  BY DEF FreshServer
<1>4. \A i : Voice(i)' = <<>>
  BY <1>3 DEF Voice
<1>5. <<>> \o <<>> = <<>>
  BY EmptyConcat
<1>6. Voices' = <<>>
  BY <1>4, <1>5, Zenon DEF Voices
<1> QED
  BY <1>1, <1>2, <1>6

LEMMA TryKeeps ==
  ASSUME E2EInv, Try
  PROVE  E2EInv'
<1>1. /\ CP!Open /\ FreshServer /\ connects < attempt /\ attempt' = attempt /\ first' = first
      /\ ClientHalf /\ CP!ClientTypeOK
  BY SameStart DEF Try, E2EInv, ClientHalf, probe
<1>2. requireAuth \in BOOLEAN /\ async \in BOOLEAN
  BY DEF E2EInv, DriverInv, DriverTypeOK, TypeOK
<1>3. DriverInv' /\ Answering' /\ Voices' = <<>>
  BY <1>1, <1>2, FreshStart
<1>4. /\ stream' = <<>> /\ pc' = "next" /\ end' = None /\ spoken' = FALSE
  BY <1>1 DEF FreshServer
<1>5. /\ cStream' = <<>> /\ sent' = <<>> /\ cpc' # "idle" /\ conn' = "open" /\ gone' = FALSE
      /\ sock = None /\ sock' = None /\ connects' = connects + 1 /\ cAuth' = cAuth
      /\ leftover' = leftover
  BY <1>1 DEF CP!Open, CP!object
<1>6. attempt \in {1, 2} /\ connects \in 0 .. 2 /\ connects' = attempt
  <2>1. connects \in 0 .. 2
    BY <1>1 DEF CP!ClientTypeOK
  <2>2. attempt \in {1, 2} /\ (attempt = 2 => connects >= 1)
    BY <1>1 DEF ClientHalf
  <2> QED
    BY <1>1, <1>5, <2>1, <2>2
<1>7. CP!ClientInv'
  BY <1>1, Assumed, CP!OpenStarts DEF ClientHalf
<1>8. ClientSaid'
  BY <1>1, <1>4, <1>5, Assumed, CP!OpenIsSilent DEF ClientSaid
<1>9. Heard'
  <2>1. HB' = <<>>
    BY <1>4 DEF HB
  <2>2. <<>> \o <<>> = <<>>
    BY EmptyConcat
  <2> QED
    BY <1>3, <1>5, <2>1, <2>2, Zenon DEF Heard
<1>10. None \notin {"relay", "eof", "error"}
  BY DriverAssumption
<1>11. BannerLast' /\ Wire'
  BY <1>4, <1>5, <1>10 DEF BannerLast, Wire
<1>12. ClientHalf'
  <2>1. CP!ClientTypeOK'
    BY <1>7 DEF CP!ClientInv
  <2> QED
    BY <1>1, <1>5, <1>6, <1>7, <2>1 DEF ClientHalf
<1>13. Connected' /\ Excused'
  BY <1>1, <1>5 DEF Connected, Excused, E2EInv
<1> QED
  BY <1>3, <1>8, <1>9, <1>11, <1>12, <1>13 DEF E2EInv

LEMMA SameServer ==
  ASSUME DriverInv, Answering, UNCHANGED driverVars
  PROVE  /\ DriverInv' /\ Answering' /\ Voices' = Voices
         /\ UNCHANGED <<stream, requireAuth, log, dec, downstream, pc, end, answered>>
         /\ Start' = Start /\ \A k : IsSaid(k)' <=> IsSaid(k)
<1>1. UNCHANGED <<stream, requireAuth, log, dec, downstream, pc, end, answered>>
  BY DEF driverVars, driver, vars, peer
<1>2. DriverInv' /\ Answering'
  BY DriverStutter, OthersAnswer
<1>3. Voices' = Voices
  BY <1>1, SameVoices DEF DriverInv
<1> QED
  BY <1>1, <1>2, <1>3 DEF Start, IsSaid

LEMMA SwitchKeeps ==
  ASSUME E2EInv, SwitchMode
  PROVE  E2EInv'
<1>1. /\ attempt = 1 /\ attempt' = 2 /\ connects = 1 /\ cpc = "idle" /\ sock = None
      /\ first' = [ok |-> outcome = "connected", excuse |-> Excuse]
      /\ bound' = None /\ leftover' = <<>>
      /\ UNCHANGED <<driverVars, cStream, cInflight, cCall, sock, spoken>>
      /\ DriverInv /\ Answering /\ ClientHalf
  BY DEF SwitchMode, Over, E2EInv
<1>2. UNCHANGED <<cAuth, cBuf, cState, cReply, cFeeding, cResult, cpc, got, sent, gone,
                  expired, conn, outcome, connects>>
  BY <1>1 DEF cCall
<1>3. /\ DriverInv' /\ Answering' /\ Voices' = Voices
      /\ UNCHANGED <<stream, requireAuth, log, dec, downstream, pc, end, answered>>
      /\ Start' = Start /\ \A k : IsSaid(k)' <=> IsSaid(k)
  BY <1>1, SameServer
<1>4. ClientSaid'
  <2>1. CP!SaysRight(connects = 2)'
    BY <1>2 DEF E2EInv, ClientSaid, CP!SaysRight, CP!Tails, CP!Hello, CP!Offered, CP!method,
       CP!Ask, CP!Login
  <2> QED
    BY <1>2, <1>3, <2>1 DEF E2EInv, ClientSaid
<1>5. Heard'
  <2>1. HB' = HB
    BY <1>1 DEF HB
  <2> QED
    BY <1>1, <1>3, <2>1, Zenon DEF E2EInv, Heard
<1>6. BannerLast' /\ Wire'
  BY <1>1, <1>2, <1>3 DEF E2EInv, BannerLast, Wire
<1>7. ClientHalf'
  <2>1. <<>> \in CP!Bytes
    BY DEF CP!Bytes
  <2>2. CP!ClientTypeOK'
    BY <1>1, <1>2, <2>1 DEF ClientHalf, CP!ClientTypeOK, CP!TypeOK
  <2> QED
    BY <1>1, <1>2, <2>2 DEF ClientHalf
<1>8. Connected'
  BY <1>1 DEF Connected
<1>9. Excused'
  <2>1. connects' # attempt'
    BY <1>1, <1>2
  <2>2. first'.ok = (outcome = "connected") /\ first'.excuse = Excuse
    BY <1>1
  <2>3. outcome # "connected" => Excuse
    BY <1>1 DEF E2EInv, Excused
  <2> QED
    BY <2>1, <2>2, <2>3 DEF Excused
<1> QED
  BY <1>3, <1>4, <1>5, <1>6, <1>7, <1>8, <1>9 DEF E2EInv

LEMMA ProxyClosesKeeps ==
  ASSUME E2EInv, ProxyCloses
  PROVE  E2EInv'
<1>1. /\ downstream = "closed" /\ UNCHANGED <<driverVars, probe>> /\ spoken' = spoken
      /\ CP!ProxyCloses /\ DriverInv /\ Answering /\ ClientHalf
  BY SameStart DEF ProxyCloses, E2EInv
<1>2. /\ UNCHANGED <<cStream, cInflight, cAuth, cBuf, cState, cReply, cFeeding, cResult, cpc,
                     got, sent, expired, conn, outcome, connects, sock, bound, leftover>>
      /\ cpc # "idle" /\ attempt' = attempt /\ first' = first
  BY <1>1 DEF CP!ProxyCloses, CP!session, CP!object, probe
<1>3. /\ DriverInv' /\ Answering' /\ Voices' = Voices
      /\ UNCHANGED <<stream, requireAuth, log, dec, downstream, pc, end, answered>>
      /\ Start' = Start /\ \A k : IsSaid(k)' <=> IsSaid(k)
  BY <1>1, SameServer
<1>4. CP!ClientInv'
  <2>1. CP!ClientNext
    BY <1>1 DEF CP!ClientNext
  <2> QED
    BY <1>1, <1>2, <2>1, Assumed, CP!ClientNextKeeps DEF ClientHalf
<1>5. ClientSaid'
  <2>1. CP!SaysRight(connects = 2)'
    BY <1>2 DEF E2EInv, ClientSaid, CP!SaysRight, CP!Tails, CP!Hello, CP!Offered, CP!method,
       CP!Ask, CP!Login
  <2> QED
    BY <1>2, <1>3, <2>1 DEF E2EInv, ClientSaid
<1>6. Heard'
  <2>1. HB' = HB
    BY <1>1 DEF HB
  <2> QED
    BY <1>2, <1>3, <2>1, Zenon DEF E2EInv, Heard
<1>7. BannerLast' /\ Wire'
  BY <1>1, <1>2, <1>3 DEF E2EInv, BannerLast, Wire
<1>8. ClientHalf'
  <2>1. CP!ClientTypeOK'
    BY <1>4 DEF CP!ClientInv
  <2> QED
    BY <1>1, <1>2, <1>4, <2>1 DEF ClientHalf
<1>9. Connected' /\ Excused'
  BY <1>2 DEF E2EInv, Connected, Excused
<1> QED
  BY <1>3, <1>4, <1>5, <1>6, <1>7, <1>8, <1>9 DEF E2EInv

\* A server that has closed its end before its last word failed, or was stopped.
LEMMA GoneEarly ==
  ASSUME DriverInv, Answering, BannerLast, ClientSaid, Wire, cAuth \in BOOLEAN,
         connects \in Nat, conn = "open", gone, Unfinished
  PROVE  Excuse
<1>1. DriverTypeOK /\ TypeOK /\ LegalConversation
  BY StageLegal DEF DriverInv, DriverTypeOK, Session
<1>2. pc = "done"
  BY DEF Wire, DriverInv, CleanTeardown
<1>3. end \in {"close", "relay", "crash", "exit", "cut"}
  <2>1. end # None
    BY <1>1, <1>2 DEF DriverTypeOK
  <2> QED
    BY <1>1, <2>1 DEF DriverTypeOK, Wire
<1>4. CASE end \in {"crash", "exit", "cut"}
  BY <1>4 DEF Excuse, ServerRefused
<1>5. CASE end = "close"
  <2>1. answered = Len(log) /\ state = "closed"
    BY <1>5 DEF DriverInv, InStep
  <2>2. Complete
    BY <2>1, ClosedIsComplete DEF DriverInv, Answering
  <2> QED
    BY <2>1, <2>2 DEF Unfinished
<1>6. CASE end = "relay"
  <2>1. log # <<>> /\ log[Len(log)].type = "Relay" /\ answered = Len(log)
    BY <1>6 DEF BannerLast
  <2>2. PICK c \in Conversations : Follows(c)
    BY <1>1, LogFollows
  <2>3. Len(log) \in DOMAIN log
    BY <1>1, <2>1 DEF TypeOK
  <2>4. Len(log) = Start + 3 /\ Len(c) = Start + 3
    BY <2>1, <2>2, <2>3, AtRelay
  <2>5. Told(log, c)
    BY <2>2, <2>4 DEF Told, Follows
  <2>6. Complete
    BY <2>5 DEF Complete
  <2> QED
    BY <2>1, <2>6 DEF Unfinished
<1> QED
  BY <1>3, <1>4, <1>5, <1>6

\* What connect() sends, the server is sent.
LEMMA ClientSends ==
  ASSUME DriverInv, Answering, ClientSaid, UNCHANGED ServerRest, Sends,
         sent \in Bytes, NEW data \in Bytes, sent' = sent \o data
  PROVE  /\ DriverInv' /\ Answering' /\ stream' = sent' /\ Voices' = Voices
         /\ UNCHANGED <<requireAuth, log, dec, downstream, pc, end, answered, spoken>>
         /\ Start' = Start /\ \A k : IsSaid(k)' <=> IsSaid(k)
<1>1. Drop(sent', Len(sent)) = data
  BY DropPrefix
<1>2. stream' = stream \o data /\ inflight' = inflight \o data
  BY <1>1 DEF Sends
<1>3. /\ UNCHANGED <<requireAuth, log, dec, downstream, pc, end, answered, spoken, buf, state,
                     out, ev, async, peerClosed, upstream, refused, disconnects>>
  BY DEF ServerRest
<1>4. PeerSays(data)
  BY <1>2, <1>3 DEF PeerSays, driver
<1>5. DriverInv' /\ Answering'
  BY <1>4, PeerMaySayMore, PeerHears DEF Answering
<1>6. Voices' = Voices
  BY <1>3, SameVoices DEF DriverInv
<1>7. stream' = sent'
  BY <1>2 DEF ClientSaid
<1> QED
  BY <1>3, <1>5, <1>6, <1>7 DEF Start, IsSaid

\* Nothing of the server is touched by a call that sends nothing.
LEMMA NothingSent ==
  ASSUME DriverInv, Answering, ClientSaid, UNCHANGED ServerRest, Sends,
         sent \in Bytes, sent' = sent
  PROVE  /\ DriverInv' /\ Answering' /\ stream' = sent' /\ Voices' = Voices
         /\ UNCHANGED <<requireAuth, log, dec, downstream, pc, end, answered, spoken>>
         /\ Start' = Start /\ \A k : IsSaid(k)' <=> IsSaid(k)
<1>1. <<>> \in Bytes /\ sent \o <<>> = sent
  BY EmptyConcat
<1>2. sent' = sent \o <<>>
  BY <1>1
<1> HIDE DEF Sends
<1> QED
  BY <1>1, <1>2, ClientSends

\* How a call ends, it ends for a reason of the server's or of the clock's.
LEMMA CallMeans ==
  ASSUME E2EInv, CP!connect, cpc' = "idle"
  PROVE  /\ sock' # None => /\ outcome' = "connected"
                            /\ IsSaid("success") /\ answered >= Start + 2
                            /\ bound' = dec.connectedBnd
                            /\ leftover' \o cInflight = HB
         /\ sock' = None => Excuse
         /\ cInflight' = cInflight
<1>1. cpc # "idle"
  BY Assumed, CP!CallFrame
<1>2. /\ CP!ClientInv /\ CP!ClientTypeOK /\ connects = attempt /\ attempt \in {1, 2}
      /\ conn = "open" /\ connects \in Nat /\ cAuth \in BOOLEAN
  BY <1>1 DEF E2EInv, ClientHalf, CP!ClientInv, CP!Holds, CP!ClientTypeOK, CP!TypeOK
<1>3. Understood
  BY <1>2, Meaning DEF E2EInv
<1>4. /\ cInflight' = cInflight
      /\ \/ /\ outcome' = "connected" /\ sock' = connects
            /\ CP!Deserved = "reply" /\ CP!parse_reply(CP!ReplyPart).rep = CP!Rep.SUCCEEDED
            /\ bound' = CP!parse_reply(CP!ReplyPart).bound
            /\ leftover' \o cInflight = CP!Drop(CP!ReplyPart, CP!Size(CP!ReplyPart))
         \/ /\ outcome' = "refused" /\ sock' = None
            /\ CP!Deserved # "need"
            /\ CP!Deserved = "reply" =>
                 CP!parse_reply(CP!ReplyPart).rep # CP!Rep.SUCCEEDED
         \/ outcome' = "eof" /\ sock' = None /\ CP!Deserved = "need" /\ gone
         \/ outcome' = "timeout" /\ sock' = None /\ expired
  BY <1>1, <1>2, Assumed, CP!CallEnds
<1>5. CP!Rep = Rep /\ \A b, n : CP!Drop(b, n) = Drop(b, n)
  BY SameCodec, SameMessages
<1>6. None \notin Nat
  BY E2EAssumption
<1>7. CASE outcome' = "connected" /\ sock' = connects
  <2>1. /\ CP!Deserved = "reply" /\ CP!parse_reply(CP!ReplyPart).rep = Rep.SUCCEEDED
        /\ bound' = CP!parse_reply(CP!ReplyPart).bound
        /\ leftover' \o cInflight = Drop(CP!ReplyPart, CP!Size(CP!ReplyPart))
    BY <1>2, <1>4, <1>5, <1>6, <1>7
  <2>2. /\ Granted
        /\ CP!parse_reply(CP!ReplyPart).bound = dec.connectedBnd
        /\ Drop(CP!ReplyPart, CP!Size(CP!ReplyPart)) = HB
    BY <1>3, <2>1 DEF Understood
  <2>3. sock' # None
    BY <1>2, <1>6, <1>7
  <2> QED
    BY <1>4, <1>7, <2>1, <2>2, <2>3 DEF Granted
<1>8. CASE /\ outcome' = "refused" /\ sock' = None /\ CP!Deserved # "need"
           /\ CP!Deserved = "reply" => CP!parse_reply(CP!ReplyPart).rep # CP!Rep.SUCCEEDED
  <2>1. Excuse \/ IsSaid("failure")
    BY <1>3, <1>5, <1>8 DEF Understood
  <2> QED
    BY <1>4, <1>8, <2>1 DEF Excuse, ServerRefused
<1>9. CASE outcome' = "eof" /\ sock' = None /\ CP!Deserved = "need" /\ gone
  <2>1. Unfinished
    BY <1>3, <1>9 DEF Understood
  <2>2. Excuse
    BY <1>2, <1>9, <2>1, GoneEarly DEF E2EInv
  <2> QED
    BY <1>4, <1>9, <2>2
<1>10. CASE outcome' = "timeout" /\ sock' = None /\ expired
  BY <1>4, <1>10 DEF Excuse
<1> QED
  BY <1>4, <1>7, <1>8, <1>9, <1>10

LEMMA ConnectKeeps ==
  ASSUME E2EInv, UNCHANGED <<ServerRest, probe>>, C!connect, Sends
  PROVE  E2EInv'
<1>1. /\ DriverInv /\ Answering /\ ClientSaid /\ ClientHalf /\ Heard /\ BannerLast
      /\ UNCHANGED ServerRest /\ attempt' = attempt /\ first' = first
      /\ CP!connect
  BY SameCall DEF E2EInv, probe
<1>2. /\ cpc # "idle"
      /\ UNCHANGED <<cStream, cAuth, connects, gone, expired>>
      /\ cpc' # "idle" => sock' = sock
  BY <1>1, Assumed, CP!CallFrame DEF CP!object
<1>3. /\ CP!ClientInv /\ CP!ClientTypeOK /\ CP!Stages /\ connects = attempt
      /\ attempt \in {1, 2} /\ conn = "open" /\ sock = None /\ connects # 0
  BY <1>1, <1>2 DEF ClientHalf, CP!ClientInv, CP!Holds
<1>4. CP!ClientInv'
  <2>1. CP!ClientNext
    BY <1>1 DEF CP!ClientNext
  <2> QED
    BY <1>3, <2>1, Assumed, CP!ClientNextKeeps
<1>5. (connects = 2) = (attempt = 2) /\ ((connects = 2) = (attempt = 2))'
  BY <1>1, <1>2, <1>3
<1>6. CP!SaysRight(connects = 2)' /\ \E data \in Bytes : sent' = sent \o data
  <2>1. CP!SaysRight(attempt = 2)
    BY <1>1, <1>5 DEF ClientSaid
  <2>2. CP!SaysRight(attempt = 2)' /\ \E data \in CP!Bytes : sent' = sent \o data
    BY <1>1, <1>3, <2>1, Assumed, CP!SpeechKept
  <2> QED
    BY <1>5, <2>2, SameCodec
<1>7. PICK data \in Bytes : sent' = sent \o data
  BY <1>6
<1>8. sent \in Bytes
  BY <1>3, SameCodec DEF CP!ClientTypeOK
<1>9. /\ DriverInv' /\ Answering' /\ stream' = sent' /\ Voices' = Voices
      /\ UNCHANGED <<requireAuth, log, dec, downstream, pc, end, answered, spoken>>
      /\ Start' = Start /\ \A k : IsSaid(k)' <=> IsSaid(k)
  BY <1>1, <1>7, <1>8, ClientSends
<1>10. ClientSaid'
  BY <1>6, <1>9 DEF ClientSaid
<1>11. HB' = HB
  BY <1>9 DEF HB
<1>12. Heard'
  BY <1>1, <1>2, <1>9, <1>11, Zenon DEF Heard
<1>13. BannerLast'
  BY <1>1, <1>9 DEF BannerLast
<1>14. ClientHalf'
  <2>1. CP!ClientTypeOK' /\ CP!Stages'
    BY <1>4 DEF CP!ClientInv
  <2>2. attempt' = 2 => leftover' = <<>>
    BY <2>1 DEF CP!Stages
  <2> QED
    BY <1>1, <1>2, <1>3, <1>4, <2>1, <2>2 DEF ClientHalf
<1>15. Wire'
  BY <1>2, <1>3, <1>9 DEF E2EInv, Wire
<1>16. CASE cpc' # "idle"
  <2>1. Connected' /\ Excused'
    <3>1. Excuse' <=> Excuse
      BY <1>1, <1>2, <1>9 DEF Excuse, ServerRefused
    <3> QED
      BY <1>1, <1>2, <1>3, <1>16, <3>1 DEF E2EInv, Connected, Excused
  <2> QED
    BY <1>9, <1>10, <1>12, <1>13, <1>14, <1>15, <2>1 DEF E2EInv
<1>17. CASE cpc' = "idle"
  <2>1. /\ sock' # None => /\ outcome' = "connected"
                           /\ IsSaid("success") /\ answered >= Start + 2
                           /\ bound' = dec.connectedBnd
                           /\ leftover' \o cInflight = HB
        /\ sock' = None => Excuse
        /\ cInflight' = cInflight
    BY <1>1, <1>17, CallMeans
  <2>2. Connected'
    BY <1>1, <1>2, <1>3, <1>9, <1>11, <1>17, <2>1 DEF Connected
  <2>3. Excuse' <=> Excuse
    BY <1>1, <1>2, <1>9 DEF Excuse, ServerRefused
  <2>4. Excused'
    BY <1>1, <2>1, <2>3 DEF E2EInv, Excused
  <2> QED
    BY <1>9, <1>10, <1>12, <1>13, <1>14, <1>15, <2>2, <2>4 DEF E2EInv
<1> QED
  BY <1>16, <1>17

LEMMA CloseAndExpireKeep ==
  ASSUME E2EInv, UNCHANGED <<ServerRest, probe>>, C!close \/ C!Expire, Sends
  PROVE  E2EInv'
<1>1. /\ DriverInv /\ Answering /\ ClientSaid /\ ClientHalf /\ Heard /\ BannerLast
      /\ UNCHANGED ServerRest /\ attempt' = attempt /\ first' = first
      /\ CP!close \/ CP!Expire
      /\ CP!ClientTypeOK
  BY SameCall DEF E2EInv, ClientHalf, probe
<1>2. UNCHANGED <<cStream, cInflight, cAuth, cBuf, cState, cReply, cFeeding, cResult, cpc, got,
                  sent, gone, outcome, connects, bound, leftover>>
  BY <1>1 DEF CP!close, CP!Expire, CP!session, CP!object, CP!clock
<1>3. sent \in Bytes
  BY <1>1, SameCodec DEF CP!ClientTypeOK
<1>4. /\ DriverInv' /\ Answering' /\ stream' = sent' /\ Voices' = Voices
      /\ UNCHANGED <<requireAuth, log, dec, downstream, pc, end, answered, spoken>>
      /\ Start' = Start /\ \A k : IsSaid(k)' <=> IsSaid(k)
  BY <1>1, <1>2, <1>3, NothingSent
<1>5. ClientSaid'
  <2>1. CP!SaysRight(connects = 2)'
    BY <1>1, <1>2 DEF ClientSaid, CP!SaysRight, CP!Tails, CP!Hello, CP!Offered, CP!method,
       CP!Ask, CP!Login
  <2> QED
    BY <1>4, <2>1 DEF ClientSaid
<1>6. HB' = HB
  BY <1>4 DEF HB
<1>7. Heard'
  BY <1>1, <1>2, <1>4, <1>6, Zenon DEF Heard
<1>8. BannerLast'
  BY <1>1, <1>4 DEF BannerLast
<1>9. CASE CP!close
  <2>1. cpc = "idle" /\ sock # None /\ sock' = None /\ conn' = "closed" /\ expired' = expired
    BY <1>9 DEF CP!close, CP!clock
  <2>2. CP!ClientTypeOK'
    BY <1>1, <1>9, Assumed, CP!CloseType
  <2>3. ClientHalf'
    BY <1>1, <1>2, <2>1, <2>2 DEF ClientHalf
  <2>4. Wire' /\ Connected'
    BY <1>2, <1>4, <2>1 DEF E2EInv, Wire, Connected
  <2>5. Excused'
    <3>1. outcome' = "connected"
      BY <1>2, <2>1 DEF E2EInv, Connected
    <3> QED
      BY <1>1, <3>1 DEF E2EInv, Excused
  <2> QED
    BY <1>4, <1>5, <1>7, <1>8, <2>3, <2>4, <2>5 DEF E2EInv
<1>10. CASE CP!Expire
  <2>1. cpc # "idle" /\ sock' = sock /\ conn' = conn
    BY <1>10 DEF CP!Expire, CP!object
  <2>2. CP!ClientInv'
    <3>1. CP!ClientNext
      BY <1>10 DEF CP!ClientNext
    <3> QED
      BY <1>1, <2>1, <3>1, Assumed, CP!ClientNextKeeps DEF ClientHalf
  <2>3. ClientHalf'
    <3>1. CP!ClientTypeOK'
      BY <2>2 DEF CP!ClientInv
    <3> QED
      BY <1>1, <1>2, <2>1, <2>2, <3>1 DEF ClientHalf
  <2>4. Wire'
    BY <1>2, <1>4, <2>1 DEF E2EInv, Wire
  <2>5. Connected' /\ Excused'
    BY <1>1, <1>2, <2>1 DEF E2EInv, Connected, Excused
  <2> QED
    BY <1>4, <1>5, <1>7, <1>8, <2>3, <2>4, <2>5 DEF E2EInv
<1> QED
  BY <1>1, <1>9, <1>10

LEMMA E2EStutter ==
  ASSUME E2EInv, UNCHANGED e2eVars
  PROVE  E2EInv'
<1>1. /\ UNCHANGED <<driverVars, client, spoken, probe>>
      /\ DriverInv /\ Answering /\ ClientSaid /\ ClientHalf
  BY DEF e2eVars, E2EInv
<1>2. /\ UNCHANGED <<cStream, cInflight, cpc, gone, expired, conn, outcome, connects, sock,
                     bound, leftover, attempt, first, cAuth, spoken>>
  BY <1>1 DEF client, cRest, cCall, probe
<1>3. /\ DriverInv' /\ Answering' /\ Voices' = Voices
      /\ UNCHANGED <<stream, requireAuth, log, dec, downstream, pc, end, answered>>
      /\ Start' = Start /\ \A k : IsSaid(k)' <=> IsSaid(k)
  BY <1>1, SameServer
<1>4. ClientSaid' /\ ClientHalf'
  BY <1>1, <1>3, ClientRests
<1>5. HB' = HB
  BY <1>2 DEF HB
<1>6. Heard'
  BY <1>2, <1>3, <1>5, Zenon DEF E2EInv, Heard
<1>7. BannerLast' /\ Wire'
  BY <1>2, <1>3 DEF E2EInv, BannerLast, Wire
<1>8. Connected'
  BY <1>2, <1>3, <1>5 DEF E2EInv, Connected
<1>9. Excused'
  BY <1>2, <1>3 DEF E2EInv, Excused, Excuse, ServerRefused
<1> QED
  BY <1>3, <1>4, <1>6, <1>7, <1>8, <1>9 DEF E2EInv

LEMMA E2EStart == E2EInit => E2EInv
<1> SUFFICES ASSUME E2EInit PROVE E2EInv
  OBVIOUS
<1>1. /\ DriverInit /\ stream = <<>> /\ attempt = 1 /\ CP!ClientInit /\ spoken = FALSE
      /\ first = [ok |-> FALSE, excuse |-> FALSE]
  BY SameStart DEF E2EInit
<1>2. DriverInv /\ Answering
  BY <1>1, DriverInitInv, InitAnswers
<1>3. stream = <<>> /\ answered = 0 /\ end = None /\ pc = "next"
  BY <1>1 DEF DriverInit
<1>4. /\ cStream = <<>> /\ sent = <<>> /\ cpc = "idle" /\ conn = "none" /\ gone = FALSE
      /\ sock = None /\ connects = 0
  BY <1>1 DEF CP!ClientInit, CP!Init
<1>5. CP!ClientInv
  BY <1>1, Assumed, CP!ClientStart
<1>6. ClientSaid
  BY <1>3, <1>4 DEF ClientSaid, CP!SaysRight
<1>7. Heard
  <2>1. HB = <<>> /\ \A i : Voice(i) = <<>>
    BY <1>1, <1>3 DEF HB, Voice
  <2>2. <<>> \o <<>> = <<>>
    BY EmptyConcat
  <2>3. Voices = <<>>
    BY <2>1, <2>2, Zenon DEF Voices
  <2> QED
    BY <1>4, <2>1, <2>2, <2>3, Zenon DEF Heard
<1>8. None \notin {"relay", "eof", "error"}
  BY DriverAssumption
<1>9. BannerLast /\ Wire /\ Connected /\ Excused
  BY <1>1, <1>3, <1>4, <1>8 DEF BannerLast, Wire, Connected, Excused
<1>10. ClientHalf
  <2>1. CP!ClientTypeOK
    BY <1>5 DEF CP!ClientInv
  <2> QED
    BY <1>1, <1>4, <2>1 DEF ClientHalf
<1> QED
  BY <1>2, <1>6, <1>7, <1>9, <1>10 DEF E2EInv

LEMMA E2ENextInv == E2EInv /\ [E2ENext]_e2eVars => E2EInv'
<1> SUFFICES ASSUME E2EInv, [E2ENext]_e2eVars PROVE E2EInv'
  OBVIOUS
<1>1. CASE Try
  BY <1>1, TryKeeps
<1>2. CASE SwitchMode
  BY <1>2, SwitchKeeps
<1>3. CASE Client
  BY <1>3, ConnectKeeps, CloseAndExpireKeep DEF Client
<1>4. CASE ProxyCloses
  BY <1>4, ProxyClosesKeeps
<1>5. CASE Server
  BY <1>5, ServerKeeps
<1>6. CASE ServerSends
  BY <1>6, SendsKeep
<1>7. CASE UpstreamSpeaks
  BY <1>7, UpstreamKeeps
<1>8. CASE UNCHANGED e2eVars
  BY <1>8, E2EStutter
<1> QED
  BY <1>1, <1>2, <1>3, <1>4, <1>5, <1>6, <1>7, <1>8 DEF E2ENext

LEMMA AlwaysE2EInv == E2ESpec => []E2EInv
BY E2EStart, E2ENextInv, PTL DEF E2ESpec

\* The two ends mean the same, for every target, every credentials, every banner and
\* however the bytes are cut: what the hooks of Server._handle are given is what
\* connect() was asked for, and the socket connect() returns is one the server
\* said SUCCEEDED on, with the address it advertised and every byte of the tunnel.
THEOREM BothEndsAgree == E2ESpec => []Agreement
<1>1. E2EInv => Agreement
  <2> SUFFICES ASSUME E2EInv PROVE Agreement
    OBVIOUS
  <2>1. Session /\ Greeted /\ ClientSaid /\ cAuth \in BOOLEAN /\ connects \in Nat
    BY DEF E2EInv, DriverInv, Answering, ClientHalf, CP!ClientTypeOK, CP!TypeOK
  <2>2. \A i \in DOMAIN log :
          /\ log[i].type = "Connect" => log[i] = Connect(Cmd.CONNECT, Destination)
          /\ log[i].type = "Authorize" => log[i] = Authorize(Credentials)
    BY <2>1, HooksGetTheWish
  <2>3. sock # None =>
          /\ IsSaid("success")
          /\ bound = dec.connectedBnd
          /\ leftover \o cInflight = (IF spoken THEN Banner ELSE <<>>)
    BY DEF E2EInv, Connected, HB
  <2> QED
    BY <2>2, <2>3 DEF Agreement
<1> QED
  BY <1>1, AlwaysE2EInv, PTL

\* `a byte-exact proxy passes optimistic' (cli.py:14), for every setting of the two
\* ends: an attempt of cmd_probe at this server fails only if the server refused or
\* failed, time ran out, or credentials were pipelined to a server that wants none.
THEOREM ProbeIsSound == E2ESpec => []ProbeSound
<1>1. E2EInv => ProbeSound
  BY DEF E2EInv, Excused, ProbeSound, verdict, Over
<1> QED
  BY <1>1, AlwaysE2EInv, PTL

=============================================================================
