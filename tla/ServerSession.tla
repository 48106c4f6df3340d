---------------------------- MODULE ServerSession ----------------------------
(***************************************************************************)
(* The sans-IO server state machine, server/session.py.                    *)
(*                                                                         *)
(* This specification leaves the caller free: any method may be called at  *)
(* any time, so a property it has holds for the threaded driver, for the   *)
(* asyncio one, and for the custom drivers the class is published for.     *)
(* ServerDriver.tla restricts the calls to what the two drivers do.        *)
(*                                                                         *)
(* The peer's bytes are fixed when the session starts (stream) and reach   *)
(* receive() in chunks of any size.  An event is a record; an exception    *)
(* that leaves next_event() is the event Raise.  Close reasons are left    *)
(* out.                                                                    *)
(***************************************************************************)
EXTENDS Socks5Codec

CONSTANTS
  None,         \* Python's None
  Streams,      \* what a peer may send on one connection
  Ctxs,         \* contexts a hook may bind with ok(ctx)
  FailureReps,  \* codes reject() and connect_failed() are called with
  Addresses     \* targets and bound addresses the caller may pass

ASSUME SessionAssumption ==
  /\ \A s \in Streams : s \in Bytes
  /\ None \notin Ctxs
  /\ FailureReps \subseteq Byte \ {Rep.SUCCEEDED}
  /\ \A a \in Addresses : a \in Address /\ a # None

VARIABLES
  stream,       \* everything the peer sends (fixed)
  inflight,     \* the part of it receive() has not been given yet
  requireAuth,  \* _require_auth (fixed)
  buf,          \* _buf
  state,        \* _state
  out,          \* _out, the queued events
  dec,          \* the fields "filled by hooks / driver between events"
  ev,           \* the event next_event() returned last
  log           \* history: the events returned, but for NeedData and Close

peer == <<stream, inflight, requireAuth>>
vars == <<peer, buf, state, out, dec, ev, log>>

-----------------------------------------------------------------------------
(* Events (server/events.py). *)

Send(data)            == [type |-> "Send", data |-> data]
NeedData              == [type |-> "NeedData"]
Authorize(up)         == [type |-> "Authorize", username |-> up.user, password |-> up.pass]
Connect(command, dst) == [type |-> "Connect", cmd |-> command, dst |-> dst]
Relay(dst)            == [type |-> "Relay", dst |-> dst]
Close                 == [type |-> "Close"]
Raise                 == [type |-> "Raise"]

Lasting(e) == e.type \in {"Send", "Authorize", "Connect", "Relay"}

FreshDecisions ==
  [ctx |-> None, cmd |-> 0, target |-> None, customPipe |-> FALSE,
   intercept |-> FALSE, rejected |-> FALSE, rep |-> Rep.GENERAL_FAILURE,
   connectedBnd |-> None, connectFailed |-> FALSE, relayRaw |-> FALSE]

Init ==
  /\ stream \in Streams
  /\ inflight = stream
  /\ requireAuth \in BOOLEAN
  /\ buf = <<>>
  /\ state = "greeting"
  /\ out = <<>>
  /\ dec = FreshDecisions
  /\ ev = None
  /\ log = <<>>

-----------------------------------------------------------------------------
(* The calls into the session. *)

receive(n) ==
  /\ buf' = buf \o SubSeq(inflight, 1, n)
  /\ inflight' = Drop(inflight, n)
  /\ UNCHANGED <<stream, requireAuth, state, out, dec, ev, log>>

\* A decision method assigns fields and nothing else.
Decide(d) == dec' = d /\ UNCHANGED <<peer, buf, state, out, ev, log>>

ok(c)             == Decide([dec EXCEPT !.ctx = c, !.rejected = FALSE])
reject(r)         == Decide([dec EXCEPT !.rejected = TRUE, !.rep = r])
set_target(a)     == Decide([dec EXCEPT !.target = a])
pipe              == Decide([dec EXCEPT !.customPipe = TRUE])
relay_raw         == Decide([dec EXCEPT !.relayRaw = TRUE])
intercept         == Decide([dec EXCEPT !.customPipe = TRUE, !.intercept = TRUE])
\* Mutant: the port is lost.
connected_NoPort(bnd) == Decide([dec EXCEPT !.connectedBnd = bnd.host])
connected(bnd)    == Decide([dec EXCEPT !.connectedBnd = bnd])
connect_failed(r) == Decide([dec EXCEPT !.connectFailed = TRUE, !.rep = r])

\* The calls a hook makes.  connected() and connect_failed() are in the same API, but
\* report on an upstream, which is the driver's to open: only a caller that is free
\* (Spec) makes them at any time.
HookCall ==
  \/ \E c \in Ctxs \cup {None} : ok(c)
  \/ \E r \in FailureReps : reject(r)
  \/ \E a \in Addresses : set_target(a)
  \/ pipe
  \/ relay_raw
  \/ intercept

\* The calls a driver reports its upstream with.
DriverCall ==
  \/ \E a \in Addresses : connected(a)
  \/ \E r \in FailureReps : connect_failed(r)

-----------------------------------------------------------------------------
(* next_event(): one action per way through it. *)

\* Consume n buffered bytes, go to state s, return the first of `events',
\* queue the others (_emit), and leave the decisions as d.
Go(n, s, events, d) ==
  /\ buf' = Drop(buf, n)
  /\ state' = s
  /\ ev' = Head(events)
  /\ out' = Tail(events)
  /\ log' = IF Lasting(Head(events)) THEN Append(log, Head(events)) ELSE log
  /\ dec' = d
  /\ UNCHANGED peer

Return(e)       == Go(0, state, <<e>>, dec)
Closing(events) == Go(0, "closed", events, dec)

\* Wait for the rest of a message that is `cap' bytes long at most.
Await(cap) ==
  IF Len(buf) > cap THEN Closing(<<Close>>) ELSE Return(NeedData)

PopQueued == out # <<>> /\ Go(0, state, out, dec)

In(s) == out = <<>> /\ state = s

NotSocks5         == buf # <<>> /\ buf[1] # Ver
\* Mutant: off by one.
GreetingSize_OneMore == 3 + buf[2]
\* Mutant: NMETHODS is not counted.
GreetingSize_OneLess == 1 + buf[2]
GreetingSize      == 2 + buf[2]
OffersUserpass(b) == \E i \in 1 .. Len(parse_greeting(b)) :
                       parse_greeting(b)[i] = Method.USERPASS

GreetingBadVersion == In("greeting") /\ NotSocks5 /\ Closing(<<Close>>)

\* The cap is never exceeded: a longer buffer holds a whole greeting.
GreetingIncomplete ==
  /\ In("greeting")
  /\ ~NotSocks5
  /\ ~HasGreeting(buf)
  /\ Await(2 + MaxByte)

GreetingNoAuth ==
  /\ In("greeting")
  /\ HasGreeting(buf)
  /\ ~requireAuth
  /\ Go(GreetingSize, "request", <<Send(method_selection(Method.NO_AUTH))>>, dec)

GreetingUserpass ==
  /\ In("greeting")
  /\ HasGreeting(buf)
  /\ requireAuth
  /\ OffersUserpass(buf)
  /\ Go(GreetingSize, "auth", <<Send(method_selection(Method.USERPASS))>>, dec)

GreetingNoAcceptable ==
  /\ In("greeting")
  /\ HasGreeting(buf)
  /\ requireAuth
  /\ ~OffersUserpass(buf)
  /\ Go(GreetingSize, "closed",
        <<Send(method_selection(Method.NO_ACCEPTABLE)), Close>>, dec)

\* A message with the wrong VER is never parsed: it waits for the cap.
AuthIncomplete ==
  /\ In("auth")
  /\ ~HasUserpass(buf)
  /\ Await(3 + MaxByte + MaxByte)

AuthUndecodable ==
  /\ In("auth")
  /\ HasUserpass(buf)
  /\ UserpassRaises(buf)
  /\ Return(Raise)

AuthMessage ==
  /\ In("auth")
  /\ HasUserpass(buf)
  /\ ~UserpassRaises(buf)
  /\ Go(3 + buf[2] + buf[3 + buf[2]], "auth_wait",
        <<Authorize(parse_userpass(buf))>>, [dec EXCEPT !.rejected = FALSE])

\* Mutant: the peer is told, and stays.
AuthRejected_NoClose ==
  /\ In("auth_wait")
  /\ dec.rejected
  /\ Go(0, "request", <<Send(auth_reply(1))>>, dec)

AuthRejected ==
  /\ In("auth_wait")
  /\ dec.rejected
  /\ Closing(<<Send(auth_reply(1)), Close>>)

AuthAccepted ==
  /\ In("auth_wait")
  /\ ~dec.rejected
  /\ Go(0, "request", <<Send(auth_reply(0))>>, dec)

\* Too short to have a size; an ATYP without one is refused from 5 bytes on.
RequestUnsized ==
  /\ In("request")
  /\ ~HasSize(buf)
  /\ Len(buf) < 5
  /\ Return(NeedData)

RequestBadAtyp ==
  /\ In("request")
  /\ ~HasSize(buf)
  /\ Len(buf) >= 5
  /\ Closing(<<Send(reply(Rep.ATYP_NOT_SUPPORTED, Unbound)), Close>>)

\* Mutant: the cap forgets that a request may hold an IPv6 address.
RequestIncomplete_IPv4Cap ==
  /\ In("request")
  /\ HasSize(buf)
  /\ Len(buf) < Size(buf)
  /\ Await(4 + 4 + 2)

\* The cap is never exceeded: it is the largest size there is.
RequestIncomplete ==
  /\ In("request")
  /\ HasSize(buf)
  /\ Len(buf) < Size(buf)
  /\ Await(4 + 1 + MaxByte + 2)

\* parse_request is given exactly the sized bytes.
Sized           == SubSeq(buf, 1, Size(buf))
RequestComplete == In("request") /\ HasSize(buf) /\ Len(buf) >= Size(buf)
RequestParsed   == RequestComplete /\ HasRequest(Sized) /\ ~AddressRaises(Sized, 4)

RequestMalformed ==
  /\ RequestComplete
  /\ ~HasRequest(Sized)
  /\ Closing(<<Send(reply(Rep.GENERAL_FAILURE, Unbound)), Close>>)

RequestUndecodable ==
  /\ RequestComplete
  /\ HasRequest(Sized)
  /\ AddressRaises(Sized, 4)
  /\ Return(Raise)

RequestNotConnect ==
  /\ RequestParsed
  /\ parse_request(Sized).cmd # Cmd.CONNECT
  /\ Go(Size(buf), "closed",
        <<Send(reply(Rep.CMD_NOT_SUPPORTED, Unbound)), Close>>,
        [dec EXCEPT !.cmd = parse_request(Sized).cmd])

RequestConnect ==
  /\ RequestParsed
  /\ parse_request(Sized).cmd = Cmd.CONNECT
  /\ Go(Size(buf), "connect_wait",
        <<Connect(Cmd.CONNECT, parse_request(Sized).dst)>>,
        [dec EXCEPT !.cmd = Cmd.CONNECT, !.target = parse_request(Sized).dst,
                    !.rejected = FALSE, !.connectedBnd = None,
                    !.connectFailed = FALSE])

\* The custom pipe owns the reply: only Relay is emitted.
ConnectRaw ==
  /\ In("connect_wait")
  /\ dec.relayRaw
  /\ Go(0, "relay", <<Relay(dec.target)>>, dec)

\* What is tested in this order: raw, rejected, failed, connected.
ConnectRejected ==
  /\ In("connect_wait")
  /\ ~dec.relayRaw
  /\ dec.rejected
  /\ Closing(<<Send(reply(dec.rep, Unbound)), Close>>)

ConnectFailed ==
  /\ In("connect_wait")
  /\ ~dec.relayRaw
  /\ ~dec.rejected
  /\ dec.connectFailed
  /\ Closing(<<Send(reply(dec.rep, Unbound)), Close>>)

\* The request was neither taken over nor refused.
Served == ~dec.relayRaw /\ ~dec.rejected /\ ~dec.connectFailed

ConnectSucceeded ==
  /\ In("connect_wait")
  /\ Served
  /\ dec.connectedBnd # None
  /\ Encodable(dec.connectedBnd.host)
  /\ Go(0, "relay",
        <<Send(reply(Rep.SUCCEEDED, dec.connectedBnd)), Relay(dec.target)>>, dec)

\* reply() raises on a name it cannot encode, after the state was set.
ConnectUnsendable ==
  /\ In("connect_wait")
  /\ Served
  /\ dec.connectedBnd # None
  /\ ~Encodable(dec.connectedBnd.host)
  /\ Go(0, "relay", <<Raise>>, dec)

\* RuntimeError: no upstream decision was made.
ConnectUndecided ==
  /\ In("connect_wait")
  /\ Served
  /\ dec.connectedBnd = None
  /\ Return(Raise)

RelayFinished == In("relay") /\ Closing(<<Close>>)

\* Mutant: no branch for "closed": the session waits for data.
Closed_Waits == In("closed") /\ Return(NeedData)
Closed == In("closed") /\ Return(Close)

GreetingStep ==
  \/ GreetingBadVersion
  \/ GreetingIncomplete
  \/ GreetingNoAuth
  \/ GreetingUserpass
  \/ GreetingNoAcceptable

AuthStep ==
  \/ AuthIncomplete
  \/ AuthUndecodable
  \/ AuthMessage
  \/ AuthRejected
  \/ AuthAccepted

RequestStep ==
  \/ RequestUnsized
  \/ RequestBadAtyp
  \/ RequestIncomplete
  \/ RequestMalformed
  \/ RequestUndecodable
  \/ RequestNotConnect
  \/ RequestConnect

ConnectStep ==
  \/ ConnectRaw
  \/ ConnectRejected
  \/ ConnectFailed
  \/ ConnectSucceeded
  \/ ConnectUnsendable
  \/ ConnectUndecided

EndStep == RelayFinished \/ Closed

next_event ==
  \/ PopQueued
  \/ GreetingStep
  \/ AuthStep
  \/ RequestStep
  \/ ConnectStep
  \/ EndStep

Next ==
  \/ \E n \in 1 .. Len(inflight) : receive(n)
  \/ HookCall
  \/ DriverCall
  \/ next_event

Spec == Init /\ [][Next]_vars

-----------------------------------------------------------------------------
(* Properties. *)

States == {"greeting", "auth", "auth_wait", "request", "connect_wait", "relay", "closed"}

SendEvent    == [type : {"Send"}, data : Bytes]
RelayEvent   == [type : {"Relay"}, dst : Address]
LastingEvent == SendEvent \cup RelayEvent
                  \cup [type : {"Authorize"}, username : Bytes, password : Bytes]
                  \cup [type : {"Connect"}, cmd : Byte, dst : Address]
Event        == LastingEvent \cup {Close, NeedData, Raise}

Decisions ==
  [ctx : Ctxs \cup {None}, cmd : Byte, target : Address \cup {None},
   customPipe : BOOLEAN, intercept : BOOLEAN, rejected : BOOLEAN, rep : Byte,
   connectedBnd : Address \cup {None}, connectFailed : BOOLEAN, relayRaw : BOOLEAN]

\* The values every field of the session can hold, for all byte strings.  The
\* queue never holds more than the one event that follows the event returned; the
\* credentials are only asked for if they are required; and a request that waits
\* for its upstream has a target (the fallbacks of `self.target or ...' are dead).
TypeOK ==
  /\ stream \in Bytes
  /\ inflight \in Bytes
  /\ requireAuth \in BOOLEAN
  /\ buf \in Bytes
  /\ state \in States
  /\ out \in Seq({Close} \cup RelayEvent) /\ Len(out) <= 1
  /\ dec \in Decisions
  /\ ev \in Event \cup {None}
  /\ log \in Seq(LastingEvent)
  /\ state \in {"auth", "auth_wait"} => requireAuth
  /\ state = "connect_wait" => dec.target \in Address

\* What is left of the whole stream behind each message, measured at once and
\* not chunk by chunk.
AfterGreeting == Drop(stream, 2 + stream[2])
AfterAuth ==
  IF requireAuth
    THEN LET b == AfterGreeting IN Drop(b, 3 + b[2] + b[3 + b[2]])
    ELSE AfterGreeting
AfterRequest == Drop(AfterAuth, Size(AfterAuth))

\* Reassembly (`self._buf += data' against the `del self._buf[:n]' of three
\* phases): whatever the sizes of the chunks, what is buffered together with
\* what is still to arrive is exactly the stream behind the messages consumed
\* so far; no byte is lost, kept twice or charged to the wrong message.
BytesAccounted ==
  /\ state = "greeting" => buf \o inflight = stream
  /\ state = "auth" => buf \o inflight = AfterGreeting
  /\ state \in {"auth_wait", "request"} => buf \o inflight = AfterAuth
  /\ state \in {"connect_wait", "relay"} => buf \o inflight = AfterRequest

\* Segmentation independence: the credentials given to the authorize hook and
\* the destination given to the connect hook are those one reads from the
\* unsegmented stream, although the code parses a growing buffer.
ParsedAsSent ==
  \A i \in DOMAIN log :
    /\ log[i].type = "Authorize" =>
         /\ HasUserpass(AfterGreeting)
         /\ log[i] = Authorize(parse_userpass(AfterGreeting))
    /\ log[i].type = "Connect" =>
         /\ HasRequest(AfterAuth)
         /\ log[i] = Connect(Cmd.CONNECT, parse_request(AfterAuth).dst)

\* An event as the peer and the driver see it.  Each message has its own first
\* byte or length: a reply is longer than the other two.
MethodKind(data)  == IF data[2] = Method.NO_ACCEPTABLE THEN "no method" ELSE "method"
AuthKind(data)    == IF data[2] = 0 THEN "accepted" ELSE "refused"
VerdictKind(data) == IF data[2] = Rep.SUCCEEDED THEN "success" ELSE "failure"
SendKind(data) ==
  IF Len(data) > 2
    THEN VerdictKind(data)
    ELSE IF data[1] = AuthVer THEN AuthKind(data) ELSE MethodKind(data)
Kind(e) == IF e.type = "Send" THEN SendKind(e.data) ELSE e.type

Conversations ==
  LET opening == IF requireAuth THEN <<"method", "Authorize", "accepted">> ELSE <<"method">>
      endings == {<<"failure">>,                        \* bad request
                  <<"Connect", "failure">>,             \* rejected, or no upstream
                  <<"Connect", "success", "Relay">>,
                  <<"Connect", "Relay">>}               \* relay_raw
  IN  {opening \o e : e \in endings}
        \cup (IF requireAuth
                THEN {<<"no method">>, <<"method", "Authorize", "refused">>}
                ELSE {})

\* The order of the protocol, in whatever order the methods are called: one
\* method selection; with auth, no Connect before the hook was asked and the
\* peer told "accepted"; at most one verdict on the request; and no Relay
\* behind a failure reply.
LegalConversation ==
  \E c \in Conversations :
    /\ Len(log) <= Len(c)
    /\ \A i \in 1 .. Len(log) : Kind(log[i]) = c[i]

\* A closed session is silent (`Tear the session down (any final Send was
\* already emitted before this)', events.py): the step that sets "closed" returns
\* the final Send or Close, and after it the session returns nothing but Close: it
\* does not speak, wait for data or raise, whatever is received or decided.
SilentOnceClosed ==
  [][/\ state' = "closed" => ev'.type \in {"Send", "Close"}
     /\ state = "closed" => state' = "closed" /\ log' = log /\ ev' \in {ev, Close}]_vars

=============================================================================
