---------------------------- MODULE ClientConnect ----------------------------
(***************************************************************************)
(* connect() and close() of the four clients: OptimisticClient and Client  *)
(* (sync/client.py), and their asyncio mirrors (aio/client.py), which run  *)
(* the same handshake on streams.                                          *)
(*                                                                         *)
(* The optimistic clients drive a ClientSession; the staged ones read each *)
(* message exactly.  The application uses one object for one connection    *)
(* after the other; each time another proxy may answer.  There is no       *)
(* clock: the deadline passes at some moment, and then no read is begun or *)
(* finished any more.  Calls that overlap are AsyncClient's.               *)
(***************************************************************************)
EXTENDS ClientSession

CONSTANTS
  Destination,  \* what connect() is asked for
  Credentials,  \* the username and password, of a client that has them
  MaxConnects   \* bound: how often connect() is called

\* The builders take these arguments; those they refuse are Interrupt's.
ASSUME ConnectAssumption ==
  /\ Destination \in Address /\ Encodable(Destination.host)
  /\ Credentials \in [user : Bytes, pass : Bytes]
  /\ Len(Credentials.user) <= MaxByte /\ Len(Credentials.pass) <= MaxByte
  /\ MaxConnects \in Nat \ {0}
  /\ None \notin Nat

VARIABLES
  staged,    \* the class: Client or OptimisticClient (fixed)
  pc,        \* where connect() stands: "idle" between calls
  got,       \* what _recv_exact() has read of its message
  sent,      \* the bytes sent on this connection
  gone,      \* the proxy has sent its FIN
  expired,   \* the deadline has passed
  conn,      \* the local socket: "none", "open" or "closed"
  sock,      \* self.sock: None or the connection, by its number
  bound,     \* self.bound
  leftover,  \* self.leftover
  outcome,   \* how the last connect() ended
  connects   \* how often it was called

session == <<stream, inflight, auth, buf, state, reply_, feeding, result>>
object  == <<sock, bound, leftover>>
clock   == <<gone, expired>>
clientVars ==
  <<session, object, clock, staged, pc, got, sent, conn, outcome, connects>>

ClientInit ==
  /\ Init
  /\ staged \in BOOLEAN
  /\ pc = "idle"
  /\ got = <<>>
  /\ sent = <<>>
  /\ gone = FALSE
  /\ expired = FALSE
  /\ conn = "none"
  /\ sock = None
  /\ bound = None
  /\ leftover = <<>>
  /\ outcome = "none"
  /\ connects = 0

-----------------------------------------------------------------------------
(* The ends of a call. *)

\* `except BaseException: s.close(); raise'.
Fail(why) ==
  /\ pc' = "idle"
  /\ conn' = "closed"
  /\ outcome' = why
  /\ UNCHANGED <<object, clock, staged, got, sent, connects>>

\* Mutant: the socket of a request that was refused stays open.
Conclude_KeepOpen(r) ==
  /\ pc' = "idle"
  /\ IF r.rep = Rep.SUCCEEDED
       THEN /\ sock' = connects /\ bound' = r.bound
            /\ outcome' = "connected"
       ELSE /\ outcome' = "refused"
            /\ UNCHANGED <<sock, bound>>
  /\ UNCHANGED <<clock, staged, got, sent, conn, connects>>

\* _finish(): a reply is a connection or a refusal.
Conclude(r) ==
  /\ pc' = "idle"
  /\ IF r.rep = Rep.SUCCEEDED
       THEN /\ sock' = connects /\ bound' = r.bound
            /\ outcome' = "connected"
            /\ UNCHANGED conn
       ELSE /\ conn' = "closed"
            /\ outcome' = "refused"
            /\ UNCHANGED <<sock, bound>>
  /\ UNCHANGED <<clock, staged, got, sent, connects>>

\* One object, one connection at a time: connect() raises if there is one.  A new
\* socket, a new deadline and, for the optimistic client, a new Session.
Open ==
  /\ pc = "idle"
  /\ sock = None
  /\ connects < MaxConnects
  /\ connects' = connects + 1
  /\ stream' \in Streams
  /\ inflight' = stream'
  /\ buf' = <<>>
  /\ state' = "method"
  /\ reply_' = None
  /\ feeding' = FALSE
  /\ result' = "need"
  /\ pc' = IF staged THEN "greeting" ELSE "pipeline"
  /\ got' = <<>>
  /\ sent' = <<>>
  /\ gone' = FALSE
  /\ expired' = FALSE
  /\ conn' = "open"
  /\ UNCHANGED <<auth, staged, object, outcome>>

close ==
  /\ pc = "idle"
  /\ sock # None
  /\ sock' = None
  /\ conn' = "closed"
  /\ UNCHANGED <<session, bound, leftover, clock, staged, pc, got, sent, outcome, connects>>

-----------------------------------------------------------------------------
(* The messages. *)

Login == userpass_auth(Credentials.user, Credentials.pass)
Ask   == request(Cmd.CONNECT, Destination)

optimistic_pipeline ==
  client_greeting(<<method>>) \o (IF auth THEN Login ELSE <<>>) \o Ask

Offered == IF auth THEN <<Method.USERPASS, Method.NO_AUTH>> ELSE <<Method.NO_AUTH>>

\* sendall(data), and then on to the next message.
Say(data, next) ==
  /\ sent' = sent \o data
  /\ got' = <<>>
  /\ pc' = next
  /\ UNCHANGED <<object, clock, staged, conn, outcome, connects>>

SendPipeline == pc = "pipeline" /\ Say(optimistic_pipeline, "feed") /\ UNCHANGED session
SendGreeting == pc = "greeting" /\ Say(client_greeting(Offered), "method") /\ UNCHANGED session

-----------------------------------------------------------------------------
(* The optimistic client. *)

Hungry == pc = "feed" /\ ~feeding /\ result = "need"

Feed ==
  /\ Hungry
  /\ ~expired
  /\ \E n \in 1 .. Len(inflight) : feed(n)
  /\ UNCHANGED <<object, clock, staged, pc, got, sent, conn, outcome, connects>>

\* The turns of feed() that a caller who stops at the reply can get to.
FeedTurns ==
  /\ pc = "feed"
  /\ state # "done"
  /\ Turn
  /\ UNCHANGED <<object, clock, staged, pc, got, sent, conn, outcome, connects>>

\* Mutant: what was read behind the reply is not kept.
FeedReplied_NoLeftover ==
  /\ pc = "feed" /\ ~feeding
  /\ result = "reply"
  /\ Conclude(reply_)
  /\ UNCHANGED <<session, leftover>>

FeedReplied ==
  /\ pc = "feed" /\ ~feeding
  /\ result = "reply"
  /\ leftover' = buf
  /\ Conclude(reply_)
  /\ UNCHANGED session

FeedRaised ==
  /\ pc = "feed" /\ ~feeding
  /\ result \notin {"need", "reply"}
  /\ Fail("refused")
  /\ UNCHANGED session

-----------------------------------------------------------------------------
(* The staged client. *)

\* _recv_reply: the head, for a name its length, and the rest.
ReplySize(g) ==
  IF Len(g) < 4 THEN 4
  ELSE IF g[4] = Domain /\ Len(g) < 5 THEN 5 ELSE Size(g)

Reading == pc \in {"method", "status", "reply"}
Refusable == pc = "reply" /\ UnknownAtyp(got)
Wanted == IF pc = "reply" THEN ReplySize(got) ELSE 2
Whole  == Reading /\ ~Refusable /\ Len(got) = Wanted
Short  == Reading /\ ~Refusable /\ Len(got) < Wanted

\* _recv_exact: never a byte more than the message.
Recv ==
  /\ Short
  /\ ~expired
  /\ \E n \in 1 .. Len(inflight) :
       /\ n <= Wanted - Len(got)
       /\ got' = got \o SubSeq(inflight, 1, n)
       /\ inflight' = Drop(inflight, n)
  /\ UNCHANGED <<stream, auth, buf, state, reply_, feeding, result>>
  /\ UNCHANGED <<object, clock, staged, pc, sent, conn, outcome, connects>>

Chose(m) ==
  pc = "method" /\ Whole /\ HasMethodSelection(got) /\ parse_method_selection(got) = m

ChosenUserpass ==
  /\ Chose(Method.USERPASS)
  /\ auth
  /\ Say(Login, "status")
  /\ UNCHANGED session

ChosenNoAuth == Chose(Method.NO_AUTH) /\ Say(Ask, "reply") /\ UNCHANGED session

\* Malformed, not offered, or credentials that the client does not have.
ChosenOther ==
  /\ pc = "method" /\ Whole
  /\ ~Chose(Method.NO_AUTH)
  /\ ~(Chose(Method.USERPASS) /\ auth)
  /\ Fail("refused")
  /\ UNCHANGED session

LoggedIn == HasAuthReply(got) /\ parse_auth_reply(got) = 0

\* Mutant: any answer to the credentials is taken for yes.
StatusAccepted_Any == pc = "status" /\ Whole /\ Say(Ask, "reply") /\ UNCHANGED session
StatusAccepted == pc = "status" /\ Whole /\ LoggedIn /\ Say(Ask, "reply") /\ UNCHANGED session
StatusRefused  == pc = "status" /\ Whole /\ ~LoggedIn /\ Fail("refused") /\ UNCHANGED session

Parsed == HasReply(got) /\ ~AddressRaises(got, 4)

ReplyRead ==
  /\ pc = "reply" /\ Whole
  /\ Parsed
  /\ Conclude(parse_reply(got))
  /\ UNCHANGED <<session, leftover>>

ReplyRefused ==
  /\ Refusable \/ (pc = "reply" /\ Whole /\ ~Parsed)
  /\ Fail("refused")
  /\ UNCHANGED session

-----------------------------------------------------------------------------
(* What ends the wait. *)

Waiting == Hungry \/ Short

ProxyGone ==
  /\ Waiting
  /\ inflight = <<>>
  /\ gone
  /\ ~expired
  /\ Fail("eof")
  /\ UNCHANGED session

\* Mutant: the deadline is only looked at between two reads.
TimesOut_BetweenReads ==
  /\ Waiting
  /\ expired
  /\ inflight # <<>>
  /\ Fail("timeout")
  /\ UNCHANGED session

\* _arm() raises, or the recv() it armed does; asyncio.timeout() cancels the read.
TimesOut ==
  /\ Waiting
  /\ expired
  /\ Fail("timeout")
  /\ UNCHANGED session

\* Any other exception: OSError, an argument a builder refuses, KeyboardInterrupt,
\* the cancellation of the task.
Interrupt ==
  /\ pc # "idle" /\ ~feeding
  /\ Fail("interrupted")
  /\ UNCHANGED session

ProxyCloses ==
  /\ pc # "idle"
  /\ ~gone
  /\ gone' = TRUE
  /\ UNCHANGED <<session, object, staged, pc, got, sent, expired, conn, outcome, connects>>

Expire ==
  /\ pc # "idle"
  /\ ~expired
  /\ expired' = TRUE
  /\ UNCHANGED <<session, object, staged, pc, got, sent, gone, conn, outcome, connects>>

OptimisticStep == SendPipeline \/ Feed \/ FeedTurns \/ FeedReplied \/ FeedRaised

StagedStep ==
  \/ SendGreeting \/ Recv
  \/ ChosenUserpass \/ ChosenNoAuth \/ ChosenOther
  \/ StatusAccepted \/ StatusRefused
  \/ ReplyRead \/ ReplyRefused

connect == OptimisticStep \/ StagedStep \/ ProxyGone \/ TimesOut

ClientNext == Open \/ close \/ connect \/ Interrupt \/ ProxyCloses \/ Expire

\* The call runs when it can, and time passes.  Nothing is assumed of the proxy.
ClientSpec ==
  /\ ClientInit /\ [][ClientNext]_clientVars
  /\ WF_clientVars(connect) /\ WF_clientVars(Expire)

-----------------------------------------------------------------------------
(* Properties. *)

Places == {"idle", "pipeline", "feed", "greeting", "method", "status", "reply"}

\* The values of every field.
ClientTypeOK ==
  /\ TypeOK
  /\ staged \in BOOLEAN
  /\ pc \in Places
  /\ got \in Bytes /\ sent \in Bytes /\ leftover \in Bytes
  /\ gone \in BOOLEAN /\ expired \in BOOLEAN
  /\ conn \in {"none", "open", "closed"}
  /\ sock \in 1 .. MaxConnects \cup {None}
  /\ bound \in Address \cup {None}
  /\ outcome \in {"none", "connected", "refused", "eof", "timeout", "interrupted"}
  /\ connects \in 0 .. MaxConnects

\* Every way out of connect() but success closes the socket, and the one it succeeds
\* with is the object's: an object between two calls holds the open socket or none
\* is open.
NoSocketLeaks == pc = "idle" => (conn = "open" <=> sock = connects)

\* Where the reply begins in what the proxy sends.
ReplyPart ==
  IF ~staged THEN AfterAuth(stream)
  ELSE IF stream[2] = Method.USERPASS THEN Drop(stream, 4) ELSE Drop(stream, 2)

\* `Read EXACTLY one reply' (_recv_reply), `prepend this' (leftover): a connected
\* client, be it the object's first connection or a later one, hands over the tunnel
\* from its first byte, and the bound address is that connection's.
TunnelHandedOver ==
  sock # None =>
    /\ leftover \o inflight = Drop(ReplyPart, Size(ReplyPart))
    /\ bound = parse_reply(ReplyPart).bound

StagedVerdict(s) ==
  LET chosen == PairVerdict(s, Ver, Method.NO_AUTH, "other")
      login  == PairVerdict(Drop(s, 2), AuthVer, 0, "auth")
  IN  IF chosen = "go on" THEN ReplyVerdict(Drop(s, 2))
      ELSE IF chosen # "other" THEN chosen
      ELSE IF s[2] # Method.USERPASS \/ ~auth THEN "method"
      ELSE IF login # "go on" THEN login
      ELSE ReplyVerdict(Drop(s, 4))

Deserved == IF staged THEN StagedVerdict(stream) ELSE Verdict(stream)

\* The outcome is the proxy's answer and not an accident of how its bytes were cut:
\* a connection for a whole handshake that grants one, a refusal for bytes that hold
\* one, and `proxy closed connection' only if something was missing.
OutcomeDeserved ==
  /\ outcome = "connected" /\ pc = "idle" =>
       Deserved = "reply" /\ parse_reply(ReplyPart).rep = Rep.SUCCEEDED
  /\ outcome = "refused" /\ pc = "idle" =>
       /\ Deserved # "need"
       /\ Deserved = "reply" => parse_reply(ReplyPart).rep # Rep.SUCCEEDED
  /\ outcome = "eof" /\ pc = "idle" => Deserved = "need"

\* `so a proxy that dribbles one byte per recv can't outlast timeout' (_arm): the
\* deadline ends connect(), whatever the proxy sends or does not send.
ConnectEnds == pc # "idle" ~> pc = "idle"

=============================================================================
