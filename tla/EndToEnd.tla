------------------------------ MODULE EndToEnd ------------------------------
(***************************************************************************)
(* The library's client against the library's server: ClientConnect and    *)
(* ServerDriver joined by a connection that keeps order and loses nothing. *)
(* What one side sends is the other side's stream, which here grows.       *)
(*                                                                         *)
(* The application is `optisocks5 probe' (cli.py:cmd_probe): an optimistic *)
(* attempt, then a staged one, each with a client and a session of its     *)
(* own.  The variables of the client have the prefix c where the server    *)
(* has the same name.                                                      *)
(***************************************************************************)
EXTENDS ServerDriver

CONSTANTS
  Destination,  \* the target of the probe
  Credentials,  \* those in the proxy's URL, if it has any
  Banner        \* what the upstream says first

\* The target and the credentials are Python strings a builder takes: whatever
\* inet_pton takes for a literal is no name, and a name is UTF-8.  A new connection
\* has nothing on it, and getsockname() tells a literal.
ASSUME E2EAssumption ==
  /\ <<>> \in Streams
  /\ Destination \in Address /\ Encodable(Destination.host)
  /\ IF Destination.host.atyp = Domain
       THEN Destination.host.raw \notin DOMAIN Spelled \cup Undecodable
       ELSE Destination.host \in LiteralHost
  /\ LocalAddress.host \in LiteralHost
  /\ Credentials \in [user : Bytes, pass : Bytes]
  /\ Len(Credentials.user) <= MaxByte /\ Len(Credentials.pass) <= MaxByte
  /\ Banner \in Bytes
  /\ None \notin Nat \cup [rep : Byte, bound : Address]

VARIABLES
  cStream, cInflight, cAuth, cBuf, cState, cReply, cFeeding, cResult,
  cpc, got, sent, gone, expired, conn, sock, bound, leftover, outcome, connects,
  spoken,   \* the upstream has sent its banner
  attempt,  \* 1: the optimistic one, 2: the staged one
  first     \* how the optimistic attempt ended, and whether it had an excuse

C == INSTANCE ClientConnect WITH
  Streams <- {<<>>}, MaxConnects <- 2, staged <- attempt = 2,
  stream <- cStream, inflight <- cInflight, auth <- cAuth, buf <- cBuf,
  state <- cState, reply_ <- cReply, feeding <- cFeeding, result <- cResult, pc <- cpc

cCall ==
  <<cAuth, cBuf, cState, cReply, cFeeding, cResult, cpc, got, sent, gone, expired,
    conn, outcome, connects>>
cRest  == <<cCall, sock, bound, leftover>>
client == <<cStream, cInflight, cRest>>
probe  == <<attempt, first>>
e2eVars == <<driverVars, client, spoken, probe>>

E2EInit ==
  /\ DriverInit /\ stream = <<>>
  /\ attempt = 1
  /\ C!ClientInit
  /\ spoken = FALSE
  /\ first = [ok |-> FALSE, excuse |-> FALSE]

-----------------------------------------------------------------------------
(* The probe. *)

\* accept(), and a new ServerSession.
FreshServer ==
  /\ stream' = <<>> /\ inflight' = <<>>
  /\ buf' = <<>> /\ state' = "greeting" /\ out' = <<>>
  /\ dec' = FreshDecisions /\ ev' = None /\ log' = <<>>
  /\ pc' = "next" /\ peerClosed' = FALSE
  /\ downstream' = "open" /\ upstream' = "none"
  /\ end' = None /\ answered' = 0 /\ refused' = None /\ disconnects' = 0
  /\ spoken' = FALSE
  /\ UNCHANGED <<requireAuth, async>>

\* One connect() for each mode.
Try ==
  /\ connects < attempt
  /\ UNCHANGED probe
  /\ C!Open
  /\ FreshServer

Over == connects = attempt /\ cpc = "idle" /\ sock = None

\* A server that said no, or failed.
ServerRefused ==
  \/ IsSaid("failure") \/ IsSaid("refused") \/ IsSaid("no method")
  \/ end \in {"crash", "exit", "cut"}

\* What an attempt may fail of: the server, the clock, or credentials pipelined to
\* a server that does not ask for any.
Excuse == ServerRefused \/ expired \/ (attempt = 1 /\ cAuth /\ ~requireAuth)

\* results["optimistic"], and a new client, of the other class.
SwitchMode ==
  /\ attempt = 1
  /\ Over
  /\ attempt' = 2
  /\ first' = [ok |-> outcome = "connected", excuse |-> Excuse]
  /\ bound' = None
  /\ leftover' = <<>>
  /\ UNCHANGED <<driverVars, cStream, cInflight, cCall, sock, spoken>>

verdict ==
  IF ~(attempt = 2 /\ Over) THEN "none"
  ELSE IF first.ok
    THEN (IF outcome = "connected" THEN "byte-exact" ELSE "anomalous")
    ELSE (IF outcome = "connected" THEN "recv-per-phase" ELSE "both failed")

-----------------------------------------------------------------------------
(* The two ends. *)

\* What the client sends reaches the server's socket.
Sends ==
  LET data == Drop(sent', Len(sent))
  IN  stream' = stream \o data /\ inflight' = inflight \o data

ServerRest ==
  <<requireAuth, async, buf, state, out, dec, ev, log, pc, peerClosed, downstream,
    upstream, end, answered, refused, disconnects, spoken>>

Client ==
  /\ UNCHANGED <<ServerRest, probe>>
  /\ C!connect \/ C!close \/ C!Expire
  /\ Sends

ProxyCloses ==
  /\ downstream = "closed"
  /\ UNCHANGED <<driverVars, spoken, probe>>
  /\ C!ProxyCloses

\* What the server sends reaches the client's socket.
Delivers(data) ==
  /\ cStream' = cStream \o data
  /\ cInflight' = cInflight \o data
  /\ UNCHANGED <<cRest, probe>>

ServerSends == SendAll /\ Delivers(ev.data) /\ UNCHANGED spoken

UpstreamSpeaks ==
  /\ pc = "Relay"
  /\ ~spoken
  /\ spoken' = TRUE
  /\ Delivers(Banner)
  /\ UNCHANGED driverVars

\* The hooks reject, intercept, or install a pipe; relay_raw() would leave the reply
\* to that pipe.
Hooks == HookCalls /\ ~dec'.relayRaw

Ended == conn = "closed" /\ (RecvEOF \/ SocketError \/ PeerCloses)

Server ==
  /\ \/ Pull \/ Recv \/ Hooks \/ HooksReturn \/ Dial
     \/ AuthorizeRaises \/ OnConnectRaises
     \/ RelayEnds \/ Ended \/ Exit \/ Teardown
  /\ UNCHANGED <<client, spoken, probe>>

\* The steps of the server that nobody has to wait for.
ServerRuns ==
  \/ ServerSends
  \/ /\ Pull \/ Recv \/ HooksReturn \/ Dial \/ Teardown
     /\ UNCHANGED <<client, spoken, probe>>

ClientRuns == UNCHANGED <<ServerRest, probe>> /\ C!connect /\ Sends

E2ENext ==
  \/ Try \/ SwitchMode
  \/ Client \/ ProxyCloses
  \/ Server \/ ServerSends \/ UpstreamSpeaks

\* Both ends run; hooks return and dials end.  The deadline may pass and need not.
E2ESpec ==
  /\ E2EInit /\ [][E2ENext]_e2eVars
  /\ WF_e2eVars(ServerRuns) /\ WF_e2eVars(ClientRuns) /\ WF_e2eVars(ProxyCloses)

-----------------------------------------------------------------------------
(* Properties. *)

\* The two ends mean the same: whatever the methods they settled on or failed to
\* settle on, the hooks are given what the client asked for, and a
\* client that is told `connected' is connected, to the address the server
\* advertised and with every byte of the tunnel.
Agreement ==
  /\ \A i \in DOMAIN log :
       /\ log[i].type = "Connect" => log[i] = Connect(Cmd.CONNECT, Destination)
       /\ log[i].type = "Authorize" => log[i] = Authorize(Credentials)
  /\ sock # None =>
       /\ IsSaid("success")
       /\ bound = dec.connectedBnd
       /\ leftover \o cInflight = (IF spoken THEN Banner ELSE <<>>)

\* `a byte-exact proxy passes optimistic' (cli.py:14): an attempt at this server fails
\* only if the server refused or failed, time ran out, or credentials were pipelined
\* to a server that wants none; only then does the probe say anything but
\* `byte-exact'.
ProbeSound ==
  /\ verdict \in {"recv-per-phase", "both failed"} => first.excuse
  /\ verdict \in {"anomalous", "both failed"} => Excuse

\* `a byte-exact proxy passes optimistic' (cli.py:14-15): an optimistic attempt at this
\* server, which is byte-exact, fails only if the server refused or failed, or time
\* ran out.
ByteExactPassesOptimistic ==
  attempt = 1 /\ Over /\ outcome # "connected" => ServerRefused \/ expired

\* Neither end waits for the other for ever: connect() ends without the help of its
\* deadline, for a client and a server of any settings.
Resolves == cpc # "idle" ~> cpc = "idle"

=============================================================================
