---------------------------- MODULE ServerDriver ----------------------------
(***************************************************************************)
(* One connection of Server (server/server.py) or of AsyncServer           *)
(* (server/aio.py): the loop of _handle around a ServerSession, with the   *)
(* hooks, the dial, the relay and the teardown.                            *)
(*                                                                         *)
(* pc is where the driver stands: about to call next_event() ("next"), at  *)
(* the branch of the event it was given (the event's type), in the finally *)
(* clause, or done.  A hook makes any calls of the decision API and then   *)
(* returns, raises, or leaves by a BaseException.  The peer may disappear  *)
(* at any time, and any operation on its socket may then fail.             *)
(***************************************************************************)
EXTENDS ServerSession

CONSTANT LocalAddress  \* what getsockname() says of a dialled socket

ASSUME DriverAssumption ==
  /\ LocalAddress \in Address /\ LocalAddress # None
  /\ None \notin {"close", "relay", "eof", "error", "crash", "exit", "cut"}

VARIABLES
  async,        \* AsyncServer (TRUE) or Server (FALSE): fixed
  pc,
  peerClosed,   \* the peer has sent its FIN: recv returns b"" in the end
  downstream,   \* the accepted socket: "open" or "closed"
  upstream,     \* the dialled socket: "none", "open", "closed", or "lost" by _dial
  end,          \* why the loop was left: None while it runs, and in the end
                \* "cut" if the finally clause was
  answered,     \* history: how many events of log were carried out
  refused,      \* history: how hooks refused the peer: None, "reject", "raise"
  disconnects   \* history: how many times on_disconnect was called

driver     == <<async, pc, peerClosed, downstream, upstream, end, answered, refused, disconnects>>
driverVars == <<vars, driver>>

DriverInit ==
  /\ Init
  /\ async \in BOOLEAN
  /\ pc = "next"
  /\ peerClosed = FALSE
  /\ downstream = "open"
  /\ upstream = "none"
  /\ end = None
  /\ answered = 0
  /\ refused = None
  /\ disconnects = 0

\* Leave the loop for the finally clause.
Leave(reason) == pc' = "finally" /\ end' = reason

\* The driver's own variables when the loop goes on.
Continue(at) == pc' = at /\ UNCHANGED end

sockets == <<async, peerClosed, downstream, upstream, disconnects>>

-----------------------------------------------------------------------------
(* The loop. *)

\* ev = sess.next_event(); an exception of the session is no OSError.
Pull ==
  /\ pc = "next"
  /\ next_event
  /\ CASE ev'.type = "Raise" -> Leave("crash")
       [] ev'.type = "Close" -> Leave("close")
       [] OTHER              -> Continue(ev'.type)
  /\ UNCHANGED <<sockets, answered, refused>>

SendAll ==
  /\ pc = "Send"
  /\ Continue("next")
  /\ answered' = answered + 1
  /\ UNCHANGED <<vars, sockets, refused>>

Recv ==
  /\ pc = "NeedData"
  /\ \E n \in 1 .. Len(inflight) : receive(n)
  /\ Continue("next")
  /\ UNCHANGED <<sockets, answered, refused>>

\* Mutant: `if not data: return' is missing.
RecvEOF_Ignored ==
  /\ pc = "NeedData"
  /\ inflight = <<>>
  /\ peerClosed
  /\ Continue("next")
  /\ UNCHANGED <<vars, sockets, answered, refused>>

RecvEOF ==
  /\ pc = "NeedData"
  /\ inflight = <<>>
  /\ peerClosed
  /\ Leave("eof")
  /\ UNCHANGED <<vars, sockets, answered, refused>>

\* recv or sendall raises OSError: the peer has reset the connection.
SocketError ==
  /\ pc \in {"Send", "NeedData"}
  /\ Leave("error")
  /\ UNCHANGED <<vars, sockets, answered, refused>>

\* A hook under way calls the session.
HookCalls ==
  /\ pc \in {"Authorize", "Connect"}
  /\ HookCall
  /\ UNCHANGED driver

\* authorize() returns.  (Authorize is only emitted to a server that has the
\* hook: the branch `sess.ok(None)' is never taken.)
AuthorizeReturns ==
  /\ pc = "Authorize"
  /\ Continue("next")
  /\ answered' = answered + 1
  /\ refused' = IF dec.rejected THEN "reject" ELSE refused
  /\ UNCHANGED <<vars, sockets>>

\* Mutant: a raising hook is ignored.
AuthorizeRaises_Ignored ==
  /\ pc = "Authorize"
  /\ Continue("next")
  /\ answered' = answered + 1
  /\ refused' = "raise"
  /\ UNCHANGED <<vars, sockets>>

AuthorizeRaises ==
  /\ pc = "Authorize"
  /\ reject(Rep.NOT_ALLOWED)
  /\ Continue("next")
  /\ answered' = answered + 1
  /\ refused' = "raise"
  /\ UNCHANGED sockets

OnConnectRaises ==
  /\ pc = "Connect"
  /\ reject(Rep.GENERAL_FAILURE)
  /\ Continue("next")
  /\ answered' = answered + 1
  /\ refused' = "raise"
  /\ UNCHANGED sockets

\* on_connect() returns, or there is none: `if sess.rejected: pass'.
OnConnectRejected ==
  /\ pc = "Connect"
  /\ dec.rejected
  /\ Continue("next")
  /\ answered' = answered + 1
  /\ refused' = "reject"
  /\ UNCHANGED <<vars, sockets>>

\* Served in memory: no dial.  ev is the Connect event, before set_target().
OnConnectIntercepted ==
  /\ pc = "Connect"
  /\ ~dec.rejected
  /\ dec.intercept
  /\ connected(ev.dst)
  /\ Continue("next")
  /\ answered' = answered + 1
  /\ UNCHANGED <<sockets, refused>>

Dialling == pc = "Connect" /\ ~dec.rejected /\ ~dec.intercept

\* _dial: the upstream opens, and its local address goes into the reply.
DialSucceeds ==
  /\ Dialling
  /\ connected(LocalAddress)
  /\ upstream' = "open"
  /\ Continue("next")
  /\ answered' = answered + 1
  /\ UNCHANGED <<async, peerClosed, downstream, disconnects, refused>>

\* Mutant: a dial that failed is reported as one that did not.
DialFails_Connected ==
  /\ Dialling
  /\ connected(LocalAddress)
  /\ Continue("next")
  /\ answered' = answered + 1
  /\ UNCHANGED <<sockets, refused>>

\* _dial: refused, timed out, or another OSError.  (So is one of getsockname() in the
\* threaded driver: _dial returns, and nothing refers to the socket it opened.)
DialFails ==
  /\ Dialling
  /\ \E r \in {Rep.CONN_REFUSED, Rep.TTL_EXPIRED, Rep.NET_UNREACHABLE,
               Rep.HOST_UNREACHABLE} : connect_failed(r)
  /\ Continue("next")
  /\ answered' = answered + 1
  /\ UNCHANGED <<sockets, refused>>

\* _dial: an exception that is no OSError (a name the IDNA codec refuses).
DialRaises ==
  /\ Dialling
  /\ Leave("crash")
  /\ UNCHANGED <<vars, sockets, answered, refused>>

\* asyncio's _dial: the transport is open but has no local address, and None[:2] is a
\* TypeError: the event loop keeps a connection that _handle knows nothing of.
DialUnnamed ==
  /\ Dialling
  /\ async
  /\ upstream' = "lost"
  /\ Leave("crash")
  /\ UNCHANGED <<vars, async, peerClosed, downstream, disconnects, answered, refused>>

\* Relay without an upstream or a custom pipe: AttributeError on None in the
\* threaded driver; the asyncio driver tests for it and returns.
RelayWithoutUpstream ==
  /\ pc = "Relay"
  /\ ~dec.customPipe
  /\ upstream = "none"
  /\ Leave(IF async THEN "relay" ELSE "crash")
  /\ answered' = answered + 1
  /\ UNCHANGED <<vars, sockets, refused>>

\* The splice or the custom pipe ends; a custom pipe may raise anything.
RelayEnds ==
  /\ pc = "Relay"
  /\ dec.customPipe \/ upstream = "open"
  /\ Leave("relay") \/ (dec.customPipe /\ Leave("crash"))
  /\ answered' = answered + 1
  /\ UNCHANGED <<vars, sockets, refused>>

\* A BaseException passes `except Exception': sys.exit() in a hook or a pipe,
\* or the cancellation of the asyncio task at any await.
Exits == IF async THEN {"Send", "NeedData", "Authorize", "Connect", "Relay"}
                  ELSE {"Authorize", "Connect", "Relay"}

Exit ==
  /\ pc \in Exits
  /\ Leave("exit")
  /\ UNCHANGED <<vars, sockets, answered, refused>>

-----------------------------------------------------------------------------
(* The finally clause. *)

\* Mutant: the upstream is left to the garbage collector.
Teardown_LeakUpstream ==
  /\ pc = "finally"
  /\ disconnects' = disconnects + 1
  /\ downstream' = "closed"
  /\ pc' = "done"
  /\ UNCHANGED <<vars, async, peerClosed, upstream, end, answered, refused>>

\* on_disconnect runs, with `except Exception: pass', and the sockets close.
Teardown ==
  /\ pc = "finally"
  /\ disconnects' = disconnects + 1
  /\ downstream' = "closed"
  /\ upstream' = IF upstream = "open" THEN "closed" ELSE upstream
  /\ pc' = "done"
  /\ UNCHANGED <<vars, async, peerClosed, end, answered, refused>>

\* on_disconnect leaves by a BaseException: nothing is closed.
TeardownExits ==
  /\ pc = "finally"
  /\ disconnects' = disconnects + 1
  /\ end' = "cut"
  /\ pc' = "done"
  /\ UNCHANGED <<vars, async, peerClosed, downstream, upstream, answered, refused>>

PeerCloses ==
  /\ pc # "done"
  /\ ~peerClosed
  /\ peerClosed' = TRUE
  /\ UNCHANGED <<vars, async, pc, downstream, upstream, end, answered, refused, disconnects>>

\* The driver's steps that do not wait for the peer or for a custom pipe.
HooksReturn == AuthorizeReturns \/ OnConnectRejected \/ OnConnectIntercepted
Dial        == DialSucceeds \/ DialFails \/ DialRaises \/ DialUnnamed
Handshake   == Pull \/ SendAll \/ Recv \/ RecvEOF \/ HooksReturn \/ Dial

DriverNext ==
  \/ Handshake
  \/ SocketError
  \/ HookCalls
  \/ AuthorizeRaises
  \/ OnConnectRaises
  \/ RelayWithoutUpstream
  \/ RelayEnds
  \/ Exit
  \/ Teardown
  \/ TeardownExits
  \/ PeerCloses

\* A thread (or task) that can run does; hooks return; a dial ends, since it
\* has a timeout.  Nothing says that the peer sends or closes, or that a relay
\* ends.
DriverFairness == WF_driverVars(Handshake) /\ WF_driverVars(Teardown \/ TeardownExits)

DriverSpec == DriverInit /\ [][DriverNext]_driverVars /\ DriverFairness

-----------------------------------------------------------------------------
(* Properties. *)

\* The driver's bookkeeping: it carries out one event at a time, and leaves the
\* loop exactly when it has a reason to.
DriverTypeOK ==
  /\ TypeOK
  /\ async \in BOOLEAN
  /\ pc \in {"next", "Send", "NeedData", "Authorize", "Connect", "Relay",
            "finally", "done"}
  /\ peerClosed \in BOOLEAN
  /\ downstream \in {"open", "closed"}
  /\ upstream \in {"none", "open", "closed", "lost"}
  /\ end \in {None, "close", "relay", "eof", "error", "crash", "exit", "cut"}
  /\ (end = None) <=> (pc \notin {"finally", "done"})
  /\ answered \in 0 .. Len(log) /\ answered >= Len(log) - 1
  /\ refused \in {None, "reject", "raise"}
  /\ disconnects \in 0 .. 1

Said == [i \in DOMAIN log |-> Kind(log[i])]

IsSaid(kind) == \E i \in DOMAIN log : Kind(log[i]) = kind

\* Authorization: a socket to the outside is opened only for a peer that every
\* hook let pass and, when the server asks for credentials, only after the peer
\* was told so.  `rejected' is one flag that two phases and two hooks share
\* (session.py: reset in "auth" and in "request", read in four places).
UpstreamOnlyIfAuthorized ==
  upstream # "none" =>
    /\ refused = None
    /\ requireAuth => \E i \in 1 .. answered : Kind(log[i]) = "accepted"

\* The verdict is true: SUCCEEDED is sent only with an upstream that was opened
\* or a request served in memory, and never to a peer a hook refused; a failure
\* reply never leaves an upstream open behind it.
TruthfulVerdict ==
  /\ IsSaid("success") => (upstream # "none" \/ dec.intercept) /\ refused = None
  /\ IsSaid("failure") => upstream = "none"

\* The relay is entered with something to relay to: a custom pipe, an upstream that is
\* open, or relay_raw(), which a hook called without installing the pipe that `owns
\* the SOCKS5 reply' (its docstring).  Server._relay() tests for none of them.
RelayHasOtherEnd ==
  pc = "Relay" => dec.customPipe \/ upstream = "open" \/ dec.relayRaw

\* Nobody is dropped in mid-conversation: a connection the server itself closes
\* has had a whole conversation, every reply written before the close.  Two peers are
\* dropped without a word or the last word, in spite of README.md:97-98 (see
\* ServerClaims): one whose first byte is not SOCKS5's, and one whose
\* authentication message exceeds its cap.
NoSilentClose ==
  end = "close" =>
    /\ answered = Len(log)
    /\ \/ Said \in Conversations
       \/ log = <<>> /\ stream[1] # Ver
       \/ Said = <<"method">> /\ requireAuth /\ Len(AfterGreeting) > 3 + MaxByte + MaxByte

\* The finally clause: on_disconnect is called once whatever ended the loop (its
\* docstring: `run once the session ends'), sockets stay open until then, and
\* none _handle knows of is left open, also if a hook's sys.exit() or a cancellation
\* ended the loop; only if one cuts the clause itself short.
CleanTeardown ==
  /\ disconnects = (IF pc = "done" THEN 1 ELSE 0)
  /\ pc # "done" => downstream = "open" /\ upstream # "closed"
  /\ pc = "done" /\ end # "cut" => downstream = "closed" /\ upstream # "open"

\* No connection outlives its peer before the relay: once the peer has closed,
\* the driver ends or reaches the relay, whatever was in flight, whatever the
\* hooks did and however the dial went.
PeerGoneEnds == peerClosed ~> pc \in {"Relay", "done"}

=============================================================================
