# optisocks5 — verification project

TLA+ models of the SOCKS5 library in `src/`, TLC runs on small instances, and
TLAPS proofs. Everything is translated from the source; `PROJECT.json` maps each
definition to the lines it stands for.

## 1. The system

| part | state | operations | talks to |
|---|---|---|---|
| **codec** (`csrc/socks5_codec.cpp`, bound by `csrc/module.cpp`; `reply_size`, `_request_len` in Python) | none | builders and parsers of greeting, method selection, username/password, request, reply, UDP datagram | called by everything below |
| **server session** (`server/session.py`, `server/events.py`) | receive buffer, protocol state, queue of events, decision fields | `receive`, `next_event`, the decision methods `ok reject set_target pipe relay_raw intercept connected connect_failed` | a driver pulls events and pushes bytes; hooks push decisions |
| **connection driver** (`server/server.py:_handle/_dial/_relay`, `server/aio.py:_handle/_dial`) | two sockets, one session | the event loop, hook calls, dial, relay, teardown | the peer, the hooks, the upstream |
| **threaded relay** (`server/server.py:splice`) | two copying threads | recv, sendall, shutdown, join | both sockets |
| **asyncio relay** (`server/aio.py:_pump, async_splice`) | two coroutines | read, write, drain, write_eof | both stream pairs |
| **accept loop** (`server/server.py:bind/serve_forever/close`) | the listening socket `_sock` | bind, accept, close from another thread | one thread per connection |
| **client session** (`core/session.py`) | buffer, state, reply | `optimistic_pipeline`, `feed`, `leftover` | a client feeds it |
| **blocking clients** (`sync/client.py`) | socket, deadline, leftover | `connect` (optimistic or staged), `close` | a proxy |
| **asyncio clients** (`aio/client.py`) | reader/writer, timeout | `connect`, `aclose` | a proxy |
| **CLI** (`cli.py`) | none | connect, fetch, probe | the blocking clients |

What is hard in it: the peer's bytes arrive in any segmentation while three
phases parse one buffer; the session is a state machine whose fields are
written by user code at any moment between events; hooks and dials fail in many
ways and cancellation can strike at every await; the relay is two threads on
two sockets with timeouts, half-close and resets; the listener is shared by two
threads without a lock; overlapping calls on one asyncio client.

What makes each part correct:

- codec: the two languages agree on every length; a parsed value does not depend
  on what follows it; decode and encode are inverse as far as text allows.
- server session: no byte lost or charged to the wrong message, hooks see what
  was sent, the conversation is a SOCKS5 conversation whatever the caller does,
  and closed stays closed.
- driver: no dial without authorization, the reply tells the truth, no silent
  drop of a well-behaved peer, one teardown that closes everything, and no
  connection that outlives its peer.
- relays: each is two pipes (`StreamPipes`): a direction delivers a prefix, an end
  comes at most once and behind it nothing, and it is taken for complete only behind
  the last byte. The directions do not break each other; the threaded relay is ended
  by its idle timeout, the asyncio one, which has none, by the end of either
  direction if the endpoints answer an end with their own.
- client session: the verdict depends on the bytes only, is final, and tunnel
  bytes are kept.
- accept loop: no listener outlives `close()`, `close()` ends the loop, and nothing
  else does.
- clients: every way out of `connect()` but success closes the socket; the tunnel
  is handed over from its first byte; the outcome is what the proxy's bytes deserve,
  and the deadline ends the call. One asyncio client used by several tasks holds one
  tunnel and leaks none, as long as two handshakes do not overlap.
- client and server together: they agree on what was asked and answered, neither
  waits for the other for ever, and an attempt fails only for a reason.

## 2. Modules

| module | models | how |
|---|---|---|
| `Socks5Codec` | codec | operators on sequences of bytes. A host is a record of the ATYP `inet_pton` gives it and its raw bytes; `Spelled` is the set of domain names that spell an IP literal (they come back with another ATYP), `Undecodable` the byte strings on which the binding's UTF-8 decoding raises. `MaxByte` is 255 in the code. |
| `CodecStream` | — | a buffer that grows byte by byte, to check the parsers as the sessions call them |
| `ServerSession` | server session | one action per way through `next_event()`, one per method. The whole `dec` record is the block of fields "filled by hooks / driver between events". `Go(n, s, events, d)` is the pattern of every branch: delete n bytes, change state, return the first event and queue the rest. The caller is free: any method at any time. |
| `ServerDriver` | driver | extends `ServerSession`: `pc` is the branch `_handle` stands in; the calls it makes are the session's own actions. A variable `async` chooses between `Server` and `AsyncServer`, which differ in where cancellation can strike, in what a relay without upstream does, and in a dial that can lose its connection (`DialUnnamed`, `upstream = "lost"`). `end` says why the loop was left, or that the finally clause itself was cut short (`"cut"`). |
| `ServerClaims` | — | statements of comments and docs that the code refutes (section 5) |
| `Splice` | threaded relay | two threads; `recv` takes a chunk, `sendall` writes byte by byte into a bounded window; the endpoints pause, finish and break; blocked calls may time out when their socket has a timeout |
| `StreamPipes` | — | the abstract relay: what any implementation of it promises |
| `AsyncSplice` | asyncio relay | one step from an await to the next; transports with a buffer, high- and low-water marks and `write_eof`; a connection breaks in two steps (closing, then `connection_lost`), as asyncio's do; the task may be cancelled |
| `AcceptLoop` | accept loop of `Server` | one step per statement that reads or writes `_sock` or calls into the socket, in two kinds of threads: the application's (`Bind`, `StartThread`, the parts of `Close`) and loop i of the listener that the i-th `bind()` made. `wakes` says whether closing a socket wakes a thread blocked in `accept()`, which depends on the platform; `fd` is the descriptor, and a loop blocked on one that is closed under it is `Stuck`, the kernel listening on for it; `Joins` whether the application waits for a loop before it binds again. |
| `ClientSession` | client session | `feed()` is the append and then one action per turn of its loop |
| `ClientConnect` | blocking clients, and the bytes of the asyncio ones | extends `ClientSession`: `pc` is the message `connect()` stands at; `staged` chooses the class. One object, `MaxConnects` connections, each to any of the proxies. There is no clock: the deadline passes at some moment (`Expire`), and then no read begins or ends. |
| `AsyncClient` | asyncio clients | tasks that call `connect()` and `aclose()` of one object; each attribute holds the number of the connection its value comes from. A cancelled `wait_closed()` cancels a future that belongs to the connection (`cut`), as asyncio does. The ready queue is in order (`Settled`): a task that was woken runs before I/O that comes later. |
| `EndToEnd` | both clients against the server, and `cmd_probe` | extends `ServerDriver` and instantiates `ClientConnect`: what one side sends is appended to the other's stream. The probe's two attempts, each with a session of its own. |
| `MCPeers`, `MC*` | — | values for TLC |
| `Socks5CodecProofs`, `CodecStreamProofs`, `ServerProofs`, `ClientProofs`, `SpliceProofs`, `AsyncSpliceProofs`, `AsyncClientProofs`, `AcceptLoopProofs` | — | lemmas and theorems (section 6); those about `EndToEnd` stand at the end of `ServerProofs` and use `ClientProofs` through an instance |

`log` in `ServerSession`, `answered`, `refused`, `disconnects` in `ServerDriver`
and `overlapped` in `AsyncClient` are history variables: nothing reads them but properties.
Definitions named `X_Something` under a comment `Mutant:` are plausible wrong
versions of `X`, used to see that each property can fail; no specification
refers to them.

## 3. The runs that pass

| run | question | bounds |
|---|---|---|
| `server_session` | is the session correct whatever its driver does? | 16 peers: well-behaved with and without credentials; not SOCKS5; unknown ATYP; wrong version; not CONNECT; a name spelling a literal, one that is not UTF-8, one with a NUL; no userpass message at all (past the cap); an IPv6 request (past the cap of the other forms); early tunnel data; truncated streams. Every segmentation. One failure code, a sendable and an unsendable address. |
| `server_driver` | does one connection end properly? | the same peers, hooks that make any of the calls that are theirs, both drivers |
| `splice` | are two threads and two sockets two pipes? | 3 bytes one way, 2 the other, a window of one byte, chunks of up to two |
| `async_splice` | are two coroutines and their transports two pipes? | 4 bytes one way, 3 the other; a writer pauses above two bytes and resumes at one, so it can be paused again; chunks of up to two; resets at both ends, one cancellation |
| `client_session` | is `feed()` a function of the bytes? | 16 proxies, with and without credentials, every segmentation with empty chunks |
| `client_connect` | does `connect()` end as it should, whatever the proxy? | both classes, with and without credentials, two connections of one object to any of 12 proxies, every segmentation, a deadline, a FIN or an interruption at any point |
| `async_client` | can tasks share one client? | three tasks, three connections, resets and cancellations at every await: two tasks can overlap and a third sees what they leave |
| `end_to_end` | do client and server mean the same? | an optimistic and a staged attempt, with and without credentials and authorization, hooks that reject, raise, intercept, a dial that fails, an upstream that speaks first, every segmentation of both directions |
| `codec` | do the parsers agree and invert? | buffers of up to 23 bytes, the alphabet at each position chosen so that each version, ATYP, length and content occurs |
| `accept_loop` | do `bind`, `serve_forever` and `close` get along without a lock? | three starts, each after the end of the loop before it; both platforms |

Bytes are 0..15 in the instances (`MaxByte = 15`), so ports are 0..255 and a
name has up to 15 bytes. Every code of the protocol but NO_ACCEPTABLE is
below 9 and NO_ACCEPTABLE is `MaxByte`. 15 is the smallest value for which the
code keeps its shape: the cap on a request, 4 + 1 + MaxByte + 2, must not be
below the 22 bytes of an IPv6 request. Messages are short enough for every
segmentation to be explored and long enough for each cap to be passed.

Properties (their comments say what code they are about):

- `server_session`: `BytesAccounted` (reassembly), `ParsedAsSent` (hooks are given
  what the unsegmented stream says), `LegalConversation` (order of messages and of
  hook calls), `SilentOnceClosed` (an action property), `TypeOK`.
- `server_driver`: `UpstreamOnlyIfAuthorized`, `TruthfulVerdict`, `NoSilentClose`,
  `RelayHasOtherEnd`, `CleanTeardown`, `PeerGoneEnds` (liveness); `DriverTypeOK` is proved
  (section 6).
- `splice`: `IsTwoPipes` (refinement of `StreamPipes`), `ErrorHasCause`,
  `IdleTimeoutReturns` and `CompleteWhenUndisturbed` (liveness), `TypeOK`.
- `async_splice`: `IsTwoPipes` (refinement), `EndsTogether` (liveness), `TypeOK`.
- `client_session`: `SegmentationIndependent`, `TunnelIntact`, `VerdictIsFinal`
  (action property).
- `client_connect`: `NoSocketLeaks`, `TunnelHandedOver`, `OutcomeDeserved`,
  `ConnectEnds` (liveness), `ClientTypeOK`.
- `async_client`: `NoLeak`, `OneTunnel`, `CallsEnd` (liveness), `TypeOK`.
- `end_to_end`: `Agreement`, `ProbeSound`, `Resolves` (liveness).
- `accept_loop`: `NoDescriptorLeft`, `TransientKeepsServing` (action property),
  `CloseEndsLoop` (liveness).
- `codec`: `SizersAgree`, `RoundTrips`, `ParsersStable` (action property).

The credentials of `end_to_end` are chosen so that their message, read as a request
(which happens when they are pipelined to a server without an `authorize` hook), has
the ATYP of an IPv4 address: only the test of the version keeps the server from
dialling an address made of their bytes.

## 4. Fairness and deadlock

- `DriverSpec`: weak fairness of the driver's own steps and of the teardown. A
  thread or task that can run does; hooks are assumed to return; a dial ends
  because it has a timeout. Nothing is assumed of the peer, nor of the end of a
  relay. Deadlock is not checked: a connection ends, and a silent peer may hold
  it for ever, as in the code.
- `Splice!Spec`: weak fairness of each thread, of its timeouts, and of the join.
  `IdleTimeoutReturns` needs no cooperation of the endpoints but that what they send is
  finite: one that sends a byte within every timeout keeps the relay for ever, as in the
  code. The premise of `CompleteWhenUndisturbed` states what cooperation means.
- `AsyncSplice!Spec`: weak fairness of each pump and each callback of the event loop,
  and of endpoints that take what they are sent and answer an end with their own.
  The last is not the code's doing: without it nothing ends this relay.
- `ClientSpec`: the call runs, and time passes. Nothing is assumed of the proxy.
- `AsyncClient!Spec`: time passes, a task that is ready runs, and a transport that is
  closed is closed at last. The last is an assumption about the peer: `_abort()`
  awaits `wait_closed()` outside of the timeout, so a `connect()` whose transport
  cannot flush what it holds outlasts its budget.
- `E2ESpec`: both ends run, hooks return, dials end, a FIN arrives. `Resolves` does
  not need the deadline to pass.
- `AcceptLoop!Spec`: weak fairness of each loop's own statements, of a `close()`
  that was called, and of an `accept()` that the close of its socket wakes. Nothing says
  that a peer connects: where closing wakes nobody, a loop that is blocked then stays
  for ever (`Stuck`), which is what `CloseEndsLoop` allows and `ClosedListenerStops`
  (section 5) does not. The last loop ends, so deadlock is not checked.
- `ServerSession!Spec` and `ClientSession!Spec` have none: they are APIs. Deadlock is
  checked for them: a method can always be called. Elsewhere the system may stop: a
  relay or a probe ends, an application stops calling.

## 5. What the docs say and the code does not

Two have a run that must fail, and a finding in `PROJECT.json` with the quotation:

- `GluedBytesForwarded` (`ServerClaims`): tunnel bytes that came with the request stay
  in the session's buffer and never reach the upstream through the default relay.
- `RejectedWithReply` (`ServerClaims`): README.md:97-98 promises a protocol reply to peers
  that are not SOCKS5 or send too much; `GreetingBadVersion` closes without one, and so
  does the cap on the authentication message. `NoSilentClose` says that nothing else does.

Five more are stated beside the properties of their module. Each has a configuration of
its own, with which TLC finds the counterexample at once:

| property | configuration | module | what TLC shows |
|---|---|---|---|
| `ClosedListenerStops` | `ClaimClosedListenerStops` | `MCAcceptLoop` | server.py:99, "listener was closed -> stop". Where closing a socket does not wake the thread blocked in `accept()` on it, Linux among them, `close()` alone does not end the loop, and the next peer is still served. |
| `TransientKeepsServing` | `ClaimTransientKeepsServing` (without `Joins`) | `MCAcceptLoop` | server.py:100, "keep serving". If the application binds again before the old loop has ended, that loop resets `_sock` on its way out (`LeaveReset`); the new loop takes its first transient error for a close, and `close()` no longer finds the new listener, so `NoDescriptorLeft` needs `Joins` too. |
| `ByteExactPassesOptimistic` | `ClaimByteExactPassesOptimistic` | `MCEndToEnd` | cli.py:13-14, "a byte-exact proxy passes optimistic". A byte-exact server without an `authorize` hook closes on an optimistic client that has credentials, and the probe reports it as recv-per-phase. `ProbeSound` says that this is the only wrong reason. |
| `AcloseFrees` | `ClaimAcloseFrees` | `MCAsyncClient` | aio/client.py:83, "client already connected; aclose() first". Once an `aclose()` was cancelled while it waited, every later one raises CancelledError before it resets `writer`, and `connect()` keeps asking for `aclose()`. |
| `AlwaysReachable` | `ClaimAlwaysReachable` | `MCAsyncClient` | aio/client.py:85-86, "a bound writer is always reachable for cleanup". Of two `connect()` calls of one client that overlap the second replaces the writer of the first, whose connection nothing closes any more; `NoLeak` is what is left if handshakes do not overlap. |

Others follow from the models in a few steps and have no configuration of their own:

- server.py:144, "bad hook = general failure": `relay_raw()` wins over the exception of
  the same hook (`ConnectRaw` before `ConnectRejected`).
- events.py:36-38: a dial that raises something other than OSError reports nothing
  (`DialRaises`); and after `set_target()` the driver is spared its report, but
  `ConnectUndecided` raises.
- server.py:194-196, "None blocks until FIN": without an idle timeout the upstream's
  receive still has the dial's timeout (`Timed`).
- server.py:194, "until either side closes": the relay goes on until both directions are
  over; the end of one half-closes the other side and no more.
- session.py:195-196 rejects an unknown ATYP "instead of waiting forever", but
  `RequestIncomplete` waits while only four bytes are there.

Also seen, and not stated as properties because no text contradicts them: `close()`
raises AttributeError when the loop ends between its test and its use of `_sock`
(`CloseRaises`); `relay_raw()` without a pipe and without an upstream passes None to
`splice()` (`RelayWithoutUpstream`); `idle_timeout` is counted per direction, so a quiet
direction is half-closed while the other is busy; a relay that ends leaves no record
of why; the handshake has no timeout on the server's side; a failing `on_disconnect`
that is no `Exception` leaves both sockets open; a dial of the asyncio server whose
connection has no local address any more leaves it to the event loop (`DialUnnamed`); a
blocking client's socket keeps what was
left of the handshake's budget as its timeout.

## 6. Proofs

The theorems hold for every value of the constants that the assumptions below admit:

- codec: every `MaxByte >= 15`, buffers of any bytes and any length;
- server session: any streams, any segmentation, and any order in which `receive`,
  `next_event`, the hooks' and the driver's methods are called;
- driver: any peers, any hooks (they call any of the decision methods that are theirs,
  return, raise or exit; `connected()` and `connect_failed()`, which by their docstrings
  report the driver's dial, are called by the driver alone), any
  outcome of a dial, resets and cancellations, both servers;
- client session and clients: any bytes from the proxy in any segmentation, both
  classes, any number of connections of one object, a deadline or an interruption at any
  point of the handshake;
- relays: any two streams, any window or water marks, any size of a read;
- asyncio client: any number of tasks and connections;
- accept loop: any number of starts;
- both ends: any target and credentials that the builders take, any banner of the
  upstream, each class of client against each server with and without authorization, any
  hooks but those that call `relay_raw()` or leave `on_disconnect` by a BaseException, any
  segmentation on both sides.

tlapm 1.4.5 checks them with Z3, Zenon and LS4.

| module | theorem | states |
|---|---|---|
| `CodecStreamProofs` | `OneMeasure` | `Spec => []SizersAgree` |
| `CodecStreamProofs` | `MoreBytesChangeNothing` | `Spec => ParsersStable` |
| `CodecStreamProofs` | `SentOnUnchanged` | `Spec => []RoundTrips` |
| `ServerProofs` | `TypeCorrect` | `Spec => []TypeOK` |
| `ServerProofs` | `Reassembly` | `Spec => []BytesAccounted` |
| `ServerProofs` | `HooksGetWhatWasSent` | `Spec => []ParsedAsSent` |
| `ServerProofs` | `AlwaysLegal` | `Spec => []LegalConversation` |
| `ServerProofs` | `ClosedIsSilent` | `Spec => SilentOnceClosed` |
| `ServerProofs` | `DriverTypes` | `DriverSpec => []DriverTypeOK` |
| `ServerProofs` | `NoUpstreamUnauthorized` | `DriverSpec => []UpstreamOnlyIfAuthorized` |
| `ServerProofs` | `VerdictIsTrue` | `DriverSpec => []TruthfulVerdict` |
| `ServerProofs` | `NeverSilent` | `DriverSpec => []NoSilentClose` |
| `ServerProofs` | `TeardownIsClean` | `DriverSpec => []CleanTeardown` |
| `ServerProofs` | `BothEndsAgree` | `E2ESpec => []Agreement` |
| `ServerProofs` | `ProbeIsSound` | `E2ESpec => []ProbeSound` |
| `ClientProofs` | `SessionTypes` | `Spec => []TypeOK` |
| `ClientProofs` | `AnySegmentation` | `Spec => []SegmentationIndependent` |
| `ClientProofs` | `NothingLost` | `Spec => []TunnelIntact` |
| `ClientProofs` | `FinalVerdict` | `Spec => VerdictIsFinal` |
| `ClientProofs` | `ClientTypes` | `ClientSpec => []ClientTypeOK` |
| `ClientProofs` | `SocketsAccountedFor` | `ClientSpec => []NoSocketLeaks` |
| `ClientProofs` | `TunnelFromItsFirstByte` | `ClientSpec => []TunnelHandedOver` |
| `ClientProofs` | `ProxyDecides` | `ClientSpec => []OutcomeDeserved` |
| `SpliceProofs` | `RelayTypes` | `Spec => []TypeOK` |
| `SpliceProofs` | `SpliceIsTwoPipes` | `Spec => IsTwoPipes` (the refinement) |
| `SpliceProofs` | `NoSelfInflictedError` | `Spec => []ErrorHasCause` |
| `AsyncSpliceProofs` | `AsyncRelayTypes` | `Spec => []TypeOK` |
| `AsyncSpliceProofs` | `AsyncSpliceIsTwoPipes` | `Spec => IsTwoPipes` (the refinement) |
| `AsyncClientProofs` | `ClientTypes` | `Spec => []TypeOK` |
| `AsyncClientProofs` | `NothingLeaks` | `Spec => []NoLeak` |
| `AsyncClientProofs` | `TunnelIsOne` | `Spec => []OneTunnel` |
| `AcceptLoopProofs` | `ClosedForGood` | if `Joins`, `Spec => []NoDescriptorLeft` |
| `AcceptLoopProofs` | `ServesUntilClosed` | if `Joins`, `Spec => TransientKeepsServing` |

Assumptions (None, where one mentions it, only has to differ from the other values of
the attributes that may hold it):

- `CodecAssumption`: MaxByte is a natural number of at least 15; what a name spells is a
  literal host. `AlphabetAssumption`: the buffer of `CodecStream` grows by bytes.
- `SessionAssumption`: streams are byte strings, addresses are addresses, and a failure
  code is not the code of success. The last is an obligation of the caller that the code
  does not test.
- `DriverAssumption`: the address of the dialled socket is one.
- `ClientAssumption`, `ConnectAssumption`: the proxy sends bytes; the destination can be
  encoded and the credentials are no longer than their length bytes can say (the builders
  raise otherwise).
- `SpliceAssumption`, `AsyncSpliceAssumption`: streams are sequences of numbers; window
  and chunk are positive; the low-water mark is not above the high one.
- `E2EAssumption`: what `ConnectAssumption` says of the target and the credentials, and
  that the target is as `encode_address` leaves one (a literal of the right length, or a
  UTF-8 name that `inet_pton` takes for none); `getsockname()` tells a literal; a new
  connection has nothing on it. Only the two theorems about `EndToEnd` use it.
- `TasksAssumption`, `AcceptAssumption`: None is neither a connection nor a listener.

TLC evaluates each on every run whose module extends the one that declares it.

Arguments:

- *Codec.* `SizeIsEnd`: Python's size of a message is the position at which C++ stops,
  and the message is complete for both at once. `DecodeEncode`: what `encode_address`
  writes three bytes into a message is read back by `decode_address`. It is true only of
  a host as `decode_address` gives it (`Canonical`): a literal has the length of its kind,
  and a name that spells a literal is that literal already. `DecodedCanonical` says that
  every parsed host is one; hosts of a caller's own need not be. `GreetingMeans`,
  `UserpassMeans` and `RequestMeans` say that what a builder of the client writes, followed
  by any bytes, is read by the server's parsers as what it was built from, and what is left
  are those bytes.
- *Types.* `TypeOK` is inductive because it holds two facts beyond types: the
  states `auth` and `auth_wait` occur only if authentication is required, and a
  session in `connect_wait` has a target. Without the second, `Relay(target)`
  could not be shown to carry an address. `GoType` covers the pattern of every
  branch of `next_event()`; each phase then only shows that what it returns,
  queues and decides is well typed.
- *Reassembly.* `Reassembled == TypeOK /\ BytesAccounted /\ ParsedAsSent` is
  inductive. `BytesAccounted` says that the buffer followed by the bytes to come
  is the stream behind the messages consumed. When a phase consumes a message,
  `DropOfConcat` turns a deletion from the buffer into one from the stream, and
  the stability lemmas of `Socks5CodecProofs` (`GreetingStable`,
  `UserpassStable`, `SizeStable`, `RequestStable`) say that the message at the
  front of the buffer has the same length and value in the whole stream. The
  request is parsed from exactly `Size(buf)` bytes, so `RequestStable` is used on
  that cut and not on the buffer.
- *Conversation.* `LegalConversation` says that the history is the start of *some*
  legal conversation, which is not inductive. `InStage` says which start it is in
  each state, and what is queued: nothing before the relay, at most a `Relay`
  behind the success reply, at most a `Close` behind the end. With it goes
  `dec.rep # SUCCEEDED`, or a rejection could be sent as a success.
- *Driver.* The session's invariants hold of the driver too, which calls nothing but the
  session's methods. What the driver adds is where it can stand in each state of the
  session (`InStep`), and what the flags mean between a decision and the event that
  reports it: a refusal is still pending or was said (`Refusing`), an upstream belongs to
  a request nobody refused (`Dialled`), and a bound address is set once, behind an
  upstream or an interception (`Decided`). `UpstreamOnlyIfAuthorized` needs all three,
  because `rejected` is one flag that is reset and read in two phases. `NoSilentClose`
  follows from `ClosedWell`: the caps on a greeting and a request are never exceeded, since
  their length fields cannot say more than the caps allow, so only the authentication
  message can close a session without an answer, and only one that begins with another
  version than its own (`AuthFits`).
- *Relay.* `Copied` joins the types with `StreamIntact` (delivered, held and not yet
  received bytes make up what was sent) and `Over` (a direction that was shut, and both
  once `splice()` has returned, is done; a loop that ended by a FIN has nothing left). A
  byte that is sent then is the next one of a prefix, which is `StreamPipes!Deliver`; a
  half-close behind a FIN is `Complete`, any other is `Cut`; every other step stutters.
  That nobody's socket is closed under it follows from the same invariant: a thread that
  still runs excludes `returned`.
- *Asyncio relay.* `Piped` has no concatenation to hold on to, since a transport that
  closes drops what it held: `Streamed` gives each direction two positions in its stream,
  what was read and what was sent, and ties the transport's buffer to the bytes between
  them only while it is not closing. A direction that closed is never told of an end
  again. An end is complete behind a FIN because `write_eof()` waits for the buffer
  (`Over`).
- *Client session.* `Position` says which messages were taken from the stream in each
  state and that the buffer is what lies behind them. The verdict that `feed()` must give
  is defined on the whole of the bytes taken; `VerdictStable` says that more bytes do not
  change one that was reached, so a call may stop at any segment (`Settled`).
- *Clients.* An optimistic client carries the session's invariant. A staged client has
  none: `Reads` says what it has read of its message, and that it never reads a byte
  behind it, although it learns the length of the reply on the way (`ReplySizeGrows`);
  that is why its tunnel begins at its first byte without a leftover. `Holds` says whose
  the socket is at each point of `connect()`.
- *Asyncio client.* `NoLeak` and `OneTunnel` are about the time when no two handshakes
  have overlapped, and so is what makes them inductive. `OneHandshake`: at most one task
  is in `connect()`, and none beside a tunnel. `NoStaleClose`: an `aclose()` that waits
  either holds the writer the object has, or was woken and has not run yet. The latter
  can meet a `connect()` under way, but not its end, since whoever is ready runs before
  I/O that comes in later (`Settled`); without that an `aclose()` would reset the next
  tunnel's attributes.
- *Accept loop.* `Served` says that with `Joins` there is one loop at a time, which
  serves its own listener (`OneLoop`), and that a listener that is open is still the
  value of `_sock` (`OneListener`): a loop resets the attribute only behind its own
  close, and `close()` behind its own. Without `Joins` the first part is false, and so
  are the theorems. That no error but the listener's own close ends a loop needs
  `Failing`: EBADF and EINVAL come from a listener that was closed, and a loop that does
  not find its listener in `_sock` has lost it to `close()`.
- *Both ends.* `E2EInv` joins the invariants of the two halves by what was said and what
  was heard. Towards the server: its stream is what `connect()` has sent (`ClientSaid`),
  which is the greeting and some of the messages behind it (`SaysRight`); a peer that
  says more changes nothing that was parsed (`PeerMaySayMore`), and so the hooks are
  given the client's own request and credentials (`HooksGetTheWish`). Credentials that
  are read as a request are not one, because their first byte is another version.
  Towards the client: its stream is, byte for byte, the messages that the driver has
  carried out, with the upstream's banner behind them (`Heard`), each worded by the
  session's decisions (`Answering`), the address in the reply being the dialled socket's
  own or, if the request is served in memory, its target. A conversation has one of six
  shapes (`ConversationScript`), so the stream has few (`Hearing`); the client's verdict
  on each is computed by the lemmas on what a stream means (`MethodMeans`, `LoginMeans`,
  `ReplyMeans`). The result is `Meaning`: the client refuses only for one of the reasons
  `ProbeSound` allows, waits only while the server has not finished, and what it reads
  from a success is the server's address and the banner. `connect()` may also find the
  connection closed; `Wire` and `ClosedIsComplete` say that a server of this client
  closes in mid-conversation only after a crash or an exit (`GoneEarly`), since neither
  `NotSpoken` nor `TooLong` can be true of what this client sends.

Checked by TLC only:

- every liveness property (`PeerGoneEnds`, `IdleTimeoutReturns`, `CompleteWhenUndisturbed`,
  `EndsTogether`, `ConnectEnds`, `CallsEnd`, `Resolves`, `CloseEndsLoop`), since fairness
  and ENABLED are beyond the prover.

## 7. Not modelled

- The CLI's argument parsing and printing, its `connect` and `fetch`; re-exports, type
  stubs, build files, examples. `AsyncServer.serve` keeps nothing but the result of
  `asyncio.start_server`.
- TCP as such: a connection keeps order and loses nothing until it breaks. In
  particular, a close with unread bytes in the receive buffer, which some systems turn
  into a reset that can overtake a reply, is not modelled.
- Texts: close reasons, messages of exceptions, formatting of addresses.
- Time: a timeout is an event that may happen at any moment its wait allows.
