---------------------------- MODULE ClientSession ----------------------------
(***************************************************************************)
(* The sans-IO client, core/session.py: Session.feed() consumes what the   *)
(* proxy answers to the optimistic pipeline, in chunks of any size.        *)
(*                                                                         *)
(* One call of feed() is several steps: the append, then one step per turn *)
(* of its loop until it returns or raises.  The proxy's bytes are fixed    *)
(* when the session starts; inflight is what feed() has not taken yet.     *)
(***************************************************************************)
EXTENDS Socks5Codec

CONSTANTS
  None,     \* Python's None
  Streams   \* what a proxy may send: its replies, then tunnel bytes

ASSUME ClientAssumption ==
  /\ \A s \in Streams : s \in Bytes
  /\ None \notin [rep : Byte, bound : Address]

VARIABLES
  stream,    \* everything the proxy sends (fixed)
  inflight,  \* the part of it the session has not taken
  auth,      \* _auth: credentials were given (fixed)
  buf,       \* _buf
  state,     \* _state
  reply_,    \* _reply
  feeding,   \* a call of feed() is under way
  result     \* how the last call ended: "need" (None), "reply", or the error

vars == <<stream, inflight, auth, buf, state, reply_, feeding, result>>

method == IF auth THEN Method.USERPASS ELSE Method.NO_AUTH

Init ==
  /\ stream \in Streams
  /\ inflight = stream
  /\ auth \in BOOLEAN
  /\ buf = <<>>
  /\ state = "method"
  /\ reply_ = None
  /\ feeding = FALSE
  /\ result = "need"

\* feed(data): once done, data is the tunnel's and stays with the caller.
feed(n) ==
  /\ ~feeding
  /\ feeding' = TRUE
  /\ IF state = "done"
       THEN UNCHANGED <<buf, inflight>>
       ELSE /\ buf' = buf \o SubSeq(inflight, 1, n)
            /\ inflight' = Drop(inflight, n)
  /\ UNCHANGED <<stream, auth, state, reply_, result>>

-----------------------------------------------------------------------------
(* One turn of the loop. *)

\* The call is over.
Finish(r) ==
  /\ feeding' = FALSE
  /\ result' = r
  /\ UNCHANGED <<stream, inflight, auth>>

Leave(r) == Finish(r) /\ UNCHANGED <<buf, state, reply_>>

\* A message of n bytes is consumed, and the loop goes on in state s.
Advance(n, s) ==
  /\ buf' = Drop(buf, n)
  /\ state' = s
  /\ UNCHANGED <<stream, inflight, auth, reply_, feeding, result>>

In(s) == feeding /\ state = s

MethodShort     == In("method") /\ Len(buf) < 2 /\ Leave("need")
MethodMalformed == In("method") /\ Len(buf) >= 2 /\ ~HasMethodSelection(buf)
                     /\ Leave("malformed")
\* Mutant: the wrong choice is consumed before the error is raised.
MethodOther_Consumed ==
  /\ In("method")
  /\ HasMethodSelection(buf)
  /\ parse_method_selection(buf) # method
  /\ buf' = Drop(buf, 2)
  /\ Finish("method")
  /\ UNCHANGED <<state, reply_>>

MethodOther ==
  /\ In("method")
  /\ HasMethodSelection(buf)
  /\ parse_method_selection(buf) # method
  /\ Leave("method")

\* Mutant: an authentication reply is expected in any case.
MethodChosen_Auth ==
  /\ In("method")
  /\ HasMethodSelection(buf)
  /\ parse_method_selection(buf) = method
  /\ Advance(2, "auth")

MethodChosen ==
  /\ In("method")
  /\ HasMethodSelection(buf)
  /\ parse_method_selection(buf) = method
  /\ Advance(2, IF auth THEN "auth" ELSE "reply")

\* Mutant: half a reply is taken for a malformed one.
AuthShort_Raises == In("auth") /\ Len(buf) < 2 /\ Leave("malformed")

AuthShort     == In("auth") /\ Len(buf) < 2 /\ Leave("need")
AuthMalformed == In("auth") /\ Len(buf) >= 2 /\ ~HasAuthReply(buf) /\ Leave("malformed")
AuthRefused   == In("auth") /\ HasAuthReply(buf) /\ parse_auth_reply(buf) # 0 /\ Leave("auth")
AuthAccepted  ==
  /\ In("auth")
  /\ HasAuthReply(buf)
  /\ parse_auth_reply(buf) = 0
  /\ Advance(2, "reply")

UnknownAtyp(b) == Len(b) >= 4 /\ b[4] \notin Atyps
Arrived(b)      == HasSize(b) /\ Len(b) >= Size(b)
Sized(b)        == SubSeq(b, 1, Size(b))

ReplyUnknownAtyp == In("reply") /\ UnknownAtyp(buf) /\ Leave("atyp")
ReplyShort       == In("reply") /\ ~UnknownAtyp(buf) /\ ~Arrived(buf) /\ Leave("need")
ReplyMalformed   == In("reply") /\ Arrived(buf) /\ ~HasReply(Sized(buf)) /\ Leave("malformed")

\* The binding raises on a name that is not UTF-8.
ReplyUndecodable ==
  /\ In("reply")
  /\ Arrived(buf)
  /\ HasReply(Sized(buf))
  /\ AddressRaises(buf, 4)
  /\ Leave("undecodable")

\* Mutant: the buffer is emptied behind the reply.
ReplyParsed_Clear ==
  /\ In("reply")
  /\ Arrived(buf)
  /\ HasReply(Sized(buf))
  /\ ~AddressRaises(buf, 4)
  /\ reply_' = parse_reply(Sized(buf))
  /\ buf' = <<>>
  /\ state' = "done"
  /\ Finish("reply")

\* Mutant: _reply is not set.
ReplyParsed_NoReply ==
  /\ In("reply")
  /\ Arrived(buf)
  /\ HasReply(Sized(buf))
  /\ ~AddressRaises(buf, 4)
  /\ buf' = Drop(buf, Size(buf))
  /\ state' = "done"
  /\ Finish("reply")
  /\ UNCHANGED reply_

ReplyParsed ==
  /\ In("reply")
  /\ Arrived(buf)
  /\ HasReply(Sized(buf))
  /\ ~AddressRaises(buf, 4)
  /\ reply_' = parse_reply(Sized(buf))
  /\ buf' = Drop(buf, Size(buf))
  /\ state' = "done"
  /\ Finish("reply")

\* Idempotent once complete.
Done == In("done") /\ Leave("reply")

Turn ==
  \/ MethodShort \/ MethodMalformed \/ MethodOther \/ MethodChosen
  \/ AuthShort \/ AuthMalformed \/ AuthRefused \/ AuthAccepted
  \/ ReplyUnknownAtyp \/ ReplyShort \/ ReplyMalformed \/ ReplyUndecodable
  \/ ReplyParsed
  \/ Done

Next == (\E n \in 0 .. Len(inflight) : feed(n)) \/ Turn

Spec == Init /\ [][Next]_vars

-----------------------------------------------------------------------------
(* Properties. *)

Results == {"need", "reply", "malformed", "method", "auth", "atyp", "undecodable"}
Reply   == [rep : Byte, bound : Address]

\* The values of every field; there is a reply exactly in state "done".
TypeOK ==
  /\ stream \in Bytes
  /\ inflight \in Bytes
  /\ auth \in BOOLEAN
  /\ buf \in Bytes
  /\ state \in {"method", "auth", "reply", "done"}
  /\ reply_ \in Reply \cup {None}
  /\ (reply_ # None) <=> (state = "done")
  /\ feeding \in BOOLEAN
  /\ result \in Results

\* The phases of a whole stream, taken apart at once.
AfterMethod(s) == Drop(s, 2)
AfterAuth(s)   == IF auth THEN Drop(s, 4) ELSE Drop(s, 2)

\* What a stream deserves, read as a whole: the first message that is wrong, or
\* the reply, or more bytes.
ReplyVerdict(s) ==
  CASE Len(s) < 4 \/ (s[4] \in Atyps /\ ~Arrived(s)) -> "need"
    [] Len(s) >= 4 /\ s[4] \notin Atyps              -> "atyp"
    [] Arrived(s) /\ s[1] # Ver                      -> "malformed"
    [] Arrived(s) /\ s[1] = Ver                      ->
         IF AddressRaises(s, 4) THEN "undecodable" ELSE "reply"

PairVerdict(s, version, wanted, error) ==
  CASE Len(s) < 2                                      -> "need"
    [] Len(s) >= 2 /\ s[1] # version                   -> "malformed"
    [] Len(s) >= 2 /\ s[1] = version /\ s[2] # wanted  -> error
    [] Len(s) >= 2 /\ s[1] = version /\ s[2] = wanted  -> "go on"

Verdict(s) ==
  LET chosen == PairVerdict(s, Ver, method, "method")
      login  == IF auth THEN PairVerdict(AfterMethod(s), AuthVer, 0, "auth") ELSE "go on"
  IN  IF chosen # "go on" THEN chosen
      ELSE IF login # "go on" THEN login
      ELSE ReplyVerdict(AfterAuth(s))

Taken == SubSeq(stream, 1, Len(stream) - Len(inflight))

\* Segmentation independence: between calls, how feed() ended last is a function
\* of the bytes it was given in all, however they were cut into chunks.
SegmentationIndependent ==
  ~feeding => result = Verdict(Taken)

\* `prepend this to the tunnel stream so none are lost' (leftover): the leftover
\* and what was not read yet are exactly the stream behind the reply, and the
\* reply is the one the stream holds.
TunnelIntact ==
  state = "done" =>
    /\ buf \o inflight = Drop(AfterAuth(stream), Size(AfterAuth(stream)))
    /\ reply_ = parse_reply(AfterAuth(stream))

\* A verdict is final: an error is raised again by every later call, and the
\* reply is returned again with the buffer untouched.
VerdictIsFinal ==
  [][result # "need" => result' = result /\ UNCHANGED <<state, reply_>>]_vars

=============================================================================
