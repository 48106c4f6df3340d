---------------------------- MODULE ClientProofs ----------------------------
(***************************************************************************)
(* Theorems about the sans-IO client session and about the clients that    *)
(* drive it or read stage by stage, for whatever a proxy sends in whatever *)
(* chunks.                                                                 *)
(*                                                                         *)
(* The session's inductive invariant says where the buffer begins in the   *)
(* bytes taken (Position) and that a verdict, once reached, is that of the *)
(* bytes taken and has stopped the session there (Settled).  Two facts     *)
(* about streams carry it: a message parsed from a prefix is the message   *)
(* of the whole, and a verdict other than "need" is not changed by bytes   *)
(* that follow.                                                            *)
(***************************************************************************)
EXTENDS ClientConnect, Socks5CodecProofs

\* The proxy chose the method, and accepted the credentials if it was given any.
Chosen(s)   == PairVerdict(s, Ver, method, "method") = "go on"
Verified(s) == auth => PairVerdict(AfterMethod(s), AuthVer, 0, "auth") = "go on"

\* Where a session that has taken s stands once it has a verdict.
StateOf(s) ==
  IF ~Chosen(s) THEN "method"
  ELSE IF ~Verified(s) THEN "auth"
  ELSE IF ReplyVerdict(AfterAuth(s)) = "reply" THEN "done" ELSE "reply"

Position ==
  /\ TypeOK
  /\ Taken \in Bytes /\ Taken \o inflight = stream
  /\ state = "method" => buf = Taken
  /\ state # "method" => Chosen(Taken)
  /\ state = "auth" => auth /\ buf = AfterMethod(Taken)
  /\ state \in {"reply", "done"} => Verified(Taken)
  /\ state = "reply" => buf = AfterAuth(Taken)
  /\ state = "done" =>
       LET s == AfterAuth(Taken)
       IN  /\ Arrived(s) /\ ReplyVerdict(s) = "reply"
           /\ buf = Drop(s, Size(s))
           /\ reply_ = parse_reply(s)

Settled ==
  /\ ~feeding => result = Verdict(Taken)
  /\ result # "need" => result = Verdict(Taken) /\ state = StateOf(Taken)

SessionInv == Position /\ Settled

-----------------------------------------------------------------------------
(* The clients. *)

\* Where each class of client can stand.
Stages ==
  /\ staged => pc \in {"idle", "greeting", "method", "status", "reply"} /\ leftover = <<>>
  /\ ~staged => pc \in {"idle", "pipeline", "feed"}

\* Who holds the socket.
Holds ==
  /\ pc # "idle" => conn = "open" /\ sock = None /\ connects # 0
  /\ sock \in {None, connects}

\* What stands before the reply grants it, for a staged client.
Through(s) ==
  \/ PairVerdict(s, Ver, Method.NO_AUTH, "other") = "go on"
  \/ /\ PairVerdict(s, Ver, Method.NO_AUTH, "other") = "other"
     /\ s[2] = Method.USERPASS /\ auth
     /\ PairVerdict(Drop(s, 2), AuthVer, 0, "auth") = "go on"

\* What a staged client has read of its message, and what that leaves.
Reads ==
  /\ pc = "greeting" => got = <<>> /\ inflight = stream
  /\ pc = "method" => got \o inflight = stream /\ Len(got) <= 2
  /\ pc = "status" =>
       /\ got \o inflight = Drop(stream, 2) /\ Len(got) <= 2
       /\ PairVerdict(stream, Ver, Method.NO_AUTH, "other") = "other"
       /\ stream[2] = Method.USERPASS /\ auth
  /\ pc = "reply" =>
       /\ got \o inflight = ReplyPart
       /\ Through(stream)
       /\ StagedVerdict(stream) = ReplyVerdict(ReplyPart)
       /\ ~UnknownAtyp(got) => Len(got) <= ReplySize(got)

\* The inductive invariant.
ClientInv ==
  /\ ClientTypeOK
  /\ Stages
  /\ Holds
  /\ ~staged => SessionInv
  /\ staged => Reads
  /\ NoSocketLeaks
  /\ TunnelHandedOver
  /\ OutcomeDeserved

-----------------------------------------------------------------------------
(* Streams: what is read of a prefix is what is read of the whole. *)

\* What is dropped twice is dropped once.
LEMMA DropDrop ==
  ASSUME NEW b \in Bytes, NEW m \in Nat, NEW n \in Nat
  PROVE  Drop(Drop(b, m), n) = Drop(b, m + n)
<1> DEFINE c == Drop(b, m)
<1>0. m + n \in Nat
  OBVIOUS
<1>1. c \in Bytes /\ Len(c) = IF m <= Len(b) THEN Len(b) - m ELSE 0
  BY DropType
<1>2. \A i \in 1 .. Len(b) - m : c[i] = b[m + i]
  BY DropType
<1>3. Drop(b, m + n) \in Bytes
      /\ Len(Drop(b, m + n)) = IF m + n <= Len(b) THEN Len(b) - (m + n) ELSE 0
  BY <1>0, DropType
<1>4. \A i \in 1 .. Len(b) - (m + n) : Drop(b, m + n)[i] = b[m + n + i]
  BY <1>0, DropType
<1> HIDE DEF c
<1>5. Drop(c, n) \in Bytes /\ Len(Drop(c, n)) = IF n <= Len(c) THEN Len(c) - n ELSE 0
  BY <1>1, DropType
<1>6. \A i \in 1 .. Len(c) - n : Drop(c, n)[i] = c[n + i]
  BY <1>1, DropType
<1>7. Len(b) \in Nat
  BY DEF Bytes
<1>8. Len(Drop(c, n)) = Len(Drop(b, m + n))
  BY <1>1, <1>3, <1>5, <1>7
<1>9. ASSUME NEW i \in 1 .. Len(Drop(c, n))
      PROVE  Drop(c, n)[i] = Drop(b, m + n)[i]
  <2>1. /\ i \in 1 .. Len(c) - n /\ n + i \in 1 .. Len(b) - m
        /\ i \in 1 .. Len(b) - (m + n) /\ m + (n + i) = m + n + i
    BY <1>1, <1>5, <1>7
  <2> QED BY <1>2, <1>4, <1>6, <2>1
<1>10. Drop(c, n) = Drop(b, m + n)
  BY <1>3, <1>5, <1>8, <1>9, SeqEqual DEF Bytes
<1> QED BY <1>10 DEF c

\* A stream that ends in b starts with what is before b.
LEMMA Before ==
  ASSUME NEW a \in Bytes, NEW b \in Bytes
  PROVE  SubSeq(a \o b, 1, Len(a \o b) - Len(b)) = a
<1>1. Len(a) \in Nat /\ Len(b) \in Nat /\ Len(a \o b) = Len(a) + Len(b)
  BY ConcatType
<1>2. Len(a \o b) - Len(b) = Len(a)
  BY <1>1
<1>3. SubSeq(a \o b, 1, Len(a)) = SubSeq(a, 1, Len(a))
  BY <1>1, PrefixCut
<1>4. SubSeq(a, 1, Len(a)) = a
  BY <1>1, SubSeqFull DEF Bytes
<1> QED BY <1>2, <1>3, <1>4

\* The branches of PairVerdict.
LEMMA PairCases ==
  ASSUME NEW s \in Bytes, NEW version, NEW wanted, NEW error
  PROVE  /\ Len(s) < 2 => PairVerdict(s, version, wanted, error) = "need"
         /\ Len(s) >= 2 /\ s[1] # version =>
              PairVerdict(s, version, wanted, error) = "malformed"
         /\ Len(s) >= 2 /\ s[1] = version /\ s[2] # wanted =>
              PairVerdict(s, version, wanted, error) = error
         /\ Len(s) >= 2 /\ s[1] = version /\ s[2] = wanted =>
              PairVerdict(s, version, wanted, error) = "go on"
<1>1. Len(s) \in Nat
  BY DEF Bytes
<1>2. (Len(s) < 2) <=> ~(Len(s) >= 2)
  BY <1>1
<1> QED BY <1>2, Zenon DEF PairVerdict

\* Two bytes settle it.
LEMMA PairStable ==
  ASSUME NEW s \in Bytes, NEW t \in Bytes, NEW version, NEW wanted, NEW error,
         Len(s) >= 2
  PROVE  PairVerdict(s \o t, version, wanted, error) = PairVerdict(s, version, wanted, error)
<1> DEFINE both == s \o t
<1>1. ~(Len(both) < 2) /\ ~(Len(s) < 2) /\ Len(both) >= 2
  <2>1. both \in Bytes /\ Len(both) \in Nat /\ Len(s) \in Nat /\ Len(s) <= Len(both)
    BY ConcatType DEF Bytes
  <2> QED BY <2>1
<1>2. both[1] = s[1] /\ both[2] = s[2]
  BY PrefixByte
<1> HIDE DEF both
<1>3. CASE s[1] # version
  BY <1>1, <1>2, <1>3, Zenon DEF PairVerdict, both
<1>4. CASE s[1] = version /\ s[2] # wanted
  BY <1>1, <1>2, <1>4, Zenon DEF PairVerdict, both
<1>5. CASE s[1] = version /\ s[2] = wanted
  BY <1>1, <1>2, <1>5, Zenon DEF PairVerdict, both
<1> QED BY <1>3, <1>4, <1>5

\* The branches of ReplyVerdict.
LEMMA ReplyCases ==
  ASSUME NEW s \in Bytes
  PROVE  /\ Len(s) < 4 \/ (~UnknownAtyp(s) /\ ~Arrived(s)) => ReplyVerdict(s) = "need"
         /\ UnknownAtyp(s) => ReplyVerdict(s) = "atyp"
         /\ Arrived(s) /\ s[1] # Ver => ReplyVerdict(s) = "malformed"
         /\ Arrived(s) /\ s[1] = Ver /\ AddressRaises(s, 4) =>
              ReplyVerdict(s) = "undecodable"
         /\ Arrived(s) /\ s[1] = Ver /\ ~AddressRaises(s, 4) =>
              ReplyVerdict(s) = "reply"
<1>1. Len(s) \in Nat
  BY DEF Bytes
<1>2. Arrived(s) => Len(s) >= 4 /\ s[4] \in Atyps
  BY DEF Arrived, HasSize
<1>3. CASE Len(s) < 4 \/ (~UnknownAtyp(s) /\ ~Arrived(s))
  <2>1. Len(s) < 4 \/ (s[4] \in Atyps /\ ~Arrived(s))
    BY <1>1, <1>3 DEF UnknownAtyp
  <2>2. ~Arrived(s) /\ ~(Len(s) >= 4 /\ s[4] \notin Atyps)
    BY <1>1, <1>2, <1>3 DEF UnknownAtyp
  <2> QED BY <1>3, <2>1, <2>2, Zenon DEF ReplyVerdict, UnknownAtyp
<1>4. CASE UnknownAtyp(s)
  <2>1. ~(Len(s) < 4) /\ s[4] \notin Atyps /\ Len(s) >= 4 /\ ~Arrived(s)
    BY <1>1, <1>2, <1>4 DEF UnknownAtyp
  <2> QED BY <1>4, <2>1, Zenon DEF ReplyVerdict
<1>5. CASE Arrived(s)
  <2>1. ~(Len(s) < 4) /\ s[4] \in Atyps /\ ~UnknownAtyp(s)
    BY <1>1, <1>2, <1>5 DEF UnknownAtyp
  <2> QED BY <1>5, <2>1, Zenon DEF ReplyVerdict
<1> QED BY <1>3, <1>4, <1>5

\* A reply that has arrived holds its whole address field.
LEMMA ArrivedFacts ==
  ASSUME NEW b \in Bytes, Arrived(b)
  PROVE  /\ HasAddress(b, 4)
         /\ Size(b) \in Nat /\ Size(b) = AddressEnd(b, 4) /\ Size(b) <= Len(b)
         /\ Len(b) >= 4
         /\ Sized(b) \in Bytes /\ Len(Sized(b)) = Size(b)
         /\ Sized(b) \o Drop(b, Size(b)) = b
<1>1. /\ Len(b) \in Nat /\ Len(b) >= 4 /\ b[4] \in Atyps /\ Size(b) \in Nat
      /\ b[4] = Domain => Len(b) >= 5
      /\ Len(b) >= Size(b) /\ Size(b) >= 7
  BY SizeFacts DEF Arrived, HasSize, Bytes
<1>2. b[4] = Domain => b[5] \in Nat
  BY <1>1, ByteAt
<1>3. Size(b) = AddressEnd(b, 4)
  BY <1>1, <1>2 DEF Size, AddressEnd, AddrLast, Atyps, IPv4, IPv6, Domain
<1>4. HasAddress(b, 4)
  BY <1>1, <1>3 DEF HasAddress, AddressEnd
<1>5. Sized(b) \in Bytes /\ Sized(b) \o Drop(b, Size(b)) = b
  <2>1. Size(b) \in 0 .. Len(b)
    BY <1>1
  <2> QED BY <2>1, TakeAndDrop DEF Sized
<1>6. Len(Sized(b)) = Size(b)
  BY <1>1 DEF Sized, Bytes
<1> QED BY <1>1, <1>3, <1>4, <1>5, <1>6

\* What is read of a reply that has arrived stays when bytes follow.
LEMMA ArrivedStable ==
  ASSUME NEW b \in Bytes, NEW c \in Bytes, Arrived(b)
  PROVE  /\ Arrived(b \o c) /\ Size(b \o c) = Size(b)
         /\ (b \o c)[1] = b[1]
         /\ AddressRaises(b \o c, 4) <=> AddressRaises(b, 4)
         /\ parse_reply(b \o c) = parse_reply(b)
<1>1. /\ HasAddress(b, 4) /\ Size(b) \in Nat /\ Size(b) <= Len(b) /\ Len(b) >= 4
      /\ Len(b) \in Nat
  BY ArrivedFacts DEF Bytes
<1>2. /\ b \o c \in Bytes /\ Len(b \o c) = Len(b) + Len(c) /\ Len(c) \in Nat
  BY ConcatType
<1>3. HasSize(b)
  BY DEF Arrived
<1>4. HasSize(b \o c) /\ Size(b \o c) = Size(b)
  BY <1>3, SizeStable
<1>5. Len(b \o c) >= Size(b \o c)
  BY <1>1, <1>2, <1>4
<1>6. Arrived(b \o c)
  BY <1>4, <1>5 DEF Arrived
<1>7. (b \o c)[1] = b[1] /\ (b \o c)[2] = b[2]
  BY <1>1, PrefixByte
<1>8. /\ decode_address(b \o c, 4) = decode_address(b, 4)
      /\ RawAddress(b \o c, 4) = RawAddress(b, 4)
      /\ (b \o c)[4] = b[4]
  BY <1>1, AddressStable
<1> QED BY <1>4, <1>6, <1>7, <1>8 DEF AddressRaises, parse_reply

\* The code parses the reply cut to its size; the rest does not matter.
LEMMA SizedReply ==
  ASSUME NEW b \in Bytes, Arrived(b)
  PROVE  /\ HasReply(Sized(b)) <=> b[1] = Ver
         /\ HasReply(b) <=> b[1] = Ver
         /\ parse_reply(Sized(b)) = parse_reply(b)
         /\ parse_reply(b) \in Reply
<1> DEFINE c == Sized(b)
           d == Drop(b, Size(b))
<1>1. /\ c \in Bytes /\ d \in Bytes /\ c \o d = b /\ Len(c) = Size(b)
      /\ HasAddress(b, 4) /\ Size(b) \in Nat /\ Size(b) <= Len(b) /\ Len(b) >= 4
      /\ Len(b) \in Nat
  <2>1. /\ HasAddress(b, 4) /\ Size(b) \in Nat /\ Size(b) <= Len(b) /\ Len(b) >= 4
        /\ c \in Bytes /\ Len(c) = Size(b) /\ c \o d = b
    BY ArrivedFacts
  <2>2. d \in Bytes
    BY <2>1, DropType
  <2> QED BY <2>1, <2>2 DEF Bytes
<1>2. HasSize(b) /\ Size(b) >= 7 /\ (b[4] = Domain => Len(b) >= 5) /\ b[4] \in Atyps
  BY SizeFacts DEF Arrived, HasSize
<1>3. \A i \in 1 .. 7 : c[i] = b[i]
  BY <1>1, <1>2 DEF Sized, Bytes
<1>4. HasSize(c)
  BY <1>1, <1>2, <1>3 DEF HasSize
<1> HIDE DEF c, d
<1>5. Size(c) = Size(b)
  BY <1>1, <1>4, SizeStable
<1>6. Arrived(c)
  BY <1>1, <1>4, <1>5 DEF Arrived
<1>7. HasAddress(c, 4) /\ Len(c) >= 4
  BY <1>1, <1>6, ArrivedFacts
<1>8. parse_reply(c \o d) = parse_reply(c)
  BY <1>1, <1>6, ArrivedStable
<1>9. HasReply(c) <=> b[1] = Ver
  BY <1>3, <1>7 DEF HasReply
<1>10. HasReply(b) <=> b[1] = Ver
  BY <1>1 DEF HasReply
<1>11. parse_reply(b) \in Reply
  <2>1. b[2] \in Byte
    BY <1>1, ByteAt
  <2>2. decode_address(b, 4) \in Address
    BY <1>1, DecodeAddressType
  <2> QED BY <2>1, <2>2 DEF parse_reply, Reply
<1> QED BY <1>1, <1>8, <1>9, <1>10, <1>11 DEF c

\* A reply's verdict is final.
LEMMA ReplyStable ==
  ASSUME NEW s \in Bytes, NEW t \in Bytes, ReplyVerdict(s) # "need"
  PROVE  ReplyVerdict(s \o t) = ReplyVerdict(s)
<1>1. Len(s) \in Nat /\ s \o t \in Bytes /\ Len(s \o t) \in Nat /\ Len(s) <= Len(s \o t)
  BY ConcatType DEF Bytes
<1>2. ~(Len(s) < 4) /\ (UnknownAtyp(s) \/ Arrived(s))
  BY ReplyCases
<1>3. CASE UnknownAtyp(s)
  <2>1. (s \o t)[4] = s[4]
    BY <1>1, <1>2, PrefixByte
  <2>2. UnknownAtyp(s \o t)
    BY <1>1, <1>3, <2>1 DEF UnknownAtyp
  <2> QED BY <1>1, <1>3, <2>2, ReplyCases
<1>4. CASE Arrived(s)
  <2>1. /\ Arrived(s \o t) /\ (s \o t)[1] = s[1]
        /\ AddressRaises(s \o t, 4) <=> AddressRaises(s, 4)
    BY <1>4, ArrivedStable
  <2> QED BY <1>1, <1>4, <2>1, ReplyCases
<1> QED BY <1>2, <1>3, <1>4

-----------------------------------------------------------------------------
(* The verdict on a whole stream. *)

\* The stages of Verdict, one at a time.
LEMMA VerdictMethod ==
  ASSUME NEW s \in Bytes, ~Chosen(s)
  PROVE  /\ Verdict(s) = PairVerdict(s, Ver, method, "method")
         /\ StateOf(s) = "method"
BY Zenon DEF Chosen, Verdict, StateOf

LEMMA VerdictAuth ==
  ASSUME NEW s \in Bytes, Chosen(s), ~Verified(s)
  PROVE  /\ auth
         /\ Verdict(s) = PairVerdict(AfterMethod(s), AuthVer, 0, "auth")
         /\ StateOf(s) = "auth"
BY Zenon DEF Chosen, Verified, Verdict, StateOf

LEMMA VerdictReply ==
  ASSUME NEW s \in Bytes, Chosen(s), Verified(s)
  PROVE  /\ Verdict(s) = ReplyVerdict(AfterAuth(s))
         /\ ReplyVerdict(AfterAuth(s)) = "reply" => StateOf(s) = "done"
         /\ ReplyVerdict(AfterAuth(s)) # "reply" => StateOf(s) = "reply"
<1>1. CASE auth
  BY <1>1, Zenon DEF Chosen, Verified, Verdict, StateOf
<1>2. CASE ~auth
  BY <1>2, Zenon DEF Chosen, Verified, Verdict, StateOf
<1> QED BY <1>1, <1>2

\* A pair that has a verdict is two bytes.
LEMMA PairTwo ==
  ASSUME NEW s \in Bytes, NEW version, NEW wanted, NEW error,
         PairVerdict(s, version, wanted, error) # "need"
  PROVE  Len(s) >= 2
<1>1. Len(s) \in Nat
  BY DEF Bytes
<1>2. ~(Len(s) < 2)
  BY PairCases, Zenon
<1> QED BY <1>1, <1>2

\* A pair of bytes is no reply.
LEMMA NeverReply ==
  ASSUME NEW s \in Bytes, NEW version, NEW wanted,
         NEW error \in {"method", "auth", "other"}
  PROVE  PairVerdict(s, version, wanted, error) # "reply"
<1>1. Len(s) \in Nat
  BY DEF Bytes
<1>2. (Len(s) < 2) <=> ~(Len(s) >= 2)
  BY <1>1
<1>3. PairVerdict(s, version, wanted, error) \in {"need", "malformed", error, "go on"}
  BY <1>2, Zenon DEF PairVerdict
<1> QED BY <1>3

\* The phases of a stream that bytes follow.
LEMMA PhasesStable ==
  ASSUME NEW s \in Bytes, NEW t \in Bytes, Len(s) >= 2
  PROVE  /\ AfterMethod(s) \in Bytes /\ AfterAuth(s) \in Bytes
         /\ Len(AfterMethod(s)) = Len(s) - 2
         /\ AfterMethod(s \o t) = AfterMethod(s) \o t
         /\ auth => Drop(AfterMethod(s), 2) = AfterAuth(s)
         /\ ~auth => AfterMethod(s) = AfterAuth(s)
         /\ ~auth \/ Len(s) >= 4 => AfterAuth(s \o t) = AfterAuth(s) \o t
<1>1. Len(s) \in Nat
  BY DEF Bytes
<1>2. AfterMethod(s) \in Bytes /\ Len(AfterMethod(s)) = Len(s) - 2
  BY DropType DEF AfterMethod
<1>3. AfterMethod(s \o t) = AfterMethod(s) \o t
  BY <1>1, DropOfConcat DEF AfterMethod
<1>4. AfterAuth(s) \in Bytes
  BY DropType DEF AfterAuth
<1>5. auth => Drop(AfterMethod(s), 2) = AfterAuth(s)
  BY DropDrop DEF AfterMethod, AfterAuth
<1>6. ~auth => AfterMethod(s) = AfterAuth(s)
  BY DEF AfterMethod, AfterAuth
<1>7. ~auth \/ Len(s) >= 4 => AfterAuth(s \o t) = AfterAuth(s) \o t
  BY <1>1, DropOfConcat DEF AfterAuth
<1> QED BY <1>2, <1>3, <1>4, <1>5, <1>6, <1>7

\* What the proxy chose and accepted stays so.
LEMMA ChosenStable ==
  ASSUME NEW s \in Bytes, NEW t \in Bytes, Chosen(s)
  PROVE  Len(s) >= 2 /\ Chosen(s \o t)
<1>1. Len(s) >= 2
  <2>1. PairVerdict(s, Ver, method, "method") # "need"
    BY DEF Chosen
  <2> QED BY <2>1, PairTwo
<1>2. PairVerdict(s \o t, Ver, method, "method") = PairVerdict(s, Ver, method, "method")
  BY <1>1, PairStable
<1>3. Chosen(s \o t)
  BY <1>2, Zenon DEF Chosen
<1> QED BY <1>1, <1>3

LEMMA VerifiedStable ==
  ASSUME NEW s \in Bytes, NEW t \in Bytes, Chosen(s), Verified(s)
  PROVE  (auth => Len(s) >= 4) /\ Verified(s \o t)
<1>1. Len(s) >= 2 /\ Len(s) \in Nat
  BY ChosenStable DEF Bytes
<1>2. CASE auth
  <2>1. PairVerdict(AfterMethod(s), AuthVer, 0, "auth") = "go on"
    BY <1>2 DEF Verified
  <2>2. /\ AfterMethod(s) \in Bytes /\ Len(AfterMethod(s)) = Len(s) - 2
        /\ AfterMethod(s \o t) = AfterMethod(s) \o t
    BY <1>1, PhasesStable
  <2>3. PairVerdict(AfterMethod(s), AuthVer, 0, "auth") # "need"
    BY <2>1
  <2>4. Len(AfterMethod(s)) >= 2
    BY <2>2, <2>3, PairTwo
  <2>5. PairVerdict(AfterMethod(s) \o t, AuthVer, 0, "auth") = "go on"
    <3>1. PairVerdict(AfterMethod(s) \o t, AuthVer, 0, "auth")
            = PairVerdict(AfterMethod(s), AuthVer, 0, "auth")
      BY <2>2, <2>4, PairStable
    <3> QED BY <2>1, <3>1, Zenon
  <2>6. Verified(s \o t)
    BY <2>2, <2>5, Zenon DEF Verified
  <2> QED BY <1>1, <2>2, <2>4, <2>6
<1>3. CASE ~auth
  BY <1>3 DEF Verified
<1> QED BY <1>2, <1>3

\* A verdict is final, and so is where it left the session.
LEMMA VerdictStable ==
  ASSUME NEW s \in Bytes, NEW t \in Bytes, Verdict(s) # "need"
  PROVE  Verdict(s \o t) = Verdict(s) /\ StateOf(s \o t) = StateOf(s)
<1>1. s \o t \in Bytes
  BY ConcatType
<1>2. CASE ~Chosen(s)
  <2>1. Verdict(s) = PairVerdict(s, Ver, method, "method") /\ StateOf(s) = "method"
    BY <1>2, VerdictMethod
  <2>2. PairVerdict(s, Ver, method, "method") # "need"
    BY <2>1
  <2>3. PairVerdict(s \o t, Ver, method, "method") = PairVerdict(s, Ver, method, "method")
    <3>1. Len(s) >= 2
      BY <2>2, PairTwo
    <3> QED BY <3>1, PairStable
  <2>4. ~Chosen(s \o t)
    BY <1>2, <2>3, Zenon DEF Chosen
  <2>5. /\ Verdict(s \o t) = PairVerdict(s \o t, Ver, method, "method")
        /\ StateOf(s \o t) = "method"
    BY <1>1, <2>4, VerdictMethod
  <2> QED BY <2>1, <2>3, <2>5, Zenon
<1>3. CASE Chosen(s) /\ ~Verified(s)
  <2> DEFINE m == AfterMethod(s)
  <2>1. /\ auth /\ Verdict(s) = PairVerdict(m, AuthVer, 0, "auth")
        /\ StateOf(s) = "auth"
    BY <1>3, VerdictAuth
  <2>2. Len(s) >= 2 /\ Chosen(s \o t)
    BY <1>3, ChosenStable
  <2>3. m \in Bytes /\ AfterMethod(s \o t) = m \o t
    BY <2>2, PhasesStable
  <2> HIDE DEF m
  <2>4. PairVerdict(m, AuthVer, 0, "auth") # "need"
    BY <2>1
  <2>5. PairVerdict(m \o t, AuthVer, 0, "auth") = PairVerdict(m, AuthVer, 0, "auth")
    <3>1. Len(m) >= 2
      BY <2>3, <2>4, PairTwo
    <3> QED BY <2>3, <3>1, PairStable
  <2>6. ~Verified(s \o t)
    BY <1>3, <2>3, <2>5, Zenon DEF Verified, m
  <2>7. /\ Verdict(s \o t) = PairVerdict(m \o t, AuthVer, 0, "auth")
        /\ StateOf(s \o t) = "auth"
    BY <1>1, <2>2, <2>3, <2>6, VerdictAuth, Zenon
  <2> QED BY <2>1, <2>5, <2>7, Zenon
<1>4. CASE Chosen(s) /\ Verified(s)
  <2> DEFINE r == AfterAuth(s)
  <2>1. /\ Verdict(s) = ReplyVerdict(r)
        /\ ReplyVerdict(r) = "reply" => StateOf(s) = "done"
        /\ ReplyVerdict(r) # "reply" => StateOf(s) = "reply"
    BY <1>4, VerdictReply
  <2>2. /\ Len(s) >= 2 /\ Chosen(s \o t)
        /\ auth => Len(s) >= 4
        /\ Verified(s \o t)
    BY <1>4, ChosenStable, VerifiedStable
  <2>3. r \in Bytes /\ AfterAuth(s \o t) = r \o t
    BY <2>2, PhasesStable
  <2> HIDE DEF r
  <2>4. ReplyVerdict(r \o t) = ReplyVerdict(r)
    BY <2>1, <2>3, ReplyStable
  <2>5. /\ Verdict(s \o t) = ReplyVerdict(r \o t)
        /\ ReplyVerdict(r \o t) = "reply" => StateOf(s \o t) = "done"
        /\ ReplyVerdict(r \o t) # "reply" => StateOf(s \o t) = "reply"
    BY <1>1, <2>2, <2>3, VerdictReply, Zenon
  <2> QED BY <2>1, <2>4, <2>5, Zenon
<1> QED BY <1>2, <1>3, <1>4

-----------------------------------------------------------------------------
(* The session. *)

\* What a stream means does not change while auth does not.
LEMMA SameMeaning ==
  ASSUME auth' = auth
  PROVE  /\ method' = method
         /\ \A s : Chosen(s)' = Chosen(s) /\ Verified(s)' = Verified(s)
         /\ \A s : AfterMethod(s)' = AfterMethod(s) /\ AfterAuth(s)' = AfterAuth(s)
         /\ \A s : Verdict(s)' = Verdict(s) /\ StateOf(s)' = StateOf(s)
<1>1. method' = method
  BY DEF method
<1>2. \A s : AfterMethod(s)' = AfterMethod(s) /\ AfterAuth(s)' = AfterAuth(s)
  BY DEF AfterMethod, AfterAuth
<1>3. \A s : Chosen(s)' = Chosen(s) /\ Verified(s)' = Verified(s)
  BY <1>1, <1>2 DEF Chosen, Verified
<1>4. \A s : Verdict(s)' = Verdict(s)
  BY <1>1, <1>2 DEF Verdict
<1>5. \A s : StateOf(s)' = StateOf(s)
  BY <1>2, <1>3 DEF StateOf
<1> QED BY <1>1, <1>2, <1>3, <1>4, <1>5

\* Nothing deserves nothing.
LEMMA VerdictOfNothing == Verdict(<<>>) = "need"
<1>1. <<>> \in Bytes /\ Len(<<>>) < 2
  BY DEF Bytes
<1>2. PairVerdict(<<>>, Ver, method, "method") = "need"
  BY <1>1, PairCases, Zenon
<1>3. ~Chosen(<<>>)
  BY <1>2 DEF Chosen
<1> QED BY <1>1, <1>2, <1>3, VerdictMethod, Zenon

\* What Taken is, from what is left.
LEMMA TakenIs ==
  ASSUME NEW a \in Bytes, inflight \in Bytes, a \o inflight = stream
  PROVE  Taken = a
BY Before DEF Taken

\* What the bytes taken deserve, read off the buffer.
LEMMA Standing ==
  ASSUME SessionInv
  PROVE  /\ state = "method" =>
              LET chosen == PairVerdict(buf, Ver, method, "method")
              IN  /\ chosen # "go on" => Verdict(Taken) = chosen /\ StateOf(Taken) = "method"
                  /\ chosen = "go on" => Chosen(Taken) /\ StateOf(Taken) # "method"
         /\ state = "auth" =>
              LET login == PairVerdict(buf, AuthVer, 0, "auth")
              IN  /\ login # "go on" => Verdict(Taken) = login /\ StateOf(Taken) = "auth"
                  /\ login = "go on" => Verified(Taken) /\ StateOf(Taken) \notin {"method", "auth"}
         /\ state = "reply" =>
              /\ Verdict(Taken) = ReplyVerdict(buf)
              /\ ReplyVerdict(buf) = "reply" => StateOf(Taken) = "done"
              /\ ReplyVerdict(buf) # "reply" => StateOf(Taken) = "reply"
         /\ state = "done" => Verdict(Taken) = "reply" /\ StateOf(Taken) = "done"
<1>0. Taken \in Bytes /\ auth \in BOOLEAN
  BY DEF SessionInv, Position, TypeOK
<1>1. ASSUME state = "method"
      PROVE  LET chosen == PairVerdict(buf, Ver, method, "method")
             IN  /\ chosen # "go on" => Verdict(Taken) = chosen /\ StateOf(Taken) = "method"
                 /\ chosen = "go on" => Chosen(Taken) /\ StateOf(Taken) # "method"
  <2>1. buf = Taken
    BY <1>1 DEF SessionInv, Position
  <2>2. Chosen(Taken) <=> PairVerdict(buf, Ver, method, "method") = "go on"
    BY <2>1 DEF Chosen
  <2>3. ~Chosen(Taken) =>
          /\ Verdict(Taken) = PairVerdict(buf, Ver, method, "method")
          /\ StateOf(Taken) = "method"
    BY <1>0, <2>1, VerdictMethod
  <2>4. Chosen(Taken) => StateOf(Taken) # "method"
    BY DEF StateOf
  <2> QED BY <2>2, <2>3, <2>4
<1>2. ASSUME state = "auth"
      PROVE  LET login == PairVerdict(buf, AuthVer, 0, "auth")
             IN  /\ login # "go on" => Verdict(Taken) = login /\ StateOf(Taken) = "auth"
                 /\ login = "go on" => Verified(Taken) /\ StateOf(Taken) \notin {"method", "auth"}
  <2>1. auth /\ buf = AfterMethod(Taken) /\ Chosen(Taken)
    BY <1>2 DEF SessionInv, Position
  <2>2. Verified(Taken) <=> PairVerdict(buf, AuthVer, 0, "auth") = "go on"
    BY <2>1, Zenon DEF Verified
  <2>3. ~Verified(Taken) =>
          /\ Verdict(Taken) = PairVerdict(buf, AuthVer, 0, "auth")
          /\ StateOf(Taken) = "auth"
    BY <1>0, <2>1, VerdictAuth
  <2>4. Verified(Taken) => StateOf(Taken) \notin {"method", "auth"}
    BY <2>1 DEF StateOf
  <2> QED BY <2>2, <2>3, <2>4
<1>3. ASSUME state \in {"reply", "done"}
      PROVE  Chosen(Taken) /\ Verified(Taken)
  BY <1>3 DEF SessionInv, Position
<1>4. ASSUME state = "reply"
      PROVE  /\ Verdict(Taken) = ReplyVerdict(buf)
             /\ ReplyVerdict(buf) = "reply" => StateOf(Taken) = "done"
             /\ ReplyVerdict(buf) # "reply" => StateOf(Taken) = "reply"
  <2>1. buf = AfterAuth(Taken) /\ Chosen(Taken) /\ Verified(Taken)
    BY <1>3, <1>4 DEF SessionInv, Position
  <2> QED BY <1>0, <2>1, VerdictReply
<1>5. ASSUME state = "done"
      PROVE  Verdict(Taken) = "reply" /\ StateOf(Taken) = "done"
  <2>1. ReplyVerdict(AfterAuth(Taken)) = "reply" /\ Chosen(Taken) /\ Verified(Taken)
    BY <1>3, <1>5 DEF SessionInv, Position
  <2> QED BY <1>0, <2>1, VerdictReply
<1> QED BY <1>1, <1>2, <1>4, <1>5

\* A turn that ends the call and consumes nothing.
LEMMA LeaveKeeps ==
  ASSUME SessionInv, NEW r \in Results, Leave(r),
         r = Verdict(Taken), r # "need" => state = StateOf(Taken)
  PROVE  SessionInv'
<1> USE DEF Leave, Finish
<1>1. Taken' = Taken
  BY DEF Taken
<1>2. TypeOK'
  BY DEF SessionInv, Position, TypeOK
<1>3. Settled'
  BY <1>1, SameMeaning DEF Settled
<1>4. Position'
  BY <1>1, <1>2, SameMeaning DEF SessionInv, Position
<1> QED BY <1>3, <1>4 DEF SessionInv

\* The turns that wait for a message, or raise on one: the call ends with what the
\* bytes taken deserve.
LEMMA MethodLeaves ==
  ASSUME SessionInv, MethodShort \/ MethodMalformed \/ MethodOther
  PROVE  SessionInv'
<1> DEFINE chosen == PairVerdict(buf, Ver, method, "method")
<1>1. buf \in Bytes /\ Len(buf) \in Nat /\ state = "method"
  BY DEF SessionInv, Position, TypeOK, Bytes, MethodShort, MethodMalformed, MethodOther, In
<1>2. chosen # "go on" => Verdict(Taken) = chosen /\ StateOf(Taken) = "method"
  BY <1>1, Standing
<1> HIDE DEF chosen
<1>3. CASE MethodShort
  <2>1. chosen = "need"
    BY <1>1, <1>3, PairCases DEF MethodShort, chosen
  <2>2. Leave("need") /\ "need" \in Results
    BY <1>3 DEF MethodShort, Results
  <2> QED BY <1>1, <1>2, <2>1, <2>2, LeaveKeeps
<1>4. CASE MethodMalformed
  <2>1. chosen = "malformed"
    BY <1>1, <1>4, PairCases DEF MethodMalformed, HasMethodSelection, chosen
  <2>2. Leave("malformed") /\ "malformed" \in Results
    BY <1>4 DEF MethodMalformed, Results
  <2> QED BY <1>1, <1>2, <2>1, <2>2, LeaveKeeps
<1>5. CASE MethodOther
  <2>1. chosen = "method"
    <3>1. Len(buf) >= 2 /\ buf[1] = Ver /\ buf[2] # method
      BY <1>5 DEF MethodOther, HasMethodSelection, parse_method_selection
    <3>2. ~(Len(buf) < 2)
      BY <1>1, <3>1
    <3> QED BY <3>1, <3>2, Zenon DEF chosen, PairVerdict
  <2>2. Leave("method") /\ "method" \in Results
    BY <1>5 DEF MethodOther, Results
  <2> QED BY <1>1, <1>2, <2>1, <2>2, LeaveKeeps
<1> QED BY <1>3, <1>4, <1>5

LEMMA AuthLeaves ==
  ASSUME SessionInv, AuthShort \/ AuthMalformed \/ AuthRefused
  PROVE  SessionInv'
<1> DEFINE login == PairVerdict(buf, AuthVer, 0, "auth")
<1>1. buf \in Bytes /\ Len(buf) \in Nat /\ state = "auth"
  BY DEF SessionInv, Position, TypeOK, Bytes, AuthShort, AuthMalformed, AuthRefused, In
<1>2. login # "go on" => Verdict(Taken) = login /\ StateOf(Taken) = "auth"
  BY <1>1, Standing
<1> HIDE DEF login
<1>3. CASE AuthShort
  <2>1. login = "need"
    BY <1>1, <1>3, PairCases DEF AuthShort, login
  <2>2. Leave("need") /\ "need" \in Results
    BY <1>3 DEF AuthShort, Results
  <2> QED BY <1>1, <1>2, <2>1, <2>2, LeaveKeeps
<1>4. CASE AuthMalformed
  <2>1. login = "malformed"
    BY <1>1, <1>4, PairCases DEF AuthMalformed, HasAuthReply, login
  <2>2. Leave("malformed") /\ "malformed" \in Results
    BY <1>4 DEF AuthMalformed, Results
  <2> QED BY <1>1, <1>2, <2>1, <2>2, LeaveKeeps
<1>5. CASE AuthRefused
  <2>1. login = "auth"
    <3>1. Len(buf) >= 2 /\ buf[1] = AuthVer /\ buf[2] # 0
      BY <1>5 DEF AuthRefused, HasAuthReply, parse_auth_reply
    <3>2. ~(Len(buf) < 2)
      BY <1>1, <3>1
    <3> QED BY <3>1, <3>2, Zenon DEF login, PairVerdict
  <2>2. Leave("auth") /\ "auth" \in Results
    BY <1>5 DEF AuthRefused, Results
  <2> QED BY <1>1, <1>2, <2>1, <2>2, LeaveKeeps
<1> QED BY <1>3, <1>4, <1>5

LEMMA ReplyLeaves ==
  ASSUME SessionInv,
         ReplyUnknownAtyp \/ ReplyShort \/ ReplyMalformed \/ ReplyUndecodable
  PROVE  SessionInv'
<1>1. buf \in Bytes /\ Len(buf) \in Nat /\ state = "reply"
  BY DEF SessionInv, Position, TypeOK, Bytes, In, ReplyUnknownAtyp, ReplyShort,
         ReplyMalformed, ReplyUndecodable
<1>2. /\ Verdict(Taken) = ReplyVerdict(buf)
      /\ ReplyVerdict(buf) # "reply" => StateOf(Taken) = "reply"
  BY <1>1, Standing
<1>3. CASE ReplyUnknownAtyp
  <2>1. ReplyVerdict(buf) = "atyp"
    BY <1>1, <1>3, ReplyCases DEF ReplyUnknownAtyp
  <2>2. Leave("atyp") /\ "atyp" \in Results
    BY <1>3 DEF ReplyUnknownAtyp, Results
  <2> QED BY <1>1, <1>2, <2>1, <2>2, LeaveKeeps
<1>4. CASE ReplyShort
  <2>1. ReplyVerdict(buf) = "need"
    BY <1>1, <1>4, ReplyCases DEF ReplyShort
  <2>2. Leave("need") /\ "need" \in Results
    BY <1>4 DEF ReplyShort, Results
  <2> QED BY <1>1, <1>2, <2>1, <2>2, LeaveKeeps
<1>5. CASE ReplyMalformed
  <2>1. Arrived(buf) /\ buf[1] # Ver
    BY <1>1, <1>5, SizedReply DEF ReplyMalformed
  <2>2. ReplyVerdict(buf) = "malformed"
    BY <1>1, <2>1, ReplyCases
  <2>3. Leave("malformed") /\ "malformed" \in Results
    BY <1>5 DEF ReplyMalformed, Results
  <2> QED BY <1>1, <1>2, <2>2, <2>3, LeaveKeeps
<1>6. CASE ReplyUndecodable
  <2>1. Arrived(buf) /\ buf[1] = Ver /\ AddressRaises(buf, 4)
    BY <1>1, <1>6, SizedReply DEF ReplyUndecodable
  <2>2. ReplyVerdict(buf) = "undecodable"
    BY <1>1, <2>1, ReplyCases
  <2>3. Leave("undecodable") /\ "undecodable" \in Results
    BY <1>6 DEF ReplyUndecodable, Results
  <2> QED BY <1>1, <1>2, <2>2, <2>3, LeaveKeeps
<1> QED BY <1>3, <1>4, <1>5, <1>6

LEMMA DoneLeaves ==
  ASSUME SessionInv, Done
  PROVE  SessionInv'
<1>1. state = "done" /\ Leave("reply") /\ "reply" \in Results
  BY DEF Done, In, Results
<1>2. Verdict(Taken) = "reply" /\ StateOf(Taken) = "done"
  BY <1>1, Standing
<1> QED BY <1>1, <1>2, LeaveKeeps

\* While the loop goes on, there was no verdict before.
LEMMA NoVerdictYet ==
  ASSUME SessionInv, StateOf(Taken) # state
  PROVE  result = "need"
BY DEF SessionInv, Settled

LEMMA MethodChosenKeeps ==
  ASSUME SessionInv, MethodChosen
  PROVE  SessionInv'
<1> DEFINE next == IF auth THEN "auth" ELSE "reply"
<1>0. In("method") /\ Advance(2, next)
  BY DEF MethodChosen
<1>1. /\ buf \in Bytes /\ state = "method" /\ buf = Taken /\ TypeOK
      /\ Taken \o inflight = stream /\ feeding /\ auth \in BOOLEAN
  BY <1>0 DEF In, SessionInv, Position, TypeOK
<1>2. PairVerdict(buf, Ver, method, "method") = "go on"
  <2>1. Len(buf) >= 2 /\ buf[1] = Ver /\ buf[2] = method
    BY DEF MethodChosen, HasMethodSelection, parse_method_selection
  <2>2. ~(Len(buf) < 2)
    BY <1>1, <2>1 DEF Bytes
  <2> QED BY <2>1, <2>2, Zenon DEF PairVerdict
<1>3. Chosen(Taken) /\ StateOf(Taken) # "method"
  BY <1>1, <1>2, Standing
<1>4. result = "need"
  BY <1>1, <1>3, NoVerdictYet
<1>5. /\ buf' = Drop(buf, 2) /\ state' = next /\ auth' = auth
      /\ UNCHANGED <<stream, inflight, reply_, feeding, result>>
  BY <1>0 DEF Advance
<1>6. Taken' = Taken
  BY <1>5 DEF Taken
<1>7. TypeOK'
  <2>1. Drop(buf, 2) \in Bytes
    BY <1>1, DropType
  <2>2. state' \in {"method", "auth", "reply", "done"} /\ state' # "done"
    BY <1>5
  <2>3. reply_ = None
    BY <1>1 DEF TypeOK
  <2> QED BY <1>1, <1>5, <2>1, <2>2, <2>3 DEF TypeOK
<1>8. Settled'
  BY <1>1, <1>4, <1>5 DEF Settled
<1>9. Position'
  <2>1. CASE auth
    <3>1. state' = "auth" /\ buf' = AfterMethod(Taken)
      BY <1>1, <1>5, <2>1 DEF AfterMethod
    <3> QED BY <1>1, <1>3, <1>5, <1>6, <1>7, <2>1, <3>1, SameMeaning
            DEF Position, SessionInv
  <2>2. CASE ~auth
    <3>1. state' = "reply" /\ buf' = AfterAuth(Taken) /\ Verified(Taken)
      BY <1>1, <1>5, <2>2 DEF AfterAuth, Verified
    <3> QED BY <1>1, <1>3, <1>5, <1>6, <1>7, <2>2, <3>1, SameMeaning
            DEF Position, SessionInv
  <2> QED BY <2>1, <2>2
<1> QED BY <1>8, <1>9 DEF SessionInv

LEMMA AuthAcceptedKeeps ==
  ASSUME SessionInv, AuthAccepted
  PROVE  SessionInv'
<1>0. In("auth") /\ Advance(2, "reply")
  BY DEF AuthAccepted
<1>1. /\ buf \in Bytes /\ state = "auth" /\ TypeOK /\ Taken \in Bytes
      /\ auth /\ buf = AfterMethod(Taken) /\ Chosen(Taken)
      /\ Taken \o inflight = stream /\ feeding
  BY <1>0 DEF In, SessionInv, Position, TypeOK
<1>2. PairVerdict(buf, AuthVer, 0, "auth") = "go on"
  <2>1. Len(buf) >= 2 /\ buf[1] = AuthVer /\ buf[2] = 0
    BY DEF AuthAccepted, HasAuthReply, parse_auth_reply
  <2>2. ~(Len(buf) < 2)
    BY <1>1, <2>1 DEF Bytes
  <2> QED BY <2>1, <2>2, Zenon DEF PairVerdict
<1>3. Verified(Taken) /\ StateOf(Taken) # "auth"
  BY <1>1, <1>2, Standing
<1>4. result = "need"
  BY <1>1, <1>3, NoVerdictYet
<1>5. /\ buf' = Drop(buf, 2) /\ state' = "reply" /\ auth' = auth
      /\ UNCHANGED <<stream, inflight, reply_, feeding, result>>
  BY <1>0 DEF Advance
<1>6. Taken' = Taken
  BY <1>5 DEF Taken
<1>7. buf' = AfterAuth(Taken)
  <2>1. Len(Taken) >= 2
    BY <1>1, ChosenStable
  <2> QED BY <1>1, <1>5, <2>1, PhasesStable
<1>8. TypeOK'
  <2>1. Drop(buf, 2) \in Bytes
    BY <1>1, DropType
  <2>2. reply_ = None
    BY <1>1 DEF TypeOK
  <2> QED BY <1>1, <1>5, <2>1, <2>2 DEF TypeOK
<1>9. Settled'
  BY <1>1, <1>4, <1>5 DEF Settled
<1>10. Position'
  BY <1>1, <1>3, <1>5, <1>6, <1>7, <1>8, SameMeaning DEF Position
<1> QED BY <1>9, <1>10 DEF SessionInv

LEMMA ReplyParsedKeeps ==
  ASSUME SessionInv, ReplyParsed
  PROVE  SessionInv'
<1>1. /\ buf \in Bytes /\ state = "reply" /\ TypeOK /\ Taken \in Bytes
      /\ buf = AfterAuth(Taken) /\ Chosen(Taken) /\ Verified(Taken)
      /\ Taken \o inflight = stream /\ feeding
  BY DEF ReplyParsed, In, SessionInv, Position, TypeOK
<1>2. Arrived(buf) /\ buf[1] = Ver /\ ~AddressRaises(buf, 4)
  BY <1>1, SizedReply DEF ReplyParsed
<1>3. ReplyVerdict(buf) = "reply"
  BY <1>1, <1>2, ReplyCases
<1>4. Verdict(Taken) = "reply" /\ StateOf(Taken) = "done"
  BY <1>1, <1>3, Standing
<1>5. /\ buf' = Drop(buf, Size(buf)) /\ state' = "done" /\ reply_' = parse_reply(buf)
      /\ feeding' = FALSE /\ result' = "reply" /\ auth' = auth
      /\ UNCHANGED <<stream, inflight>>
  BY <1>1, <1>2, SizedReply DEF ReplyParsed, Finish
<1>6. Taken' = Taken
  BY <1>5 DEF Taken
<1>7. TypeOK'
  <2>1. Drop(buf, Size(buf)) \in Bytes
    BY <1>1, <1>2, ArrivedFacts, DropType
  <2>2. parse_reply(buf) \in Reply
    BY <1>1, <1>2, SizedReply
  <2>3. reply_' # None
    BY <1>5, <2>2, ClientAssumption DEF Reply
  <2>4. "reply" \in Results
    BY DEF Results
  <2> QED BY <1>1, <1>5, <2>1, <2>2, <2>3, <2>4 DEF TypeOK
<1>8. Settled'
  BY <1>4, <1>5, <1>6, SameMeaning DEF Settled
<1>9. Position'
  BY <1>1, <1>2, <1>3, <1>5, <1>6, <1>7, SameMeaning DEF Position
<1> QED BY <1>8, <1>9 DEF SessionInv

\* Every turn of the loop.
LEMMA TurnKeeps ==
  ASSUME SessionInv, Turn
  PROVE  SessionInv'
BY MethodLeaves, MethodChosenKeeps, AuthLeaves, AuthAcceptedKeeps, ReplyLeaves,
   ReplyParsedKeeps, DoneLeaves
   DEF Turn

\* The append: what was a prefix of the stream is a longer one.
LEMMA FeedKeeps ==
  ASSUME SessionInv, NEW n \in 0 .. Len(inflight), feed(n)
  PROVE  SessionInv'
<1> DEFINE data == SubSeq(inflight, 1, n)
<1>1. /\ TypeOK /\ Taken \in Bytes /\ Taken \o inflight = stream
      /\ inflight \in Bytes /\ buf \in Bytes /\ stream \in Bytes
  BY DEF SessionInv, Position, TypeOK
<1>2. auth' = auth /\ feeding' = TRUE /\ UNCHANGED <<stream, state, reply_, result>>
  BY DEF feed
<1>3. CASE state = "done"
  <2>1. UNCHANGED <<buf, inflight>>
    BY <1>3 DEF feed
  <2>2. Taken' = Taken
    BY <1>2, <2>1 DEF Taken
  <2>3. TypeOK'
    BY <1>1, <1>2, <2>1 DEF TypeOK
  <2>4. Settled'
    BY <1>2, <2>2, SameMeaning DEF Settled, SessionInv
  <2>5. Position'
    BY <1>2, <2>1, <2>2, <2>3, SameMeaning DEF SessionInv, Position
  <2> QED BY <2>4, <2>5 DEF SessionInv
<1>4. CASE state # "done"
  <2>1. buf' = buf \o data /\ inflight' = Drop(inflight, n)
    BY <1>4 DEF feed
  <2>2. /\ data \in Bytes /\ Drop(inflight, n) \in Bytes
        /\ data \o Drop(inflight, n) = inflight
    <3>1. n \in Nat /\ Len(inflight) \in Nat
      BY <1>1 DEF Bytes
    <3> QED BY <1>1, <3>1, TakeAndDrop, DropType
  <2> HIDE DEF data
  <2>3. Taken \o data \in Bytes /\ (Taken \o data) \o inflight' = stream /\ buf' \in Bytes
    <3>1. Taken \o data \in Bytes /\ buf' \in Bytes
      BY <1>1, <2>1, <2>2, ConcatType
    <3>2. (Taken \o data) \o Drop(inflight, n) = Taken \o (data \o Drop(inflight, n))
      <4>1. Regroups(Taken, data, Drop(inflight, n))
        BY <1>1, <2>2, BytesRegroup
      <4> QED
        BY <4>1, Zenon DEF Regroups
    <3>3. (Taken \o data) \o inflight' = stream
      BY <1>1, <2>1, <2>2, <3>2, Zenon
    <3> QED BY <3>1, <3>3
  <2>4. Taken' = Taken \o data
    <3>1. SubSeq(stream, 1, Len(stream) - Len(inflight')) = Taken \o data
      BY <2>1, <2>2, <2>3, Before
    <3> QED BY <1>2, <3>1 DEF Taken
  <2>5. TypeOK'
    BY <1>1, <1>2, <2>1, <2>2, <2>3 DEF TypeOK
  <2>6. Settled'
    <3>1. result # "need" => Verdict(Taken) # "need"
      BY DEF SessionInv, Settled
    <3>2. result # "need" =>
            /\ Verdict(Taken \o data) = Verdict(Taken)
            /\ StateOf(Taken \o data) = StateOf(Taken)
      BY <1>1, <2>2, <3>1, VerdictStable
    <3> QED BY <1>2, <2>4, <3>2, SameMeaning DEF SessionInv, Settled
  <2>7. state # "method" => Len(Taken) >= 2 /\ Chosen(Taken \o data)
    BY <1>1, <2>2, ChosenStable DEF SessionInv, Position
  <2>8. state = "reply" => (auth => Len(Taken) >= 4) /\ Verified(Taken \o data)
    BY <1>1, <2>2, VerifiedStable DEF SessionInv, Position
  <2>9. state = "method" => buf' = Taken \o data
    BY <2>1 DEF SessionInv, Position
  <2>10. ASSUME state \in {"auth", "reply"}
         PROVE  /\ AfterMethod(Taken \o data) = AfterMethod(Taken) \o data
                /\ ~auth \/ Len(Taken) >= 4 =>
                     AfterAuth(Taken \o data) = AfterAuth(Taken) \o data
    BY <1>1, <2>2, <2>7, <2>10, PhasesStable
  <2>11. /\ state = "auth" => auth /\ buf' = AfterMethod(Taken \o data)
         /\ state = "reply" => buf' = AfterAuth(Taken \o data)
    <3>1. /\ state = "auth" => auth /\ buf = AfterMethod(Taken)
          /\ state = "reply" => buf = AfterAuth(Taken)
      BY DEF SessionInv, Position
    <3> QED BY <2>1, <2>8, <2>10, <3>1
  <2>12. Position'
    <3>1. /\ \A s : Chosen(s)' = Chosen(s) /\ Verified(s)' = Verified(s)
          /\ \A s : AfterMethod(s)' = AfterMethod(s) /\ AfterAuth(s)' = AfterAuth(s)
          /\ auth' = auth /\ state' = state
      BY <1>2, SameMeaning
    <3>2. /\ state' = "auth" => auth' /\ buf' = AfterMethod(Taken')
          /\ state' = "reply" => buf' = AfterAuth(Taken')
      BY <2>4, <2>11, <3>1, Zenon
    <3>3. /\ state' = "method" => buf' = Taken'
          /\ state' # "method" => Chosen(Taken')
          /\ state' \in {"reply", "done"} => Verified(Taken')
      BY <1>4, <2>4, <2>7, <2>8, <2>9, <3>1
    <3>4. Taken' \in Bytes /\ Taken' \o inflight' = stream'
      BY <1>2, <2>3, <2>4
    <3>5. TypeOK' /\ state' # "done"
      BY <1>4, <2>5, <3>1
    <3> HIDE DEF feed
    <3> QED
      BY <3>1, <3>2, <3>3, <3>4, <3>5, Zenon DEF Position
  <2> QED BY <2>6, <2>12 DEF SessionInv
<1> QED BY <1>3, <1>4

LEMMA SessionInit == Init => SessionInv
<1> SUFFICES ASSUME Init PROVE SessionInv
  OBVIOUS
<1>1. stream \in Bytes /\ inflight = stream /\ <<>> \in Bytes /\ <<>> \o inflight = stream
  BY ClientAssumption, ConcatEmptySeq DEF Init, Bytes
<1>2. Taken = <<>>
  BY <1>1, TakenIs
<1>3. TypeOK
  <2>1. "need" \in Results
    BY DEF Results
  <2> QED BY <1>1, <2>1 DEF Init, TypeOK
<1>4. Position
  BY <1>1, <1>2, <1>3 DEF Init, Position
<1>5. Settled
  BY <1>2, VerdictOfNothing DEF Init, Settled
<1> QED BY <1>4, <1>5 DEF SessionInv

\* Only the part of a stream behind the reply can change what was left unread.
LEMMA HandsOver ==
  ASSUME SessionInv, state = "done"
  PROVE  /\ buf \o inflight = Drop(AfterAuth(stream), Size(AfterAuth(stream)))
         /\ reply_ = parse_reply(AfterAuth(stream))
         /\ Verdict(stream) = "reply"
<1> DEFINE r == AfterAuth(Taken)
<1>1. /\ Taken \in Bytes /\ inflight \in Bytes /\ Taken \o inflight = stream
      /\ Chosen(Taken) /\ Verified(Taken)
      /\ Arrived(r) /\ buf = Drop(r, Size(r)) /\ reply_ = parse_reply(r)
  BY DEF SessionInv, Position, TypeOK
<1>2. Len(Taken) >= 2 /\ (auth => Len(Taken) >= 4)
  BY <1>1, ChosenStable, VerifiedStable
<1>3. r \in Bytes /\ AfterAuth(Taken \o inflight) = r \o inflight
  BY <1>1, <1>2, PhasesStable
<1>4. AfterAuth(stream) = r \o inflight
  BY <1>1, <1>3
<1> HIDE DEF r
<1>5. Size(r) \in 0 .. Len(r)
  <2>1. Size(r) \in Nat /\ Size(r) <= Len(r) /\ Len(r) \in Nat
    BY <1>1, <1>3, ArrivedFacts DEF Bytes
  <2> QED BY <2>1
<1>6. Drop(r, Size(r)) \o inflight = Drop(r \o inflight, Size(r))
  BY <1>1, <1>3, <1>5, DropOfConcat
<1>7. Size(r \o inflight) = Size(r) /\ parse_reply(r \o inflight) = parse_reply(r)
  BY <1>1, <1>3, ArrivedStable
<1>8. Verdict(stream) = "reply"
  <2>1. Verdict(Taken) = "reply"
    BY Standing
  <2>2. Verdict(Taken) # "need"
    BY <2>1
  <2> QED BY <1>1, <2>1, <2>2, VerdictStable
<1> QED BY <1>1, <1>4, <1>6, <1>7, <1>8

LEMMA SessionNext == SessionInv /\ [Next]_vars => SessionInv'
<1> SUFFICES ASSUME SessionInv, [Next]_vars PROVE SessionInv'
  OBVIOUS
<1>1. CASE \E n \in 0 .. Len(inflight) : feed(n)
  BY <1>1, FeedKeeps
<1>2. CASE Turn
  BY <1>2, TurnKeeps
<1>3. CASE UNCHANGED vars
  <2>1. Taken' = Taken /\ auth' = auth
    BY <1>3 DEF vars, Taken
  <2>2. TypeOK'
    BY <1>3 DEF vars, TypeOK, SessionInv, Position
  <2>3. Position' /\ Settled'
    BY <1>3, <2>1, <2>2, SameMeaning DEF vars, SessionInv, Position, Settled
  <2> QED BY <2>3 DEF SessionInv
<1> QED BY <1>1, <1>2, <1>3 DEF Next

\* Every field of the session keeps its values, and a reply is held in state "done"
\* and in no other.
THEOREM SessionTypes == Spec => []TypeOK
<1>1. Init => SessionInv
  BY SessionInit
<1>2. SessionInv /\ [Next]_vars => SessionInv'
  BY SessionNext
<1>3. SessionInv => TypeOK
  BY DEF SessionInv, Position
<1> QED BY <1>1, <1>2, <1>3, PTL DEF Spec

\* feed() answers the bytes it was given in all, however they were cut.
THEOREM AnySegmentation == Spec => []SegmentationIndependent
<1>1. Init => SessionInv
  BY SessionInit
<1>2. SessionInv /\ [Next]_vars => SessionInv'
  BY SessionNext
<1>3. SessionInv => SegmentationIndependent
  BY DEF SessionInv, Settled, SegmentationIndependent
<1> QED BY <1>1, <1>2, <1>3, PTL DEF Spec

\* The leftover and what was not read are the stream behind the reply.
THEOREM NothingLost == Spec => []TunnelIntact
<1>1. Init => SessionInv
  BY SessionInit
<1>2. SessionInv /\ [Next]_vars => SessionInv'
  BY SessionNext
<1>3. SessionInv => TunnelIntact
  BY HandsOver DEF TunnelIntact
<1> QED BY <1>1, <1>2, <1>3, PTL DEF Spec

\* A turn that ends a call after a verdict ends it with that verdict.
LEMMA VerdictStays ==
  ASSUME SessionInv, result # "need", Turn
  PROVE  result' = result /\ UNCHANGED <<state, reply_>>
<1>1. SessionInv'
  BY TurnKeeps
<1>2. result = Verdict(Taken) /\ state = StateOf(Taken)
  BY DEF SessionInv, Settled
<1>3. ~MethodChosen
  <2>1. SUFFICES ASSUME MethodChosen PROVE FALSE
    OBVIOUS
  <2>2. /\ state = "method" /\ buf \in Bytes
        /\ Len(buf) >= 2 /\ buf[1] = Ver /\ buf[2] = method
    BY <2>1 DEF MethodChosen, In, HasMethodSelection, parse_method_selection,
                SessionInv, Position, TypeOK
  <2>3. ~(Len(buf) < 2)
    BY <2>2 DEF Bytes
  <2>4. PairVerdict(buf, Ver, method, "method") = "go on"
    BY <2>2, <2>3, Zenon DEF PairVerdict
  <2> QED BY <1>2, <2>2, <2>4, Standing
<1>4. ~AuthAccepted
  <2>1. SUFFICES ASSUME AuthAccepted PROVE FALSE
    OBVIOUS
  <2>2. /\ state = "auth" /\ buf \in Bytes
        /\ Len(buf) >= 2 /\ buf[1] = AuthVer /\ buf[2] = 0
    BY <2>1 DEF AuthAccepted, In, HasAuthReply, parse_auth_reply,
                SessionInv, Position, TypeOK
  <2>3. ~(Len(buf) < 2)
    BY <2>2 DEF Bytes
  <2>4. PairVerdict(buf, AuthVer, 0, "auth") = "go on"
    BY <2>2, <2>3, Zenon DEF PairVerdict
  <2> QED BY <1>2, <2>2, <2>4, Standing
<1>5. ~ReplyParsed
  <2>1. SUFFICES ASSUME ReplyParsed PROVE FALSE
    OBVIOUS
  <2>2. state = "reply" /\ buf \in Bytes /\ Arrived(buf) /\ ~AddressRaises(buf, 4)
    BY <2>1 DEF ReplyParsed, In, SessionInv, Position, TypeOK
  <2>3. buf[1] = Ver
    BY <2>1, <2>2, SizedReply DEF ReplyParsed
  <2>4. ReplyVerdict(buf) = "reply"
    BY <2>2, <2>3, ReplyCases
  <2> QED BY <1>2, <2>2, <2>4, Standing
<1>6. /\ auth' = auth /\ Taken' = Taken
      /\ feeding' = FALSE /\ UNCHANGED <<state, reply_>>
  <2> USE DEF Leave, Finish
  <2>1. /\ feeding' = FALSE
        /\ UNCHANGED <<stream, inflight, auth, state, reply_>>
    <3>1. CASE MethodShort \/ MethodMalformed \/ MethodOther
      BY <3>1 DEF MethodShort, MethodMalformed, MethodOther
    <3>2. CASE AuthShort \/ AuthMalformed \/ AuthRefused
      BY <3>2 DEF AuthShort, AuthMalformed, AuthRefused
    <3>3. CASE ReplyUnknownAtyp \/ ReplyShort \/ ReplyMalformed \/ ReplyUndecodable
      BY <3>3 DEF ReplyUnknownAtyp, ReplyShort, ReplyMalformed, ReplyUndecodable
    <3>4. CASE Done
      BY <3>4 DEF Done
    <3> QED BY <1>3, <1>4, <1>5, <3>1, <3>2, <3>3, <3>4 DEF Turn
  <2> QED BY <2>1 DEF Taken
<1>7. result' = Verdict(Taken)
  BY <1>1, <1>6, SameMeaning DEF SessionInv, Settled
<1> QED BY <1>2, <1>6, <1>7

\* An error is raised again by every later call, a reply is returned again.
THEOREM FinalVerdict == Spec => VerdictIsFinal
<1>1. Init => SessionInv
  BY SessionInit
<1>2. SessionInv /\ [Next]_vars => SessionInv'
  BY SessionNext
<1>3. SessionInv /\ [Next]_vars =>
        [result # "need" => result' = result /\ UNCHANGED <<state, reply_>>]_vars
  <2> SUFFICES ASSUME SessionInv, [Next]_vars, result # "need"
               PROVE  result' = result /\ UNCHANGED <<state, reply_>>
    OBVIOUS
  <2>1. CASE \E n \in 0 .. Len(inflight) : feed(n)
    BY <2>1 DEF feed
  <2>2. CASE Turn
    BY <2>2, VerdictStays
  <2>3. CASE UNCHANGED vars
    BY <2>3 DEF vars
  <2> QED BY <2>1, <2>2, <2>3 DEF Next
<1> QED BY <1>1, <1>2, <1>3, PTL DEF Spec, VerdictIsFinal

-----------------------------------------------------------------------------
(* The clients. *)

\* What the clients send are byte strings.
LEMMA MessageTypes ==
  ASSUME auth \in BOOLEAN
  PROVE  /\ client_greeting(Offered) \in Bytes
         /\ Login \in Bytes
         /\ Ask \in Bytes
         /\ optimistic_pipeline \in Bytes
<1>1. /\ MaxByte \in Nat /\ MaxByte >= 15
      /\ 0 \in Byte /\ 1 \in Byte /\ 2 \in Byte /\ 5 \in Byte
  BY CodecAssumption DEF Byte
<1>2. client_greeting(Offered) \in Bytes
  BY <1>1 DEF client_greeting, Offered, Method, Ver, Bytes
<1>3. Login \in Bytes
  <2> DEFINE u == Credentials.user
             p == Credentials.pass
  <2>1. u \in Bytes /\ p \in Bytes /\ Len(u) \in Byte /\ Len(p) \in Byte
    BY <1>1, ConnectAssumption DEF Byte, Bytes
  <2> HIDE DEF u, p
  <2>2. <<AuthVer, Len(u)>> \in Bytes /\ <<Len(p)>> \in Bytes
    BY <1>1, <2>1 DEF Bytes, AuthVer
  <2>3. userpass_auth(u, p) \in Bytes
    BY <2>1, <2>2, ConcatType DEF userpass_auth
  <2> QED BY <2>3 DEF Login, u, p
<1>4. Ask \in Bytes
  <2>1. encode_address(Destination) \in Bytes
    BY ConnectAssumption, EncodeAddressType
  <2>2. <<Ver, Cmd.CONNECT, 0>> \in Bytes
    BY <1>1 DEF Bytes, Ver, Cmd
  <2> QED BY <2>1, <2>2, ConcatType DEF Ask, request
<1>5. optimistic_pipeline \in Bytes
  <2>1. client_greeting(<<method>>) \in Bytes
    BY <1>1 DEF client_greeting, method, Method, Ver, Bytes
  <2>2. (IF auth THEN Login ELSE <<>>) \in Bytes
    BY <1>3 DEF Bytes
  <2> QED BY <1>4, <2>1, <2>2, ConcatType DEF optimistic_pipeline
<1> QED BY <1>2, <1>3, <1>4, <1>5

\* What is behind a message that has been read.
LEMMA Behind ==
  ASSUME NEW a \in Bytes, NEW b \in Bytes, NEW s, a \o b = s
  PROVE  Drop(s, Len(a)) = b
<1>1. Len(a) \in 0 .. Len(a)
  BY DEF Bytes
<1>2. Drop(a \o b, Len(a)) = Drop(a, Len(a)) \o b
  BY <1>1, DropOfConcat
<1>3. Drop(a, Len(a)) = <<>>
  <2>1. Drop(a, Len(a)) \in Bytes /\ Len(Drop(a, Len(a))) = 0
    BY <1>1, DropType
  <2> QED BY <2>1, EmptySeq DEF Bytes
<1>4. <<>> \o b = b
  BY ConcatEmptySeq DEF Bytes
<1> QED BY <1>2, <1>3, <1>4

\* What a proxy's bytes deserve is theirs and the object's.
LEMMA SameDeserved ==
  ASSUME UNCHANGED <<stream, auth, staged>>
  PROVE  ReplyPart' = ReplyPart /\ Deserved' = Deserved
<1>1. ReplyPart' = ReplyPart
  BY SameMeaning DEF ReplyPart
<1>2. Verdict(stream)' = Verdict(stream)
  BY SameMeaning
<1>3. StagedVerdict(stream)' = StagedVerdict(stream)
  BY DEF StagedVerdict
<1>4. Deserved' = Deserved
  BY <1>2, <1>3 DEF Deserved
<1> QED BY <1>1, <1>4

LEMMA SessionSame ==
  ASSUME SessionInv, UNCHANGED session
  PROVE  SessionInv'
BY SessionNext DEF session, vars

\* A step within connect().
LEMMA Underway ==
  ASSUME ClientInv, pc # "idle", pc' # "idle",
         UNCHANGED <<auth, staged, conn, outcome, connects, sock, bound, leftover>>,
         TypeOK', got' \in Bytes, sent' \in Bytes, gone' \in BOOLEAN, expired' \in BOOLEAN,
         staged => pc' \in {"greeting", "method", "status", "reply"} /\ Reads',
         ~staged => pc' \in {"pipeline", "feed"} /\ SessionInv'
  PROVE  ClientInv'
<1>1. pc' \in Places
  BY DEF Places, ClientInv, ClientTypeOK
<1>2. ClientTypeOK'
  BY <1>1 DEF ClientInv, ClientTypeOK
<1>3. Stages' /\ Holds'
  BY DEF ClientInv, Stages, Holds
<1>4. NoSocketLeaks' /\ OutcomeDeserved'
  BY DEF NoSocketLeaks, OutcomeDeserved
<1>5. TunnelHandedOver'
  BY DEF ClientInv, Holds, TunnelHandedOver
<1> QED BY <1>2, <1>3, <1>4, <1>5 DEF ClientInv

\* A way out of connect() that raises.
LEMMA Ends ==
  ASSUME ClientInv, pc # "idle", UNCHANGED session,
         NEW why \in {"refused", "eof", "timeout", "interrupted"}, Fail(why),
         why = "refused" => Deserved \notin {"need", "reply"},
         why = "eof" => Deserved = "need"
  PROVE  ClientInv'
<1> USE DEF Fail, object, clock
<1>1. UNCHANGED <<stream, auth, staged>> /\ ReplyPart' = ReplyPart /\ Deserved' = Deserved
  BY SameDeserved DEF session
<1>2. TypeOK'
  BY DEF session, ClientInv, ClientTypeOK, TypeOK
<1>3. ClientTypeOK'
  BY <1>2 DEF ClientInv, ClientTypeOK, Places
<1>4. Stages' /\ Holds' /\ Reads'
  BY DEF ClientInv, Stages, Holds, Reads
<1>5. ~staged' => SessionInv'
  BY SessionSame DEF ClientInv
<1>6. NoSocketLeaks'
  BY ConnectAssumption DEF ClientInv, Holds, NoSocketLeaks, ClientTypeOK
<1>7. TunnelHandedOver'
  BY DEF ClientInv, Holds, TunnelHandedOver
<1>8. OutcomeDeserved'
  BY <1>1 DEF OutcomeDeserved
<1> QED BY <1>3, <1>4, <1>5, <1>6, <1>7, <1>8 DEF ClientInv

\* _finish(): the way out with the proxy's reply.
LEMMA Concludes ==
  ASSUME ClientInv, pc # "idle", UNCHANGED session,
         NEW r \in Reply, Conclude(r),
         leftover' \in Bytes, staged => leftover' = leftover,
         Deserved = "reply", r = parse_reply(ReplyPart),
         leftover' \o inflight = Drop(ReplyPart, Size(ReplyPart))
  PROVE  ClientInv'
<1> USE DEF Conclude, clock
<1>1. /\ UNCHANGED <<stream, auth, staged, inflight>>
      /\ ReplyPart' = ReplyPart /\ Deserved' = Deserved
  BY SameDeserved DEF session
<1>2. TypeOK'
  BY DEF session, ClientInv, ClientTypeOK, TypeOK
<1>3. /\ r.bound \in Address /\ connects \in 1 .. MaxConnects
      /\ connects \in Nat /\ connects # None /\ sock = None /\ conn = "open"
  BY ConnectAssumption DEF Reply, ClientInv, ClientTypeOK, Holds
<1>4. ClientTypeOK'
  BY <1>2, <1>3 DEF ClientInv, ClientTypeOK, Places
<1>5. Stages' /\ Holds' /\ Reads'
  BY <1>3 DEF ClientInv, Stages, Holds, Reads
<1>6. ~staged' => SessionInv'
  BY SessionSame DEF ClientInv
<1>7. NoSocketLeaks'
  BY <1>3 DEF NoSocketLeaks
<1>8. TunnelHandedOver'
  BY <1>1, <1>3 DEF TunnelHandedOver
<1>9. OutcomeDeserved'
  BY <1>1 DEF OutcomeDeserved
<1> QED BY <1>4, <1>5, <1>6, <1>7, <1>8, <1>9 DEF ClientInv

LEMMA ClientStart == ClientInit => ClientInv
<1> SUFFICES ASSUME ClientInit PROVE ClientInv
  OBVIOUS
<1>1. SessionInv
  BY SessionInit DEF ClientInit
<1>2. <<>> \in Bytes
  BY DEF Bytes
<1>3. ClientTypeOK
  <2>1. 0 \in 0 .. MaxConnects
    BY ConnectAssumption
  <2>2. TypeOK
    BY <1>1 DEF SessionInv, Position
  <2> QED BY <1>2, <2>1, <2>2 DEF ClientInit, ClientTypeOK, Places
<1>4. Stages /\ Holds /\ Reads
  BY DEF ClientInit, Stages, Holds, Reads
<1>5. NoSocketLeaks
  BY ConnectAssumption DEF ClientInit, NoSocketLeaks
<1>6. TunnelHandedOver /\ OutcomeDeserved
  BY DEF ClientInit, TunnelHandedOver, OutcomeDeserved
<1> QED BY <1>1, <1>3, <1>4, <1>5, <1>6 DEF ClientInv

\* A new connection has a session that has taken nothing.
\* A new connection stands by itself, whatever became of the one before.
LEMMA OpenStarts ==
  ASSUME ClientTypeOK, staged => leftover = <<>>, Open
  PROVE  ClientInv'
<1> USE DEF Open, object
<1>1. /\ stream' \in Bytes /\ <<>> \in Bytes /\ <<>> \o inflight' = stream'
      /\ inflight' = stream' /\ auth' = auth
  BY ClientAssumption, ConcatEmptySeq DEF Bytes
<1>2. Taken' = <<>>
  <2>1. SubSeq(<<>> \o inflight', 1, Len(<<>> \o inflight') - Len(inflight')) = <<>>
    BY <1>1, Before
  <2> QED BY <1>1, <2>1 DEF Taken
<1>3. TypeOK'
  <2>1. "need" \in Results
    BY DEF Results
  <2> QED BY <1>1, <2>1 DEF TypeOK, ClientTypeOK
<1>4. SessionInv'
  <2>1. Position'
    BY <1>1, <1>2, <1>3 DEF Position
  <2>2. Settled'
    BY <1>1, <1>2, VerdictOfNothing, SameMeaning DEF Settled
  <2> QED BY <2>1, <2>2 DEF SessionInv
<1>5. connects' \in 0 .. MaxConnects /\ connects' # 0
  BY ConnectAssumption DEF ClientTypeOK
<1>6. ClientTypeOK'
  BY <1>1, <1>3, <1>5 DEF ClientTypeOK, Places
<1>7. Stages' /\ Holds'
  BY <1>5 DEF Stages, Holds
<1>8. Reads'
  BY DEF Reads
<1>9. NoSocketLeaks' /\ TunnelHandedOver' /\ OutcomeDeserved'
  BY DEF NoSocketLeaks, TunnelHandedOver, OutcomeDeserved
<1> QED BY <1>4, <1>6, <1>7, <1>8, <1>9 DEF ClientInv

LEMMA OpenKeeps ==
  ASSUME ClientInv, Open
  PROVE  ClientInv'
BY OpenStarts DEF ClientInv, Stages

LEMMA CloseKeeps ==
  ASSUME ClientInv, close
  PROVE  ClientInv'
<1> USE DEF close, clock
<1>1. UNCHANGED <<stream, auth, staged>> /\ ReplyPart' = ReplyPart /\ Deserved' = Deserved
  BY SameDeserved DEF session
<1>2. TypeOK'
  BY DEF session, ClientInv, ClientTypeOK, TypeOK
<1>3. ClientTypeOK'
  BY <1>2 DEF ClientInv, ClientTypeOK
<1>4. Stages' /\ Holds' /\ Reads'
  BY DEF ClientInv, Stages, Holds, Reads
<1>5. ~staged' => SessionInv'
  BY SessionSame DEF ClientInv
<1>6. NoSocketLeaks' /\ TunnelHandedOver'
  BY ConnectAssumption DEF ClientInv, ClientTypeOK, NoSocketLeaks, TunnelHandedOver
<1>7. OutcomeDeserved'
  BY <1>1 DEF ClientInv, OutcomeDeserved
<1> QED BY <1>3, <1>4, <1>5, <1>6, <1>7 DEF ClientInv

-----------------------------------------------------------------------------
(* The optimistic client. *)

LEMMA OptimisticOnly ==
  ASSUME ClientInv, pc \in {"pipeline", "feed"}
  PROVE  ~staged /\ SessionInv /\ TypeOK
BY DEF ClientInv, Stages, ClientTypeOK

LEMMA SendPipelineKeeps ==
  ASSUME ClientInv, SendPipeline
  PROVE  ClientInv'
<1> USE DEF SendPipeline, Say, object, clock
<1>1. ~staged /\ SessionInv /\ TypeOK
  BY OptimisticOnly
<1>2. SessionInv' /\ TypeOK'
  BY <1>1, SessionSame DEF SessionInv, Position
<1>3. sent \o optimistic_pipeline \in Bytes /\ <<>> \in Bytes
  <2>1. optimistic_pipeline \in Bytes /\ sent \in Bytes
    BY <1>1, MessageTypes DEF TypeOK, ClientInv, ClientTypeOK
  <2> QED BY <2>1, ConcatType DEF Bytes
<1>4. auth' = auth
  BY DEF session
<1>5. sent' \in Bytes /\ got' \in Bytes
  BY <1>3
<1>6. gone' \in BOOLEAN /\ expired' \in BOOLEAN
  BY DEF ClientInv, ClientTypeOK
<1> QED BY <1>1, <1>2, <1>4, <1>5, <1>6, Underway

\* feed() and its turns: the rest of the object waits.
LEMMA FeedingKeeps ==
  ASSUME ClientInv, Feed \/ FeedTurns
  PROVE  ClientInv'
<1>1. pc = "feed"
  BY DEF Feed, Hungry, FeedTurns
<1>2. ~staged /\ SessionInv /\ TypeOK
  BY <1>1, OptimisticOnly
<1>3. (\E n \in 0 .. Len(inflight) : feed(n)) \/ Turn
  <2>1. CASE Feed
    <3>1. PICK n \in 1 .. Len(inflight) : feed(n)
      BY <2>1 DEF Feed
    <3>2. n \in 0 .. Len(inflight)
      BY <1>2 DEF TypeOK, Bytes
    <3> QED BY <3>1, <3>2
  <2>2. CASE FeedTurns
    BY <2>2 DEF FeedTurns
  <2> QED BY <2>1, <2>2
<1>4. SessionInv' /\ TypeOK'
  BY <1>2, <1>3, SessionNext DEF Next, SessionInv, Position
<1>5. UNCHANGED <<object, clock, staged, pc, got, sent, conn, outcome, connects>>
  BY DEF Feed, FeedTurns
<1>6. auth' = auth
  BY <1>3 DEF feed, Turn, Leave, Finish, Advance, MethodShort, MethodMalformed,
     MethodOther, MethodChosen, AuthShort, AuthMalformed, AuthRefused, AuthAccepted,
     ReplyUnknownAtyp, ReplyShort, ReplyMalformed, ReplyUndecodable, ReplyParsed, Done
<1>7. got' \in Bytes /\ sent' \in Bytes /\ gone' \in BOOLEAN /\ expired' \in BOOLEAN
  BY <1>5 DEF clock, ClientInv, ClientTypeOK
<1> QED BY <1>1, <1>2, <1>4, <1>5, <1>6, <1>7, Underway DEF object, clock

\* A verdict names the stage that gave it.
LEMMA ReplyMeansDone ==
  ASSUME NEW s \in Bytes, Verdict(s) = "reply"
  PROVE  StateOf(s) = "done"
<1>1. Chosen(s)
  <2>1. SUFFICES ASSUME ~Chosen(s) PROVE FALSE
    OBVIOUS
  <2>2. PairVerdict(s, Ver, method, "method") = "reply"
    BY <2>1, VerdictMethod
  <2> QED BY <2>2, NeverReply
<1>2. Verified(s)
  <2>1. SUFFICES ASSUME ~Verified(s) PROVE FALSE
    OBVIOUS
  <2>2. PairVerdict(AfterMethod(s), AuthVer, 0, "auth") = "reply"
    BY <1>1, <2>1, VerdictAuth
  <2>3. AfterMethod(s) \in Bytes
    BY <1>1, ChosenStable, PhasesStable
  <2> QED BY <2>2, <2>3, NeverReply
<1> QED BY <1>1, <1>2, VerdictReply

LEMMA FeedRepliedKeeps ==
  ASSUME ClientInv, FeedReplied
  PROVE  ClientInv'
<1>1. /\ pc = "feed" /\ ~feeding /\ result = "reply" /\ leftover' = buf
      /\ Conclude(reply_) /\ UNCHANGED session
  BY DEF FeedReplied
<1>2. ~staged /\ SessionInv /\ TypeOK
  BY <1>1, OptimisticOnly
<1>3. Verdict(Taken) = "reply" /\ state = StateOf(Taken) /\ Taken \in Bytes
  BY <1>1, <1>2 DEF SessionInv, Settled, Position
<1>4. state = "done"
  BY <1>3, ReplyMeansDone
<1>5. /\ buf \o inflight = Drop(AfterAuth(stream), Size(AfterAuth(stream)))
      /\ reply_ = parse_reply(AfterAuth(stream))
      /\ Verdict(stream) = "reply"
  BY <1>2, <1>4, HandsOver
<1>6. ReplyPart = AfterAuth(stream) /\ Deserved = "reply"
  BY <1>2, <1>5 DEF ReplyPart, Deserved
<1>7. reply_ \in Reply /\ leftover' \in Bytes
  BY <1>1, <1>2, <1>4 DEF TypeOK
<1> QED BY <1>1, <1>2, <1>5, <1>6, <1>7, Concludes

LEMMA FeedRaisedKeeps ==
  ASSUME ClientInv, FeedRaised
  PROVE  ClientInv'
<1>1. /\ pc = "feed" /\ ~feeding /\ result \notin {"need", "reply"}
      /\ Fail("refused") /\ UNCHANGED session
  BY DEF FeedRaised
<1>2. ~staged /\ SessionInv /\ TypeOK
  BY <1>1, OptimisticOnly
<1>3. /\ Verdict(Taken) = result /\ Taken \in Bytes /\ inflight \in Bytes
      /\ Taken \o inflight = stream
  BY <1>1, <1>2 DEF SessionInv, Settled, Position, TypeOK
<1>4. Verdict(stream) = result
  <2>1. Verdict(Taken) # "need"
    BY <1>1, <1>3
  <2> QED BY <1>3, <2>1, VerdictStable
<1>5. Deserved \notin {"need", "reply"}
  BY <1>1, <1>2, <1>4 DEF Deserved
<1> QED BY <1>1, <1>5, Ends

-----------------------------------------------------------------------------
(* The staged client. *)

LEMMA StagedOnly ==
  ASSUME ClientInv, pc \in {"greeting", "method", "status", "reply"}
  PROVE  /\ staged /\ Reads /\ TypeOK /\ got \in Bytes /\ inflight \in Bytes
         /\ stream \in Bytes /\ auth \in BOOLEAN
         /\ Len(got) \in Nat /\ Len(inflight) \in Nat
BY DEF ClientInv, Stages, ClientTypeOK, TypeOK, Bytes

\* _recv_reply asks for no byte that is not the reply's.
LEMMA ReplySizeFacts ==
  ASSUME NEW g \in Bytes, ~UnknownAtyp(g)
  PROVE  /\ ReplySize(g) \in Nat /\ ReplySize(g) >= 4
         /\ Len(g) = ReplySize(g) => Arrived(g) /\ Len(g) = Size(g)
         /\ Len(g) < ReplySize(g) => ~Arrived(g)
<1>1. Len(g) \in Nat
  BY DEF Bytes
<1>2. CASE Len(g) < 4
  <2>1. ReplySize(g) = 4 /\ ~HasSize(g)
    BY <1>1, <1>2 DEF ReplySize, HasSize
  <2>2. ~Arrived(g)
    BY <2>1 DEF Arrived
  <2> QED BY <1>1, <1>2, <2>1, <2>2
<1>3. CASE Len(g) >= 4 /\ g[4] = Domain /\ Len(g) < 5
  <2>1. ReplySize(g) = 5
    BY <1>1, <1>3 DEF ReplySize
  <2>2. ~HasSize(g)
    BY <1>1, <1>3 DEF HasSize
  <2>3. ~Arrived(g)
    BY <2>2 DEF Arrived
  <2>4. Len(g) = 4
    <3> DEFINE n == Len(g)
    <3>1. n \in Nat /\ n >= 4 /\ n < 5
      BY <1>1, <1>3
    <3> HIDE DEF n
    <3>2. n = 4
      BY <3>1
    <3> QED BY <3>2 DEF n
  <2>5. Len(g) # ReplySize(g) /\ ReplySize(g) \in Nat /\ ReplySize(g) >= 4
    BY <2>1, <2>4
  <2> QED BY <2>3, <2>5
<1>4. CASE Len(g) >= 4 /\ ~(g[4] = Domain /\ Len(g) < 5)
  <2>1. HasSize(g)
    BY <1>1, <1>4 DEF UnknownAtyp, HasSize
  <2>2. ReplySize(g) = Size(g)
    BY <1>1, <1>4 DEF ReplySize
  <2>3. Size(g) \in Nat /\ Size(g) >= 7
    BY <2>1, SizeFacts
  <2> QED BY <1>1, <2>1, <2>2, <2>3 DEF Arrived
<1> QED BY <1>1, <1>2, <1>3, <1>4

\* The measure does not shrink while bytes arrive.
LEMMA ReplySizeGrows ==
  ASSUME NEW g \in Bytes, NEW d \in Bytes, ~UnknownAtyp(g), ~UnknownAtyp(g \o d)
  PROVE  ReplySize(g) <= ReplySize(g \o d) \/ Len(g \o d) > ReplySize(g)
<1> DEFINE h == g \o d
<1>1. h \in Bytes /\ Len(h) = Len(g) + Len(d) /\ Len(g) \in Nat /\ Len(d) \in Nat
  BY ConcatType
<1>2. ReplySize(h) \in Nat /\ ReplySize(h) >= 4
  BY <1>1, ReplySizeFacts
<1>3. \A i \in Nat : 1 <= i /\ i <= Len(g) => h[i] = g[i]
  BY PrefixByte
<1>4. HasSize(g) => HasSize(h) /\ Size(h) = Size(g)
  BY SizeStable
<1>5. HasSize(h) => Size(h) \in Nat /\ Size(h) >= 7
  BY <1>1, SizeFacts
<1>6. ~UnknownAtyp(h)
  OBVIOUS
<1> HIDE DEF h
<1>7. ReplySize(g) <= ReplySize(h) \/ Len(h) > ReplySize(g)
  <2>1. CASE Len(g) < 4
    <3>1. ReplySize(g) = 4
      BY <2>1 DEF ReplySize
    <3> QED BY <1>2, <3>1
  <2>2. CASE Len(g) >= 4 /\ g[4] = Domain /\ Len(g) < 5
    <3>1. ReplySize(g) = 5
      BY <1>1, <2>2 DEF ReplySize
    <3>2. Len(h) >= 4 /\ h[4] = Domain
      BY <1>1, <1>3, <2>2
    <3>3. CASE Len(h) < 5
      BY <1>1, <3>1, <3>2, <3>3 DEF ReplySize
    <3>4. CASE Len(h) >= 5
      <4>1. HasSize(h)
        BY <3>2, <3>4 DEF HasSize, Atyps
      <4>2. ReplySize(h) = Size(h)
        BY <1>1, <3>2, <3>4 DEF ReplySize
      <4> QED BY <1>5, <3>1, <4>1, <4>2
    <3> QED BY <1>1, <3>3, <3>4
  <2>3. CASE Len(g) >= 4 /\ ~(g[4] = Domain /\ Len(g) < 5)
    <3>1. HasSize(g)
      BY <1>1, <2>3 DEF UnknownAtyp, HasSize
    <3>2. ReplySize(g) = Size(g)
      BY <1>1, <2>3 DEF ReplySize
    <3>3. HasSize(h) /\ Size(h) = Size(g)
      BY <1>4, <3>1
    <3>4. Len(h) >= 4 /\ (h[4] = Domain => Len(h) >= 5)
      BY <3>3 DEF HasSize
    <3>5. ReplySize(h) = Size(h)
      BY <1>1, <3>4 DEF ReplySize
    <3> QED BY <1>5, <3>2, <3>3, <3>5
  <2> QED BY <1>1, <2>1, <2>2, <2>3
<1> QED BY <1>7 DEF h

LEMMA SendGreetingKeeps ==
  ASSUME ClientInv, SendGreeting
  PROVE  ClientInv'
<1> USE DEF SendGreeting, Say, object, clock
<1>1. /\ staged /\ TypeOK /\ auth \in BOOLEAN /\ inflight = stream /\ stream \in Bytes
  BY StagedOnly DEF Reads
<1>2. UNCHANGED <<stream, inflight, auth>> /\ TypeOK'
  BY <1>1 DEF session, TypeOK
<1>3. sent' \in Bytes /\ got' \in Bytes
  <2>1. client_greeting(Offered) \in Bytes /\ sent \in Bytes
    BY <1>1, MessageTypes DEF ClientInv, ClientTypeOK
  <2> QED BY <2>1, ConcatType DEF Bytes
<1>4. gone' \in BOOLEAN /\ expired' \in BOOLEAN
  BY DEF ClientInv, ClientTypeOK
<1>5. Reads'
  <2>1. <<>> \o stream = stream
    BY <1>1, ConcatEmptySeq DEF Bytes
  <2> QED BY <1>1, <1>2, <2>1 DEF Reads
<1> QED BY <1>1, <1>2, <1>3, <1>4, <1>5, Underway

\* One recv(): what is read and what is left are the stream they were.
LEMMA RecvKeeps ==
  ASSUME ClientInv, Recv
  PROVE  ClientInv'
<1>1. /\ pc \in {"method", "status", "reply"} /\ ~Refusable /\ Len(got) < Wanted
      /\ UNCHANGED <<stream, auth, buf, state, reply_, feeding, result>>
      /\ UNCHANGED <<object, clock, staged, pc, sent, conn, outcome, connects>>
  BY DEF Recv, Short, Reading
<1>2. PICK n \in 1 .. Len(inflight) :
        /\ n <= Wanted - Len(got)
        /\ got' = got \o SubSeq(inflight, 1, n)
        /\ inflight' = Drop(inflight, n)
  BY DEF Recv
<1>3. /\ staged /\ Reads /\ TypeOK /\ got \in Bytes /\ inflight \in Bytes
      /\ stream \in Bytes /\ Len(got) \in Nat /\ Len(inflight) \in Nat
  BY <1>1, StagedOnly
<1> DEFINE data == SubSeq(inflight, 1, n)
<1>4. /\ data \in Bytes /\ Len(data) = n /\ inflight' \in Bytes
      /\ data \o inflight' = inflight
  <2>1. n \in 0 .. Len(inflight) /\ n \in Nat
    BY <1>3
  <2>2. data \in Bytes /\ data \o Drop(inflight, n) = inflight
    BY <1>3, <2>1, TakeAndDrop
  <2>3. Len(data) = n
    BY <1>3, <2>1 DEF Bytes
  <2>4. Drop(inflight, n) \in Bytes
    BY <1>3, <2>1, DropType
  <2> QED BY <1>2, <2>2, <2>3, <2>4
<1> HIDE DEF data
<1>5. got' = got \o data
  BY <1>2 DEF data
<1>6. got' \in Bytes /\ Len(got') = Len(got) + n /\ n \in Nat
  BY <1>3, <1>4, <1>5, ConcatType
<1>7. got' \o inflight' = got \o inflight
  <2>1. (got \o data) \o inflight' = got \o (data \o inflight')
    <3>1. Regroups(got, data, inflight')
      BY <1>3, <1>4, BytesRegroup
    <3> QED
      BY <3>1, Zenon DEF Regroups
  <2> QED BY <1>4, <1>5, <2>1, Zenon
<1>8. TypeOK'
  BY <1>1, <1>3, <1>4 DEF TypeOK
<1>9. Reads'
  <2>1. CASE pc = "method"
    <3>1. Len(got') <= 2
      BY <1>2, <1>3, <1>6, <2>1 DEF Wanted
    <3> QED BY <1>1, <1>3, <1>7, <2>1, <3>1 DEF Reads
  <2>2. CASE pc = "status"
    <3>1. Len(got') <= 2
      BY <1>2, <1>3, <1>6, <2>2 DEF Wanted
    <3> QED BY <1>1, <1>3, <1>7, <2>2, <3>1 DEF Reads
  <2>3. CASE pc = "reply"
    <3>1. ~UnknownAtyp(got)
      BY <1>1, <2>3 DEF Refusable
    <3>2. ReplySize(got) \in Nat /\ Len(got') <= ReplySize(got)
      <4>1. ReplySize(got) \in Nat
        BY <1>3, <3>1, ReplySizeFacts
      <4>2. n <= ReplySize(got) - Len(got)
        BY <1>2, <2>3 DEF Wanted
      <4> QED BY <1>3, <1>6, <4>1, <4>2
    <3>3. ~UnknownAtyp(got') => Len(got') <= ReplySize(got')
      <4>1. SUFFICES ASSUME ~UnknownAtyp(got') PROVE Len(got') <= ReplySize(got')
        OBVIOUS
      <4>2. ReplySize(got') \in Nat
        BY <1>6, <4>1, ReplySizeFacts
      <4>3. ReplySize(got) <= ReplySize(got') \/ Len(got') > ReplySize(got)
        BY <1>3, <1>4, <1>5, <3>1, <4>1, ReplySizeGrows
      <4> QED BY <1>3, <1>6, <3>2, <4>2, <4>3
    <3>4. /\ ReplyPart' = ReplyPart /\ StagedVerdict(stream)' = StagedVerdict(stream)
          /\ Through(stream)' = Through(stream)
      BY <1>1, SameDeserved DEF StagedVerdict, Through
    <3>5. UnknownAtyp(got)' = UnknownAtyp(got') /\ ReplySize(got)' = ReplySize(got')
      OBVIOUS
    <3> QED BY <1>1, <1>3, <1>7, <2>3, <3>3, <3>4, <3>5 DEF Reads
  <2> QED BY <1>1, <2>1, <2>2, <2>3
<1>10. sent' \in Bytes /\ gone' \in BOOLEAN /\ expired' \in BOOLEAN
  BY <1>1 DEF clock, ClientInv, ClientTypeOK
<1> QED BY <1>1, <1>3, <1>6, <1>8, <1>9, <1>10, Underway DEF object, clock

\* What a staged client has read in full.
LEMMA WholePair ==
  ASSUME ClientInv, pc \in {"method", "status"}, Whole
  PROVE  /\ staged /\ Reads /\ got \in Bytes /\ inflight \in Bytes /\ stream \in Bytes
         /\ Len(got) = 2 /\ TypeOK /\ auth \in BOOLEAN
         /\ pc = "method" =>
              /\ inflight = Drop(stream, 2) /\ Len(stream) >= 2
              /\ stream[1] = got[1] /\ stream[2] = got[2]
         /\ pc = "status" =>
              LET rest == Drop(stream, 2)
              IN  /\ inflight = Drop(rest, 2) /\ Drop(rest, 2) = Drop(stream, 4)
                  /\ rest \in Bytes /\ Len(rest) >= 2
                  /\ rest[1] = got[1] /\ rest[2] = got[2]
<1>1. /\ staged /\ Reads /\ TypeOK /\ got \in Bytes /\ inflight \in Bytes
      /\ stream \in Bytes /\ auth \in BOOLEAN
  BY StagedOnly
<1>2. Len(got) = 2
  BY DEF Whole, Wanted
<1>3. ASSUME NEW s \in Bytes, got \o inflight = s
      PROVE  /\ inflight = Drop(s, 2) /\ Len(s) >= 2
             /\ s[1] = got[1] /\ s[2] = got[2]
  <2>1. Drop(s, Len(got)) = inflight
    BY <1>1, <1>3, Behind
  <2>2. s[1] = got[1] /\ s[2] = got[2] /\ 2 <= Len(s)
    <3>1. \A i \in 1 .. 2 :
            (got \o inflight)[i] = got[i] /\ i <= Len(got \o inflight)
      <4>1. \A i \in 1 .. 2 : i \in Nat /\ 1 <= i /\ i <= Len(got)
        BY <1>2
      <4>2. Len(got \o inflight) \in Nat /\ Len(got) <= Len(got \o inflight)
        BY <1>1, ConcatType DEF Bytes
      <4>3. \A i \in 1 .. 2 : (got \o inflight)[i] = got[i]
        BY <1>1, <4>1, PrefixByte
      <4> QED BY <1>2, <4>2, <4>3
    <3> QED BY <1>2, <1>3, <3>1
  <2>3. Len(s) \in Nat
    BY DEF Bytes
  <2> QED BY <1>2, <2>1, <2>2, <2>3
<1>4. ASSUME pc = "method"
      PROVE  /\ inflight = Drop(stream, 2) /\ Len(stream) >= 2
             /\ stream[1] = got[1] /\ stream[2] = got[2]
  <2>1. got \o inflight = stream
    BY <1>1, <1>4 DEF Reads
  <2> QED BY <1>1, <1>3, <2>1
<1>5. ASSUME pc = "status"
      PROVE  LET rest == Drop(stream, 2)
             IN  /\ inflight = Drop(rest, 2) /\ Drop(rest, 2) = Drop(stream, 4)
                 /\ rest \in Bytes /\ Len(rest) >= 2
                 /\ rest[1] = got[1] /\ rest[2] = got[2]
  <2>1. got \o inflight = Drop(stream, 2)
    BY <1>1, <1>5 DEF Reads
  <2>2. Drop(stream, 2) \in Bytes
    BY <1>1, DropType
  <2>3. Drop(Drop(stream, 2), 2) = Drop(stream, 2 + 2)
    BY <1>1, DropDrop
  <2> QED BY <1>3, <2>1, <2>2, <2>3
<1> QED BY <1>1, <1>2, <1>4, <1>5

\* What the staged client's bytes deserve, by what the proxy chose.
LEMMA StagedChosen ==
  ASSUME NEW s \in Bytes, Len(s) >= 2
  PROVE  /\ s[1] # Ver => StagedVerdict(s) = "malformed"
         /\ s[1] = Ver /\ s[2] = Method.NO_AUTH =>
              /\ PairVerdict(s, Ver, Method.NO_AUTH, "other") = "go on"
              /\ StagedVerdict(s) = ReplyVerdict(Drop(s, 2))
         /\ s[1] = Ver /\ s[2] # Method.NO_AUTH =>
              PairVerdict(s, Ver, Method.NO_AUTH, "other") = "other"
         /\ s[1] = Ver /\ s[2] # Method.NO_AUTH /\ (s[2] # Method.USERPASS \/ ~auth) =>
              StagedVerdict(s) = "method"
<1> DEFINE chosen == PairVerdict(s, Ver, Method.NO_AUTH, "other")
<1>1. ~(Len(s) < 2)
  BY DEF Bytes
<1>2. s[1] # Ver => chosen = "malformed"
  BY <1>1, Zenon DEF PairVerdict
<1>3. s[1] = Ver /\ s[2] = Method.NO_AUTH => chosen = "go on"
  BY <1>1, Zenon DEF PairVerdict
<1>4. s[1] = Ver /\ s[2] # Method.NO_AUTH => chosen = "other"
  BY <1>1, Zenon DEF PairVerdict
<1> HIDE DEF chosen
<1>5. s[1] # Ver => StagedVerdict(s) = "malformed"
  BY <1>2 DEF StagedVerdict, chosen
<1>6. s[1] = Ver /\ s[2] = Method.NO_AUTH => StagedVerdict(s) = ReplyVerdict(Drop(s, 2))
  BY <1>3 DEF StagedVerdict, chosen
<1>7. s[1] = Ver /\ s[2] # Method.NO_AUTH /\ (s[2] # Method.USERPASS \/ ~auth) =>
        StagedVerdict(s) = "method"
  BY <1>4 DEF StagedVerdict, chosen
<1> QED BY <1>3, <1>4, <1>5, <1>6, <1>7 DEF chosen

\* And, with credentials, by what it said of them.
LEMMA StagedLogin ==
  ASSUME NEW s \in Bytes, PairVerdict(s, Ver, Method.NO_AUTH, "other") = "other",
         s[2] = Method.USERPASS, auth
  PROVE  LET login == PairVerdict(Drop(s, 2), AuthVer, 0, "auth")
         IN  /\ login = "go on" => StagedVerdict(s) = ReplyVerdict(Drop(s, 4))
             /\ login # "go on" => StagedVerdict(s) = login
BY DEF StagedVerdict

LEMMA ChosenUserpassKeeps ==
  ASSUME ClientInv, ChosenUserpass
  PROVE  ClientInv'
<1>1. /\ pc = "method" /\ Whole /\ HasMethodSelection(got)
      /\ parse_method_selection(got) = Method.USERPASS /\ auth
      /\ Say(Login, "status") /\ UNCHANGED session
  BY DEF ChosenUserpass, Chose
<1>2. /\ staged /\ Reads /\ got \in Bytes /\ inflight \in Bytes /\ stream \in Bytes
      /\ Len(got) = 2 /\ TypeOK /\ auth \in BOOLEAN
      /\ inflight = Drop(stream, 2) /\ Len(stream) >= 2
      /\ stream[1] = got[1] /\ stream[2] = got[2]
  BY <1>1, WholePair
<1>3. stream[1] = Ver /\ stream[2] = Method.USERPASS /\ stream[2] # Method.NO_AUTH
  BY <1>1, <1>2 DEF HasMethodSelection, parse_method_selection, Method
<1>4. PairVerdict(stream, Ver, Method.NO_AUTH, "other") = "other"
  BY <1>2, <1>3, StagedChosen
<1>5. UNCHANGED <<stream, inflight, auth, staged>> /\ TypeOK'
  BY <1>1, <1>2 DEF session, TypeOK, Say, clock
<1>6. /\ got' = <<>> /\ got' \in Bytes /\ pc' = "status" /\ <<>> \o inflight = inflight
      /\ Len(<<>>) = 0
  BY <1>1, <1>2, ConcatEmptySeq DEF Say, Bytes
<1>7. Reads'
  BY <1>1, <1>2, <1>3, <1>4, <1>5, <1>6 DEF Reads
<1>8. sent' \in Bytes
  <2>1. Login \in Bytes /\ sent \in Bytes
    BY <1>2, MessageTypes DEF ClientInv, ClientTypeOK
  <2> QED BY <1>1, <2>1, ConcatType DEF Say
<1>9. gone' \in BOOLEAN /\ expired' \in BOOLEAN
  BY <1>1 DEF Say, clock, ClientInv, ClientTypeOK
<1> QED BY <1>1, <1>2, <1>5, <1>6, <1>7, <1>8, <1>9, Underway DEF Say, object

\* The request goes out, and what is left is the reply and what follows it.
LEMMA AskKeeps ==
  ASSUME ClientInv, pc # "idle", staged, Say(Ask, "reply"), UNCHANGED session,
         inflight = ReplyPart, Through(stream),
         StagedVerdict(stream) = ReplyVerdict(ReplyPart)
  PROVE  ClientInv'
<1>1. TypeOK /\ inflight \in Bytes /\ auth \in BOOLEAN /\ <<>> \in Bytes
  BY DEF ClientInv, ClientTypeOK, TypeOK, Bytes
<1>2. UNCHANGED <<stream, inflight, auth, staged>> /\ TypeOK'
  BY <1>1 DEF session, TypeOK, Say, clock
<1>3. got' = <<>> /\ pc' = "reply" /\ <<>> \o inflight = inflight
  BY <1>1, ConcatEmptySeq DEF Say, Bytes
<1>4. /\ ReplyPart' = ReplyPart /\ StagedVerdict(stream)' = StagedVerdict(stream)
      /\ Through(stream)' = Through(stream)
  BY <1>2, SameDeserved DEF StagedVerdict, Through
<1>5. Len(<<>>) <= ReplySize(<<>>)
  BY DEF ReplySize
<1>6. Reads'
  BY <1>2, <1>3, <1>4, <1>5 DEF Reads
<1>7. sent' \in Bytes
  <2>1. Ask \in Bytes /\ sent \in Bytes
    BY <1>1, MessageTypes DEF ClientInv, ClientTypeOK
  <2> QED BY <2>1, ConcatType DEF Say
<1>8. gone' \in BOOLEAN /\ expired' \in BOOLEAN
  BY DEF Say, clock, ClientInv, ClientTypeOK
<1> QED BY <1>1, <1>2, <1>3, <1>6, <1>7, <1>8, Underway DEF Say, object

LEMMA ChosenNoAuthKeeps ==
  ASSUME ClientInv, ChosenNoAuth
  PROVE  ClientInv'
<1>1. /\ pc = "method" /\ Whole /\ HasMethodSelection(got)
      /\ parse_method_selection(got) = Method.NO_AUTH
      /\ Say(Ask, "reply") /\ UNCHANGED session
  BY DEF ChosenNoAuth, Chose
<1>2. /\ staged /\ stream \in Bytes
      /\ inflight = Drop(stream, 2) /\ Len(stream) >= 2
      /\ stream[1] = got[1] /\ stream[2] = got[2]
  BY <1>1, WholePair
<1>3. stream[1] = Ver /\ stream[2] = Method.NO_AUTH /\ stream[2] # Method.USERPASS
  BY <1>1, <1>2 DEF HasMethodSelection, parse_method_selection, Method
<1>4. ReplyPart = Drop(stream, 2)
  BY <1>2, <1>3 DEF ReplyPart
<1>5. StagedVerdict(stream) = ReplyVerdict(Drop(stream, 2))
  BY <1>2, <1>3, StagedChosen
<1>6. Through(stream)
  BY <1>2, <1>3, StagedChosen DEF Through
<1> QED BY <1>1, <1>2, <1>4, <1>5, <1>6, AskKeeps

LEMMA ChosenOtherKeeps ==
  ASSUME ClientInv, ChosenOther
  PROVE  ClientInv'
<1>1. /\ pc = "method" /\ Whole /\ Fail("refused") /\ UNCHANGED session
      /\ ~Chose(Method.NO_AUTH) /\ ~(Chose(Method.USERPASS) /\ auth)
  BY DEF ChosenOther
<1>2. /\ staged /\ stream \in Bytes /\ Len(stream) >= 2 /\ Len(got) = 2
      /\ stream[1] = got[1] /\ stream[2] = got[2]
  BY <1>1, WholePair
<1>3. stream[1] = Ver =>
        stream[2] # Method.NO_AUTH /\ (stream[2] # Method.USERPASS \/ ~auth)
  BY <1>1, <1>2 DEF Chose, HasMethodSelection, parse_method_selection
<1>4. StagedVerdict(stream) \in {"malformed", "method"}
  BY <1>2, <1>3, StagedChosen
<1>5. Deserved \notin {"need", "reply"}
  BY <1>2, <1>4 DEF Deserved
<1> QED BY <1>1, <1>5, Ends

\* What the proxy says of the credentials.
LEMMA StatusVerdict ==
  ASSUME ClientInv, pc = "status", Whole
  PROVE  /\ staged /\ stream \in Bytes
         /\ inflight = Drop(stream, 4) /\ ReplyPart = Drop(stream, 4)
         /\ LoggedIn => StagedVerdict(stream) = ReplyVerdict(Drop(stream, 4))
         /\ LoggedIn => Through(stream)
         /\ ~LoggedIn => StagedVerdict(stream) \in {"malformed", "auth"}
<1> DEFINE rest == Drop(stream, 2)
           login == PairVerdict(rest, AuthVer, 0, "auth")
<1>1. /\ staged /\ Reads /\ stream \in Bytes /\ Len(got) = 2
      /\ inflight = Drop(stream, 4)
      /\ rest \in Bytes /\ Len(rest) >= 2 /\ rest[1] = got[1] /\ rest[2] = got[2]
  BY WholePair
<1>2. /\ PairVerdict(stream, Ver, Method.NO_AUTH, "other") = "other"
      /\ stream[2] = Method.USERPASS /\ auth
  BY <1>1 DEF Reads
<1>3. ReplyPart = Drop(stream, 4)
  BY <1>1, <1>2 DEF ReplyPart
<1>4. /\ login = "go on" => StagedVerdict(stream) = ReplyVerdict(Drop(stream, 4))
      /\ login # "go on" => StagedVerdict(stream) = login
  BY <1>1, <1>2, StagedLogin
<1>5. ~(Len(rest) < 2)
  BY <1>1 DEF Bytes
<1> HIDE DEF rest
<1>6. LoggedIn => login = "go on"
  <2>1. SUFFICES ASSUME LoggedIn PROVE login = "go on"
    OBVIOUS
  <2>2. rest[1] = AuthVer /\ rest[2] = 0
    BY <1>1, <2>1 DEF LoggedIn, HasAuthReply, parse_auth_reply
  <2> QED BY <1>1, <1>5, <2>2, Zenon DEF PairVerdict
<1>7. ~LoggedIn => login \in {"malformed", "auth"}
  <2>1. SUFFICES ASSUME ~LoggedIn PROVE login \in {"malformed", "auth"}
    OBVIOUS
  <2>2. rest[1] # AuthVer \/ (rest[1] = AuthVer /\ rest[2] # 0)
    BY <1>1, <2>1 DEF LoggedIn, HasAuthReply, parse_auth_reply
  <2>3. CASE rest[1] # AuthVer
    BY <1>1, <1>5, <2>3, Zenon DEF PairVerdict
  <2>4. CASE rest[1] = AuthVer /\ rest[2] # 0
    BY <1>1, <1>5, <2>4, Zenon DEF PairVerdict
  <2> QED BY <2>2, <2>3, <2>4
<1> HIDE DEF login
<1>8. ~LoggedIn => login # "go on"
  BY <1>7
<1>9. login = "go on" => Through(stream)
  BY <1>2 DEF Through, login, rest
<1> QED BY <1>1, <1>3, <1>4, <1>6, <1>7, <1>8, <1>9

LEMMA StatusKeeps ==
  ASSUME ClientInv, StatusAccepted \/ StatusRefused
  PROVE  ClientInv'
<1>1. CASE StatusAccepted
  <2>1. /\ pc = "status" /\ Whole /\ LoggedIn /\ Say(Ask, "reply") /\ UNCHANGED session
    BY <1>1 DEF StatusAccepted
  <2>2. /\ staged /\ inflight = ReplyPart /\ Through(stream)
        /\ StagedVerdict(stream) = ReplyVerdict(ReplyPart)
    BY <2>1, StatusVerdict
  <2> QED BY <2>1, <2>2, AskKeeps
<1>2. CASE StatusRefused
  <2>1. /\ pc = "status" /\ Whole /\ ~LoggedIn /\ Fail("refused") /\ UNCHANGED session
    BY <1>2 DEF StatusRefused
  <2>2. Deserved \notin {"need", "reply"}
    BY <2>1, StatusVerdict DEF Deserved
  <2> QED BY <2>1, <2>2, Ends
<1> QED BY <1>1, <1>2

\* Where a staged client stands with its reply.
LEMMA ReplyFacts ==
  ASSUME ClientInv, pc = "reply"
  PROVE  /\ staged /\ got \in Bytes /\ inflight \in Bytes /\ got \o inflight = ReplyPart
         /\ Len(got) \in Nat
         /\ Deserved = ReplyVerdict(ReplyPart)
         /\ ReplyVerdict(got) # "need" => Deserved = ReplyVerdict(got)
         /\ ~UnknownAtyp(got) =>
              /\ Len(got) = ReplySize(got) => Arrived(got) /\ Len(got) = Size(got)
              /\ Len(got) < ReplySize(got) => ReplyVerdict(got) = "need"
<1>1. /\ staged /\ Reads /\ got \in Bytes /\ inflight \in Bytes /\ Len(got) \in Nat
  BY StagedOnly
<1>2. got \o inflight = ReplyPart /\ StagedVerdict(stream) = ReplyVerdict(ReplyPart)
  BY <1>1 DEF Reads
<1>3. Deserved = ReplyVerdict(ReplyPart)
  BY <1>1, <1>2 DEF Deserved
<1>4. ReplyVerdict(got) # "need" => Deserved = ReplyVerdict(got)
  BY <1>1, <1>2, <1>3, ReplyStable
<1>5. ~UnknownAtyp(got) =>
        /\ Len(got) = ReplySize(got) => Arrived(got) /\ Len(got) = Size(got)
        /\ Len(got) < ReplySize(got) => ~Arrived(got)
  BY <1>1, ReplySizeFacts
<1>6. ~UnknownAtyp(got) /\ ~Arrived(got) => ReplyVerdict(got) = "need"
  BY <1>1, ReplyCases
<1> QED BY <1>1, <1>2, <1>3, <1>4, <1>5, <1>6

LEMMA ReplyReadKeeps ==
  ASSUME ClientInv, ReplyRead
  PROVE  ClientInv'
<1>1. /\ pc = "reply" /\ Whole /\ HasReply(got) /\ ~AddressRaises(got, 4)
      /\ Conclude(parse_reply(got)) /\ UNCHANGED session /\ leftover' = leftover
  BY DEF ReplyRead, Parsed
<1>2. ~UnknownAtyp(got) /\ Len(got) = ReplySize(got)
  BY <1>1 DEF Whole, Refusable, Wanted
<1>3. /\ staged /\ got \in Bytes /\ inflight \in Bytes /\ got \o inflight = ReplyPart
      /\ Arrived(got) /\ Len(got) = Size(got)
      /\ ReplyVerdict(got) # "need" => Deserved = ReplyVerdict(got)
  BY <1>1, <1>2, ReplyFacts
<1>4. got[1] = Ver /\ parse_reply(got) \in Reply
  BY <1>1, <1>3, SizedReply
<1>5. ReplyVerdict(got) = "reply"
  BY <1>1, <1>3, <1>4, ReplyCases
<1>6. Deserved = "reply"
  BY <1>3, <1>5
<1>7. Size(ReplyPart) = Size(got) /\ parse_reply(ReplyPart) = parse_reply(got)
  <2>1. /\ Size(got \o inflight) = Size(got)
        /\ parse_reply(got \o inflight) = parse_reply(got)
    BY <1>3, ArrivedStable
  <2> QED BY <1>3, <2>1
<1>8. Drop(ReplyPart, Size(ReplyPart)) = inflight
  BY <1>3, <1>7, Behind
<1>9. leftover' \in Bytes /\ leftover' \o inflight = inflight
  <2>1. leftover = <<>>
    BY <1>3 DEF ClientInv, Stages
  <2>2. <<>> \o inflight = inflight /\ <<>> \in Bytes
    BY <1>3, ConcatEmptySeq DEF Bytes
  <2> QED BY <1>1, <2>1, <2>2
<1> QED BY <1>1, <1>4, <1>6, <1>7, <1>8, <1>9, Concludes

LEMMA ReplyRefusedKeeps ==
  ASSUME ClientInv, ReplyRefused
  PROVE  ClientInv'
<1>1. Fail("refused") /\ UNCHANGED session /\ pc = "reply"
  BY DEF ReplyRefused, Refusable
<1>2. /\ got \in Bytes
      /\ ReplyVerdict(got) # "need" => Deserved = ReplyVerdict(got)
  BY <1>1, ReplyFacts
<1>3. CASE UnknownAtyp(got)
  <2>1. ReplyVerdict(got) = "atyp"
    BY <1>2, <1>3, ReplyCases
  <2>2. Deserved \notin {"need", "reply"}
    BY <1>2, <2>1
  <2> QED BY <1>1, <2>2, Ends
<1>4. CASE ~UnknownAtyp(got)
  <2>1. Whole /\ ~Parsed
    BY <1>4 DEF ReplyRefused, Refusable
  <2>2. Len(got) = ReplySize(got)
    BY <1>1, <2>1 DEF Whole, Wanted
  <2>3. Arrived(got)
    BY <1>1, <1>4, <2>2, ReplyFacts
  <2>4. got[1] # Ver \/ (got[1] = Ver /\ AddressRaises(got, 4))
    BY <1>2, <2>1, <2>3, SizedReply DEF Parsed
  <2>5. ReplyVerdict(got) \in {"malformed", "undecodable"}
    BY <1>2, <2>3, <2>4, ReplyCases
  <2>6. Deserved \notin {"need", "reply"}
    BY <1>2, <2>5
  <2> QED BY <1>1, <2>6, Ends
<1> QED BY <1>3, <1>4

-----------------------------------------------------------------------------
(* What ends the wait. *)

\* A client that waits for bytes of a proxy that sends no more was owed some.
LEMMA WaitsForMore ==
  ASSUME ClientInv, Waiting, inflight = <<>>
  PROVE  Deserved = "need"
<1>1. CASE Hungry
  <2>1. ~staged /\ SessionInv /\ ~feeding /\ result = "need"
    BY <1>1, OptimisticOnly DEF Hungry
  <2>2. Verdict(Taken) = "need" /\ Taken \in Bytes /\ Taken \o <<>> = stream
    BY <2>1 DEF SessionInv, Settled, Position
  <2>3. Taken \o <<>> = Taken
    BY <2>2, ConcatEmptySeq DEF Bytes
  <2>4. Verdict(stream) = "need"
    BY <2>2, <2>3
  <2> QED BY <2>1, <2>4 DEF Deserved
<1>2. CASE Short
  <2>1. pc \in {"method", "status", "reply"} /\ ~Refusable /\ Len(got) < Wanted
    BY <1>2 DEF Short, Reading
  <2>2. /\ staged /\ Reads /\ got \in Bytes /\ stream \in Bytes /\ Len(got) \in Nat
        /\ got \o <<>> = got
    BY <2>1, StagedOnly, ConcatEmptySeq DEF Bytes
  <2>3. CASE pc = "method"
    <3>1. got = stream /\ Len(stream) < 2
      <4>1. got \o <<>> = stream
        BY <2>2, <2>3 DEF Reads
      <4> QED BY <2>1, <2>2, <2>3, <4>1 DEF Wanted
    <3>2. PairVerdict(stream, Ver, Method.NO_AUTH, "other") = "need"
      BY <2>2, <3>1, PairCases, Zenon
    <3>3. StagedVerdict(stream) = "need"
      BY <3>2 DEF StagedVerdict
    <3> QED BY <2>2, <3>3 DEF Deserved
  <2>4. CASE pc = "status"
    <3>1. got = Drop(stream, 2) /\ Len(Drop(stream, 2)) < 2
      <4>1. got \o <<>> = Drop(stream, 2)
        BY <2>2, <2>4 DEF Reads
      <4> QED BY <2>1, <2>2, <2>4, <4>1 DEF Wanted
    <3>2. PairVerdict(Drop(stream, 2), AuthVer, 0, "auth") = "need"
      <4>1. Drop(stream, 2) \in Bytes
        BY <2>2, DropType
      <4> QED BY <3>1, <4>1, PairCases, Zenon
    <3>3. /\ PairVerdict(stream, Ver, Method.NO_AUTH, "other") = "other"
          /\ stream[2] = Method.USERPASS /\ auth
      BY <2>2, <2>4 DEF Reads
    <3>4. StagedVerdict(stream) = "need"
      BY <2>2, <3>2, <3>3, StagedLogin
    <3> QED BY <2>2, <3>4 DEF Deserved
  <2>5. CASE pc = "reply"
    <3>1. ~UnknownAtyp(got) /\ Len(got) < ReplySize(got)
      BY <2>1, <2>5 DEF Refusable, Wanted
    <3>2. /\ ReplyVerdict(got) = "need" /\ got \o inflight = ReplyPart
          /\ Deserved = ReplyVerdict(ReplyPart)
      BY <2>5, <3>1, ReplyFacts
    <3> QED BY <2>2, <3>2
  <2> QED BY <2>1, <2>3, <2>4, <2>5
<1> QED BY <1>1, <1>2 DEF Waiting

LEMMA WaitEnds ==
  ASSUME ClientInv, ProxyGone \/ TimesOut \/ Interrupt
  PROVE  ClientInv'
<1>1. Waiting => pc # "idle"
  BY DEF Waiting, Hungry, Short, Reading
<1>2. CASE ProxyGone
  <2>1. Waiting /\ inflight = <<>> /\ Fail("eof") /\ UNCHANGED session
    BY <1>2 DEF ProxyGone
  <2>2. Deserved = "need"
    BY <2>1, WaitsForMore
  <2> QED BY <1>1, <2>1, <2>2, Ends
<1>3. CASE TimesOut
  <2>1. Waiting /\ Fail("timeout") /\ UNCHANGED session
    BY <1>3 DEF TimesOut
  <2> QED BY <1>1, <2>1, Ends
<1>4. CASE Interrupt
  <2>1. pc # "idle" /\ Fail("interrupted") /\ UNCHANGED session
    BY <1>4 DEF Interrupt
  <2> QED BY <2>1, Ends
<1> QED BY <1>2, <1>3, <1>4

\* Nothing of the client's or the session's changes.
LEMMA ClockKeeps ==
  ASSUME ClientInv, gone' \in BOOLEAN, expired' \in BOOLEAN,
         UNCHANGED <<session, object, staged, pc, got, sent, conn, outcome, connects>>
  PROVE  ClientInv'
<1> USE DEF object
<1>1. UNCHANGED <<stream, inflight, auth, staged>> /\ ReplyPart' = ReplyPart
      /\ Deserved' = Deserved
  BY SameDeserved DEF session
<1>2. TypeOK'
  BY DEF session, ClientInv, ClientTypeOK, TypeOK
<1>3. ClientTypeOK'
  BY <1>2 DEF ClientInv, ClientTypeOK
<1>4. Stages' /\ Holds'
  BY DEF ClientInv, Stages, Holds
<1>5. ~staged' => SessionInv'
  BY SessionSame DEF ClientInv
<1>6. staged' => Reads'
  <2>1. StagedVerdict(stream)' = StagedVerdict(stream) /\ Through(stream)' = Through(stream)
    BY <1>1 DEF StagedVerdict, Through
  <2>2. UnknownAtyp(got)' = UnknownAtyp(got) /\ ReplySize(got)' = ReplySize(got)
    OBVIOUS
  <2> QED BY <1>1, <2>1, <2>2 DEF ClientInv, Reads
<1>7. NoSocketLeaks' /\ TunnelHandedOver'
  BY <1>1 DEF ClientInv, NoSocketLeaks, TunnelHandedOver
<1>8. OutcomeDeserved'
  BY <1>1 DEF ClientInv, OutcomeDeserved
<1> QED BY <1>3, <1>4, <1>5, <1>6, <1>7, <1>8 DEF ClientInv

LEMMA ClientNextKeeps == ClientInv /\ [ClientNext]_clientVars => ClientInv'
<1> SUFFICES ASSUME ClientInv, [ClientNext]_clientVars PROVE ClientInv'
  OBVIOUS
<1>1. CASE Open
  BY <1>1, OpenKeeps
<1>2. CASE close
  BY <1>2, CloseKeeps
<1>3. CASE OptimisticStep
  BY <1>3, SendPipelineKeeps, FeedingKeeps, FeedRepliedKeeps, FeedRaisedKeeps
     DEF OptimisticStep
<1>4. CASE StagedStep
  BY <1>4, SendGreetingKeeps, RecvKeeps, ChosenUserpassKeeps, ChosenNoAuthKeeps,
     ChosenOtherKeeps, StatusKeeps, ReplyReadKeeps, ReplyRefusedKeeps
     DEF StagedStep
<1>5. CASE ProxyGone \/ TimesOut \/ Interrupt
  BY <1>5, WaitEnds
<1>6. CASE ProxyCloses
  <2>1. gone' \in BOOLEAN /\ expired' \in BOOLEAN
    BY <1>6 DEF ProxyCloses, ClientInv, ClientTypeOK
  <2> QED BY <1>6, <2>1, ClockKeeps DEF ProxyCloses, object
<1>7. CASE Expire
  <2>1. gone' \in BOOLEAN /\ expired' \in BOOLEAN
    BY <1>7 DEF Expire, ClientInv, ClientTypeOK
  <2> QED BY <1>7, <2>1, ClockKeeps DEF Expire, object
<1>8. CASE UNCHANGED clientVars
  <2>1. gone' \in BOOLEAN /\ expired' \in BOOLEAN
    BY <1>8 DEF clientVars, clock, ClientInv, ClientTypeOK
  <2> QED BY <1>8, <2>1, ClockKeeps DEF clientVars, object
<1> QED BY <1>1, <1>2, <1>3, <1>4, <1>5, <1>6, <1>7, <1>8 DEF ClientNext, connect

\* Every field of a client, staged or optimistic, keeps its values.
THEOREM ClientTypes == ClientSpec => []ClientTypeOK
<1>1. ClientInit => ClientInv
  BY ClientStart
<1>2. ClientInv /\ [ClientNext]_clientVars => ClientInv'
  BY ClientNextKeeps
<1>3. ClientInv => ClientTypeOK
  BY DEF ClientInv
<1> QED BY <1>1, <1>2, <1>3, PTL DEF ClientSpec

\* Between two calls, the open socket is the object's or there is none: every way out
\* of connect() but success closes it.
THEOREM SocketsAccountedFor == ClientSpec => []NoSocketLeaks
<1>1. ClientInit => ClientInv
  BY ClientStart
<1>2. ClientInv /\ [ClientNext]_clientVars => ClientInv'
  BY ClientNextKeeps
<1>3. ClientInv => NoSocketLeaks
  BY DEF ClientInv
<1> QED BY <1>1, <1>2, <1>3, PTL DEF ClientSpec

\* A connected client hands over the tunnel from its first byte.
THEOREM TunnelFromItsFirstByte == ClientSpec => []TunnelHandedOver
<1>1. ClientInit => ClientInv
  BY ClientStart
<1>2. ClientInv /\ [ClientNext]_clientVars => ClientInv'
  BY ClientNextKeeps
<1>3. ClientInv => TunnelHandedOver
  BY DEF ClientInv
<1> QED BY <1>1, <1>2, <1>3, PTL DEF ClientSpec

\* How connect() ends is the proxy's answer, read as a whole.
THEOREM ProxyDecides == ClientSpec => []OutcomeDeserved
<1>1. ClientInit => ClientInv
  BY ClientStart
<1>2. ClientInv /\ [ClientNext]_clientVars => ClientInv'
  BY ClientNextKeeps
<1>3. ClientInv => OutcomeDeserved
  BY DEF ClientInv
<1> QED BY <1>1, <1>2, <1>3, PTL DEF ClientSpec

-----------------------------------------------------------------------------
(* A proxy that speaks while it is listened to: what arrives during a call *)
(* is as good as what was there when it began.                             *)

\* The reply's part of a stream, for a staged client.
Rest(s) == IF s[2] = Method.USERPASS THEN Drop(s, 4) ELSE Drop(s, 2)

LEMMA ThroughMeans ==
  ASSUME NEW s \in Bytes, Through(s)
  PROVE  /\ Len(s) >= 2 /\ (s[2] = Method.USERPASS => Len(s) >= 4)
         /\ StagedVerdict(s) = ReplyVerdict(Rest(s))
<1> DEFINE chosen == PairVerdict(s, Ver, Method.NO_AUTH, "other")
           login  == PairVerdict(Drop(s, 2), AuthVer, 0, "auth")
<1>1. chosen # "need"
  BY DEF Through
<1>2. Len(s) >= 2
  BY <1>1, PairTwo
<1>3. Drop(s, 2) \in Bytes /\ Len(Drop(s, 2)) = Len(s) - 2
  BY <1>2, DropType DEF Bytes
<1>4. login = "go on" => Len(s) >= 4
  <2>1. SUFFICES ASSUME login = "go on" PROVE Len(s) >= 4
    OBVIOUS
  <2>2. login # "need"
    BY <2>1
  <2>3. Len(Drop(s, 2)) >= 2
    BY <1>3, <2>2, PairTwo
  <2> QED BY <1>3, <2>3 DEF Bytes
<1>5. CASE chosen = "go on"
  <2>1. s[1] = Ver /\ s[2] = Method.NO_AUTH
    <3>3. ~(Len(s) < 2)
      BY <1>2, LenProperties DEF Bytes
    <3>1. s[1] # Ver => chosen = "malformed"
      BY <1>2, <3>3, Zenon DEF PairVerdict
    <3>2. s[1] = Ver /\ s[2] # Method.NO_AUTH => chosen = "other"
      BY <1>2, StagedChosen
    <3> HIDE DEF chosen
    <3> QED BY <1>5, <3>1, <3>2
  <2>2. StagedVerdict(s) = ReplyVerdict(Drop(s, 2))
    BY <1>2, <2>1, StagedChosen
  <2>3. s[2] # Method.USERPASS
    BY <2>1 DEF Method
  <2> QED BY <1>2, <2>2, <2>3 DEF Rest
<1>6. CASE chosen = "other" /\ s[2] = Method.USERPASS /\ auth /\ login = "go on"
  <2>1. StagedVerdict(s) = ReplyVerdict(Drop(s, 4))
    BY <1>6, StagedLogin
  <2> QED BY <1>2, <1>4, <1>6, <2>1 DEF Rest
<1> QED BY <1>5, <1>6 DEF Through

LEMMA ThroughStable ==
  ASSUME NEW s \in Bytes, Through(s), NEW d \in Bytes
  PROVE  Through(s \o d) /\ Rest(s \o d) = Rest(s) \o d
<1>1. /\ Len(s) >= 2 /\ (s[2] = Method.USERPASS => Len(s) >= 4)
      /\ Len(s) \in Nat /\ 2 \in 0 .. Len(s) /\ 1 <= 2
  BY ThroughMeans DEF Bytes
<1>2. (s \o d)[2] = s[2]
  BY <1>1, PrefixByte
<1>3. Drop(s \o d, 2) = Drop(s, 2) \o d
  BY <1>1, DropOfConcat
<1>4. s[2] = Method.USERPASS => Drop(s \o d, 4) = Drop(s, 4) \o d
  <2>1. SUFFICES ASSUME s[2] = Method.USERPASS PROVE Drop(s \o d, 4) = Drop(s, 4) \o d
    OBVIOUS
  <2>2. 4 \in 0 .. Len(s)
    BY <1>1, <2>1
  <2> QED BY <2>2, DropOfConcat
<1>5. PairVerdict(s \o d, Ver, Method.NO_AUTH, "other")
        = PairVerdict(s, Ver, Method.NO_AUTH, "other")
  BY <1>1, PairStable
<1>6. PairVerdict(Drop(s, 2), AuthVer, 0, "auth") = "go on"
        => PairVerdict(Drop(s \o d, 2), AuthVer, 0, "auth") = "go on"
  <2> DEFINE rest == Drop(s, 2)
  <2>1. SUFFICES ASSUME PairVerdict(rest, AuthVer, 0, "auth") = "go on"
                 PROVE  PairVerdict(rest \o d, AuthVer, 0, "auth") = "go on"
    BY <1>3
  <2>2. rest \in Bytes
    BY DropType
  <2> HIDE DEF rest
  <2>3. PairVerdict(rest, AuthVer, 0, "auth") # "need"
    BY <2>1
  <2>4. Len(rest) >= 2
    BY <2>2, <2>3, PairTwo
  <2>5. PairVerdict(rest \o d, AuthVer, 0, "auth") = PairVerdict(rest, AuthVer, 0, "auth")
    BY <2>2, <2>4, PairStable
  <2> QED BY <2>1, <2>5
<1>7. Through(s \o d)
  BY <1>2, <1>5, <1>6 DEF Through
<1> QED BY <1>2, <1>3, <1>4, <1>7 DEF Rest

\* The proxy sends more.
ProxySays(data) ==
  /\ stream' = stream \o data
  /\ inflight' = inflight \o data
  /\ UNCHANGED <<auth, buf, state, reply_, feeding, result>>
  /\ UNCHANGED <<object, clock, staged, pc, got, sent, conn, outcome, connects>>

LEMMA SessionListens ==
  ASSUME SessionInv, NEW data \in Bytes, ProxySays(data)
  PROVE  SessionInv'
<1> USE DEF ProxySays
<1>1. /\ TypeOK /\ stream \in Bytes /\ inflight \in Bytes /\ Taken \in Bytes
      /\ Taken \o inflight = stream
  BY DEF SessionInv, Position, TypeOK
<1>2. TypeOK'
  <2>1. stream' \in Bytes /\ inflight' \in Bytes
    BY <1>1, ConcatType
  <2> QED BY <1>1, <2>1 DEF TypeOK
<1>3. Taken \o inflight' = stream'
  BY <1>1, BytesAssociative
<1>4. Taken' = Taken
  <2> DEFINE a == Taken
  <2>1. a \in Bytes /\ a \o inflight' = stream' /\ inflight' \in Bytes
    BY <1>1, <1>2, <1>3 DEF TypeOK
  <2> HIDE DEF a
  <2>2. SubSeq(a \o inflight', 1, Len(a \o inflight') - Len(inflight')) = a
    BY <2>1, Before
  <2>3. Taken' = SubSeq(stream', 1, Len(stream') - Len(inflight'))
    BY DEF Taken
  <2> QED BY <2>1, <2>2, <2>3 DEF a
<1>5. Position'
  BY <1>1, <1>2, <1>3, <1>4, SameMeaning DEF SessionInv, Position
<1>6. Settled'
  BY <1>4, SameMeaning DEF SessionInv, Settled
<1> QED BY <1>5, <1>6 DEF SessionInv

LEMMA ReaderListens ==
  ASSUME TypeOK, staged, Reads, got \in Bytes, NEW data \in Bytes, ProxySays(data)
  PROVE  Reads'
<1> USE DEF ProxySays
<1>1. /\ stream \in Bytes /\ inflight \in Bytes
      /\ pc' = pc /\ got' = got /\ auth' = auth /\ staged' = staged
      /\ stream' = stream \o data /\ inflight' = inflight \o data
  BY DEF TypeOK
<1>2. got \o (inflight \o data) = (got \o inflight) \o data
  BY <1>1, BytesAssociative
<1>3. pc = "greeting" => Reads'
  BY <1>1 DEF Reads
<1>4. pc = "method" => Reads'
  BY <1>1, <1>2 DEF Reads
<1>5. CASE pc = "status"
  <2>1. /\ PairVerdict(stream, Ver, Method.NO_AUTH, "other") = "other"
        /\ stream[2] = Method.USERPASS /\ auth
        /\ got \o inflight = Drop(stream, 2) /\ Len(got) <= 2
    BY <1>5 DEF Reads
  <2>2. PairVerdict(stream, Ver, Method.NO_AUTH, "other") # "need"
    BY <2>1
  <2>3. Len(stream) >= 2 /\ Len(stream) \in Nat
    BY <1>1, <2>2, PairTwo DEF Bytes
  <2>4. 2 \in 0 .. Len(stream) /\ 2 \in Nat /\ 1 <= 2 /\ 2 <= Len(stream)
    BY <2>3
  <2>5. stream'[2] = stream[2] /\ Drop(stream', 2) = Drop(stream, 2) \o data
    <3> HIDE DEF ProxySays
    <3>1. stream' = stream \o data /\ stream \in Bytes /\ data \in Bytes
      BY <1>1, Zenon
    <3>2. (stream \o data)[2] = stream[2]
      BY <2>4, <3>1, PrefixByte
    <3>3. Drop(stream \o data, 2) = Drop(stream, 2) \o data
      BY <2>4, <3>1, DropOfConcat
    <3> QED
      BY <3>1, <3>2, <3>3, Zenon
  <2>6. PairVerdict(stream', Ver, Method.NO_AUTH, "other") = "other"
    <3>1. PairVerdict(stream \o data, Ver, Method.NO_AUTH, "other")
            = PairVerdict(stream, Ver, Method.NO_AUTH, "other")
      BY <1>1, <2>3, PairStable
    <3> QED BY <1>1, <2>1, <3>1
  <2> QED BY <1>1, <1>2, <1>5, <2>1, <2>5, <2>6 DEF Reads
<1>6. CASE pc = "reply"
  <2>1. /\ Through(stream) /\ got \o inflight = ReplyPart
        /\ ~UnknownAtyp(got) => Len(got) <= ReplySize(got)
    BY <1>6 DEF Reads
  <2>2. ReplyPart = Rest(stream) /\ ReplyPart' = Rest(stream')
    <3> HIDE DEF ProxySays
    <3>1. staged /\ staged'
      BY <1>1
    <3> QED BY <3>1, Zenon DEF ReplyPart, Rest
  <2>3. Through(stream \o data) /\ Rest(stream \o data) = Rest(stream) \o data
    BY <1>1, <2>1, ThroughStable
  <2>4. Through(stream)' /\ StagedVerdict(stream)' = StagedVerdict(stream')
    <3>1. Through(stream)' <=> Through(stream')
      BY <1>1 DEF Through
    <3>2. StagedVerdict(stream)' = StagedVerdict(stream')
      BY <1>1 DEF StagedVerdict
    <3> QED BY <1>1, <2>3, <3>1, <3>2
  <2>5. StagedVerdict(stream') = ReplyVerdict(Rest(stream'))
    <3>1. stream \o data \in Bytes
      BY <1>1, ConcatType
    <3> QED BY <1>1, <2>3, <3>1, ThroughMeans
  <2>6. got' \o inflight' = ReplyPart'
    BY <1>1, <1>2, <2>1, <2>2, <2>3
  <2>7. UnknownAtyp(got)' = UnknownAtyp(got) /\ ReplySize(got)' = ReplySize(got)
    BY <1>1
  <2> QED BY <1>1, <1>6, <2>1, <2>2, <2>4, <2>5, <2>6, <2>7 DEF Reads
<1> QED
  <2>1. pc \notin {"greeting", "method", "status", "reply"} => Reads'
    BY <1>1 DEF Reads
  <2> QED BY <1>3, <1>4, <1>5, <1>6, <2>1

\* While a call is under way, nothing it relies on is taken back.
LEMMA ClientListens ==
  ASSUME ClientInv, pc # "idle", NEW data \in Bytes, ProxySays(data)
  PROVE  ClientInv'
<1>1. /\ ClientTypeOK /\ TypeOK /\ got \in Bytes /\ sent \in Bytes
      /\ gone \in BOOLEAN /\ expired \in BOOLEAN
      /\ pc' = pc /\ got' = got /\ sent' = sent /\ gone' = gone /\ expired' = expired
      /\ UNCHANGED <<auth, staged, conn, outcome, connects, sock, bound, leftover>>
  BY DEF ClientInv, ClientTypeOK, ProxySays, object, clock
<1>2. TypeOK'
  <2>1. stream \o data \in Bytes /\ inflight \o data \in Bytes
    BY <1>1, ConcatType DEF TypeOK
  <2> QED BY <1>1, <2>1 DEF TypeOK, ProxySays
<1>3. staged => pc' \in {"greeting", "method", "status", "reply"} /\ Reads'
  BY <1>1, ReaderListens DEF ClientInv, Stages
<1>4. ~staged => pc' \in {"pipeline", "feed"} /\ SessionInv'
  BY <1>1, SessionListens DEF ClientInv, Stages
<1> QED BY <1>1, <1>2, <1>3, <1>4, Underway

\* Which steps end a call, and how.
LEMMA LastSteps ==
  ASSUME pc # "idle", connect, pc' = "idle"
  PROVE  /\ UNCHANGED <<session, staged, clock, connects, got, sent>>
         /\ \/ \E r : Conclude(r)
            \/ Fail("refused")
            \/ Fail("eof") /\ gone
            \/ Fail("timeout") /\ expired
<1>1. CASE OptimisticStep
  <2>1. ~SendPipeline
    BY DEF SendPipeline, Say
  <2>2. ~Feed /\ ~FeedTurns
    BY DEF Feed, FeedTurns
  <2>3. CASE FeedReplied
    BY <2>3 DEF FeedReplied, Conclude
  <2>4. CASE FeedRaised
    BY <2>4 DEF FeedRaised, Fail
  <2> QED BY <1>1, <2>1, <2>2, <2>3, <2>4 DEF OptimisticStep
<1>2. CASE StagedStep
  <2>1. ~SendGreeting /\ ~Recv
    BY DEF SendGreeting, Recv, Say
  <2>2. ~ChosenUserpass /\ ~ChosenNoAuth /\ ~StatusAccepted
    BY DEF ChosenUserpass, ChosenNoAuth, StatusAccepted, Say
  <2>3. CASE ChosenOther \/ StatusRefused \/ ReplyRefused
    BY <2>3 DEF ChosenOther, StatusRefused, ReplyRefused, Fail
  <2>4. CASE ReplyRead
    BY <2>4 DEF ReplyRead, Conclude
  <2> QED BY <1>2, <2>1, <2>2, <2>3, <2>4 DEF StagedStep
<1>3. CASE ProxyGone
  BY <1>3 DEF ProxyGone, Fail
<1>4. CASE TimesOut
  BY <1>4 DEF TimesOut, Fail
<1> QED BY <1>1, <1>2, <1>3, <1>4 DEF connect

\* What a call that has ended owes its proxy.
LEMMA CallEnds ==
  ASSUME ClientInv, pc # "idle", connect, pc' = "idle"
  PROVE  /\ UNCHANGED <<stream, inflight, auth, connects, sent, gone, expired>>
         /\ \/ /\ outcome' = "connected" /\ sock' = connects
               /\ Deserved = "reply" /\ parse_reply(ReplyPart).rep = Rep.SUCCEEDED
               /\ bound' = parse_reply(ReplyPart).bound
               /\ leftover' \o inflight = Drop(ReplyPart, Size(ReplyPart))
            \/ /\ outcome' = "refused" /\ sock' = None
               /\ Deserved # "need"
               /\ Deserved = "reply" => parse_reply(ReplyPart).rep # Rep.SUCCEEDED
            \/ outcome' = "eof" /\ sock' = None /\ Deserved = "need" /\ gone
            \/ outcome' = "timeout" /\ sock' = None /\ expired
<1>1. ClientInv'
  BY ClientNextKeeps DEF ClientNext
<1>2. /\ UNCHANGED <<session, staged, clock, connects, got, sent>>
      /\ \/ \E r : Conclude(r)
         \/ Fail("refused")
         \/ Fail("eof") /\ gone
         \/ Fail("timeout") /\ expired
  BY LastSteps
<1>3. UNCHANGED <<stream, inflight, auth, staged, connects, sent, gone, expired>>
  BY <1>2 DEF session, clock
<1>4. ReplyPart' = ReplyPart /\ Deserved' = Deserved
  BY <1>3, SameDeserved
<1>5. sock = None /\ connects \in Nat /\ connects # None
  BY ConnectAssumption DEF ClientInv, ClientTypeOK, Holds
<1>6. OutcomeDeserved' /\ TunnelHandedOver'
  BY <1>1 DEF ClientInv
<1>7. CASE \E r : Conclude(r) /\ r.rep = Rep.SUCCEEDED
  <2>1. outcome' = "connected" /\ sock' = connects /\ sock' # None
    BY <1>5, <1>7 DEF Conclude
  <2>2. Deserved = "reply" /\ parse_reply(ReplyPart).rep = Rep.SUCCEEDED
    BY <1>4, <1>6, <2>1 DEF OutcomeDeserved
  <2>3. /\ leftover' \o inflight' = Drop(ReplyPart', Size(ReplyPart'))
        /\ bound' = parse_reply(ReplyPart').bound
    BY <1>6, <2>1 DEF TunnelHandedOver
  <2> QED BY <1>3, <1>4, <2>1, <2>2, <2>3
<1>8. CASE Fail("refused") \/ \E r : Conclude(r) /\ r.rep # Rep.SUCCEEDED
  <2>1. outcome' = "refused" /\ sock' = None
    BY <1>5, <1>8 DEF Conclude, Fail, object
  <2>2. /\ Deserved # "need"
        /\ Deserved = "reply" => parse_reply(ReplyPart).rep # Rep.SUCCEEDED
    BY <1>4, <1>6, <2>1 DEF OutcomeDeserved
  <2> QED BY <1>3, <2>1, <2>2
<1>9. CASE Fail("eof") /\ gone
  <2>1. outcome' = "eof" /\ sock' = None
    BY <1>5, <1>9 DEF Fail, object
  <2> QED BY <1>3, <1>4, <1>6, <1>9, <2>1 DEF OutcomeDeserved
<1>10. CASE Fail("timeout") /\ expired
  <2>1. outcome' = "timeout" /\ sock' = None
    BY <1>5, <1>10 DEF Fail, object
  <2> QED BY <1>3, <1>10, <2>1
<1> QED BY <1>2, <1>7, <1>8, <1>9, <1>10

-----------------------------------------------------------------------------
(* What a client makes of the answers of a server that speaks SOCKS5.      *)

LEMMA TwoBytes ==
  ASSUME NEW x \in Byte, NEW y \in Byte, NEW r \in Bytes
  PROVE  LET s == <<x, y>> \o r
         IN  /\ s \in Bytes /\ Len(s) >= 2 /\ s[1] = x /\ s[2] = y
             /\ Drop(s, 2) = r
<1> DEFINE p == <<x, y>>
<1>1. p \in Bytes /\ Len(p) = 2 /\ p[1] = x /\ p[2] = y
  BY DEF Bytes
<1> HIDE DEF p
<1>2. p \o r \in Bytes /\ Len(p \o r) >= 2
  <2>1. p \o r \in Bytes /\ Len(p \o r) = Len(p) + Len(r) /\ Len(r) \in Nat
    BY <1>1, ConcatType
  <2> QED BY <1>1, <2>1
<1>3. (p \o r)[1] = x /\ (p \o r)[2] = y
  <2>1. 1 \in Nat /\ 2 \in Nat /\ 1 <= 1 /\ 1 <= 2 /\ 1 <= Len(p) /\ 2 <= Len(p)
    BY <1>1
  <2>2. (p \o r)[1] = p[1]
    BY <1>1, <2>1, PrefixByte
  <2>3. (p \o r)[2] = p[2]
    BY <1>1, <2>1, PrefixByte
  <2> QED BY <1>1, <2>2, <2>3
<1>4. Drop(p \o r, 2) = r
  BY <1>1, DropPrefix
<1> QED BY <1>2, <1>3, <1>4 DEF p

LEMMA PairOfNothing ==
  ASSUME NEW version, NEW wanted, NEW error
  PROVE  PairVerdict(<<>>, version, wanted, error) = "need"
<1>1. Len(<<>>) < 2 /\ ~(Len(<<>>) >= 2)
  OBVIOUS
<1> QED BY <1>1, Zenon DEF PairVerdict

LEMMA NothingMeans ==
  ASSUME stream = <<>>
  PROVE  Deserved = "need"
<1>1. Verdict(<<>>) = "need"
  BY VerdictOfNothing
<1>2. StagedVerdict(<<>>) = "need"
  <2>1. PairVerdict(<<>>, Ver, Method.NO_AUTH, "other") = "need"
    BY PairOfNothing
  <2> QED BY <2>1 DEF StagedVerdict
<1> QED BY <1>1, <1>2 DEF Deserved

\* The method that the server chose, or that it has none.
LEMMA MethodMeans ==
  ASSUME auth \in BOOLEAN, NEW m \in Byte, NEW r \in Bytes,
         stream = method_selection(m) \o r
  PROVE  /\ stream \in Bytes /\ Len(stream) >= 2 /\ stream[1] = Ver /\ stream[2] = m
         /\ Drop(stream, 2) = r
         /\ ~staged /\ m # method => Deserved = "method"
         /\ staged /\ m = Method.NO_ACCEPTABLE => Deserved = "method"
<1>1. Ver \in Byte
  BY ByteFacts DEF Ver
<1>2. /\ stream \in Bytes /\ Len(stream) >= 2 /\ stream[1] = Ver /\ stream[2] = m
      /\ Drop(stream, 2) = r
  BY <1>1, TwoBytes DEF method_selection
<1> DEFINE s == stream
<1> HIDE DEF s
<1>3. s \in Bytes /\ Len(s) >= 2 /\ s[1] = Ver /\ s[2] = m
  BY <1>2 DEF s
<1>4. ~staged /\ m # method => Deserved = "method"
  <2>1. SUFFICES ASSUME ~staged, m # method PROVE Deserved = "method"
    OBVIOUS
  <2>2. PairVerdict(s, Ver, method, "method") = "method"
    <3>1. s[2] # method /\ ~(Len(s) < 2)
      BY <1>3, <2>1, LenProperties DEF Bytes
    <3> QED BY <1>3, <3>1, Zenon DEF PairVerdict
  <2>3. ~Chosen(s)
    BY <2>2 DEF Chosen
  <2>4. Verdict(s) = "method"
    BY <1>3, <2>2, <2>3, VerdictMethod
  <2> QED BY <2>1, <2>4 DEF Deserved, s
<1>5. staged /\ m = Method.NO_ACCEPTABLE => Deserved = "method"
  <2>1. SUFFICES ASSUME staged, m = Method.NO_ACCEPTABLE PROVE Deserved = "method"
    OBVIOUS
  <2>2. m # Method.NO_AUTH /\ m # Method.USERPASS
    BY <2>1, CodecAssumption DEF Method, CodecAssumption
  <2>3. StagedVerdict(s) = "method"
    BY <1>3, <2>2, StagedChosen
  <2> QED BY <2>1, <2>3 DEF Deserved, s
<1> QED BY <1>2, <1>4, <1>5

\* No authentication: the reply is next.
LEMMA PlainMeans ==
  ASSUME auth \in BOOLEAN, NEW r \in Bytes, stream = method_selection(Method.NO_AUTH) \o r,
         staged \/ ~auth
  PROVE  Deserved = ReplyVerdict(r) /\ ReplyPart = r
<1> DEFINE s == stream
<1>1. Method.NO_AUTH \in Byte /\ Method.NO_AUTH # Method.USERPASS
  BY ByteFacts DEF Method
<1>2. /\ s \in Bytes /\ Len(s) >= 2 /\ s[1] = Ver /\ s[2] = Method.NO_AUTH
      /\ Drop(s, 2) = r
  BY <1>1, MethodMeans
<1> HIDE DEF s
<1>3. CASE staged
  <2>1. StagedVerdict(s) = ReplyVerdict(Drop(s, 2))
    BY <1>2, StagedChosen
  <2>2. Deserved = StagedVerdict(s) /\ ReplyPart = Drop(s, 2)
    BY <1>1, <1>2, <1>3 DEF Deserved, ReplyPart, s
  <2> QED BY <1>2, <2>1, <2>2
<1>4. CASE ~staged
  <2>1. ~auth /\ method = Method.NO_AUTH
    BY <1>4 DEF method
  <2>2. PairVerdict(s, Ver, method, "method") = "go on"
    <3>1. s[2] = method /\ ~(Len(s) < 2)
      BY <1>2, <2>1, LenProperties DEF Bytes
    <3> QED BY <1>2, <3>1, Zenon DEF PairVerdict
  <2>3. Chosen(s) /\ Verified(s)
    BY <2>1, <2>2 DEF Chosen, Verified
  <2>4. Verdict(s) = ReplyVerdict(AfterAuth(s)) /\ AfterAuth(s) = Drop(s, 2)
    BY <1>2, <2>1, <2>3, VerdictReply DEF AfterAuth
  <2>5. Deserved = Verdict(s) /\ ReplyPart = AfterAuth(s)
    BY <1>4 DEF Deserved, ReplyPart, s
  <2> QED BY <1>2, <2>4, <2>5
<1> QED BY <1>3, <1>4

\* With credentials, what follows the method is the answer to them.
LEMMA LoginDecides ==
  ASSUME auth, NEW l \in Bytes, stream = method_selection(Method.USERPASS) \o l
  PROVE  LET login == PairVerdict(l, AuthVer, 0, "auth")
         IN  /\ login # "go on" => Deserved = login
             /\ login = "go on" => /\ Deserved = ReplyVerdict(Drop(l, 2))
                                   /\ ReplyPart = Drop(l, 2)
<1> DEFINE s == stream
           login == PairVerdict(l, AuthVer, 0, "auth")
<1>1. /\ Method.USERPASS \in Byte /\ Method.USERPASS # Method.NO_AUTH /\ auth \in BOOLEAN
      /\ method = Method.USERPASS
  BY ByteFacts DEF Method, method
<1>2. /\ s \in Bytes /\ Len(s) >= 2 /\ s[1] = Ver /\ s[2] = Method.USERPASS
      /\ Drop(s, 2) = l
  BY <1>1, MethodMeans
<1> HIDE DEF s
<1>3. Drop(s, 4) = Drop(l, 2)
  <2>1. Drop(Drop(s, 2), 2) = Drop(s, 2 + 2)
    BY <1>2, DropDrop
  <2> QED BY <1>2, <2>1
<1>4. CASE staged
  <2>1. PairVerdict(s, Ver, Method.NO_AUTH, "other") = "other"
    BY <1>1, <1>2, StagedChosen
  <2>2. /\ login = "go on" => StagedVerdict(s) = ReplyVerdict(Drop(s, 4))
        /\ login # "go on" => StagedVerdict(s) = login
    BY <1>2, <2>1, StagedLogin
  <2>3. Deserved = StagedVerdict(s) /\ ReplyPart = Drop(s, 4)
    BY <1>2, <1>4 DEF Deserved, ReplyPart, s
  <2> QED BY <1>3, <2>2, <2>3
<1>5. CASE ~staged
  <2>1. PairVerdict(s, Ver, method, "method") = "go on"
    <3>1. s[2] = method /\ ~(Len(s) < 2)
      BY <1>1, <1>2, LenProperties DEF Bytes
    <3> QED BY <1>2, <3>1, Zenon DEF PairVerdict
  <2>2. Chosen(s) /\ AfterMethod(s) = l /\ AfterAuth(s) = Drop(s, 4)
    BY <1>2, <2>1 DEF Chosen, AfterMethod, AfterAuth
  <2>3. Verified(s) <=> login = "go on"
    BY <2>2 DEF Verified
  <2>4. Deserved = Verdict(s) /\ ReplyPart = AfterAuth(s)
    BY <1>5 DEF Deserved, ReplyPart, s
  <2>5. login # "go on" => Verdict(s) = login
    BY <1>2, <2>2, <2>3, VerdictAuth
  <2>6. login = "go on" => Verdict(s) = ReplyVerdict(AfterAuth(s))
    BY <1>2, <2>2, <2>3, VerdictReply
  <2> QED BY <1>3, <2>2, <2>4, <2>5, <2>6
<1> QED BY <1>4, <1>5

LEMMA LoginMeans ==
  ASSUME auth, NEW l \in Bytes, stream = method_selection(Method.USERPASS) \o l
  PROVE  /\ l = <<>> => Deserved = "need"
         /\ \A r \in Bytes : l = auth_reply(1) \o r => Deserved = "auth"
         /\ \A r \in Bytes :
              l = auth_reply(0) \o r => Deserved = ReplyVerdict(r) /\ ReplyPart = r
<1> DEFINE login == PairVerdict(l, AuthVer, 0, "auth")
<1>1. /\ login # "go on" => Deserved = login
      /\ login = "go on" => Deserved = ReplyVerdict(Drop(l, 2)) /\ ReplyPart = Drop(l, 2)
  BY LoginDecides
<1>2. l = <<>> => login = "need"
  BY PairOfNothing
<1>3. ASSUME NEW x \in {0, 1}, NEW r \in Bytes, l = auth_reply(x) \o r
      PROVE  Drop(l, 2) = r /\ login = (IF x = 0 THEN "go on" ELSE "auth")
  <2>1. x \in Byte /\ AuthVer \in Byte
    BY ByteFacts DEF AuthVer
  <2>2. Len(l) >= 2 /\ l[1] = AuthVer /\ l[2] = x /\ Drop(l, 2) = r
    BY <1>3, <2>1, TwoBytes DEF auth_reply
  <2>3. ~(Len(l) < 2)
    BY <2>2, LenProperties DEF Bytes
  <2>4. x = 0 => login = "go on"
    BY <2>2, <2>3, Zenon DEF PairVerdict
  <2>5. x # 0 => login = "auth"
    BY <2>2, <2>3, Zenon DEF PairVerdict
  <2> QED BY <2>2, <2>4, <2>5
<1> HIDE DEF login
<1>4. ASSUME NEW r \in Bytes, l = auth_reply(1) \o r
      PROVE  Deserved = "auth"
  <2>1. login = IF 1 = 0 THEN "go on" ELSE "auth"
    BY <1>3, <1>4
  <2> QED BY <1>1, <2>1
<1>5. ASSUME NEW r \in Bytes, l = auth_reply(0) \o r
      PROVE  Deserved = ReplyVerdict(r) /\ ReplyPart = r
  <2>1. login = "go on" /\ Drop(l, 2) = r
    BY <1>3, <1>5
  <2> QED BY <1>1, <2>1
<1> QED BY <1>1, <1>2, <1>4, <1>5

LEMMA NoReplyYet == ReplyVerdict(<<>>) = "need"
<1>1. <<>> \in Bytes /\ Len(<<>>) < 4
  BY DEF Bytes
<1> QED BY <1>1, ReplyCases

\* A reply as reply() builds it is read as what it was built from, and what stands
\* behind it is left.
LEMMA ReplyMeans ==
  ASSUME NEW rep \in Byte, NEW a \in Address, Encodable(a.host), Canonical(a.host),
         a.host.raw \notin Undecodable \/ a.host.atyp # Domain, NEW t \in Bytes
  PROVE  LET r == reply(rep, a) \o t
         IN  /\ ReplyVerdict(r) = "reply"
             /\ parse_reply(r).rep = rep /\ parse_reply(r).bound = a
             /\ Drop(r, Size(r)) = t
<1> DEFINE pre == <<Ver, rep, 0>>
           b   == pre \o encode_address(a)
<1>1. pre \in Bytes /\ Len(pre) = 3 /\ pre[1] = Ver /\ pre[2] = rep
  BY ByteFacts DEF Bytes, Ver
<1> HIDE DEF pre
<1>2. /\ b \in Bytes /\ Len(b) >= 4
      /\ \A i \in 1 .. 3 : b[i] = pre[i]
      /\ HasAddress(b, 4) /\ decode_address(b, 4) = a /\ AddressEnd(b, 4) = Len(b)
      /\ b[4] = a.host.atyp
  BY <1>1, DecodeEncode
<1>3. b[1] = Ver /\ b[2] = rep
  BY <1>1, <1>2
<1> HIDE DEF b
<1>4. HasSize(b) /\ Len(b) >= Size(b) /\ Size(b) = Len(b)
  BY <1>2, SizeIsEnd
<1>5. Arrived(b)
  BY <1>4 DEF Arrived
<1>6. ~AddressRaises(b, 4)
  <2>1. SUFFICES ASSUME b[4] = Domain, RawAddress(b, 4) \in Undecodable PROVE FALSE
    BY DEF AddressRaises
  <2>2. a.host = HostText(Domain, RawAddress(b, 4)) /\ a.host.atyp = Domain
    BY <1>2, <2>1 DEF decode_address
  <2>3. CASE RawAddress(b, 4) \in DOMAIN Spelled
    <3>1. a.host \in LiteralHost
      BY <2>2, <2>3, CodecAssumption DEF HostText, CodecAssumption
    <3> QED BY <2>2, <3>1 DEF LiteralHost, IPv4, IPv6, Domain
  <2>4. CASE RawAddress(b, 4) \notin DOMAIN Spelled
    <3>1. a.host = [atyp |-> Domain, raw |-> RawAddress(b, 4)]
      BY <2>2, <2>4 DEF HostText
    <3> QED BY <2>1, <2>2, <3>1
  <2> QED BY <2>3, <2>4
<1>7. parse_reply(b).rep = rep /\ parse_reply(b).bound = a
  BY <1>2, <1>3 DEF parse_reply
<1>8. /\ Arrived(b \o t) /\ Size(b \o t) = Size(b) /\ (b \o t)[1] = b[1]
      /\ ~AddressRaises(b \o t, 4) /\ parse_reply(b \o t) = parse_reply(b)
  BY <1>2, <1>5, <1>6, ArrivedStable
<1>9. ReplyVerdict(b \o t) = "reply"
  <2>1. b \o t \in Bytes
    BY <1>2, ConcatType
  <2> QED BY <1>3, <1>8, <2>1, ReplyCases
<1>10. Drop(b \o t, Size(b \o t)) = t
  BY <1>2, <1>4, <1>8, DropPrefix
<1> QED BY <1>7, <1>8, <1>9, <1>10 DEF b, pre, reply

-----------------------------------------------------------------------------
(* What the client says. *)

\* What opens the conversation, and what may follow it.
Hello(st) == client_greeting(IF st THEN Offered ELSE <<method>>)
Tails     == {<<>>, Ask} \cup (IF auth THEN {Login, Login \o Ask} ELSE {})

\* What was sent so far of the conversation of one class or the other.
SaysRight(st) ==
  /\ sent # <<>> => \E t \in Tails : sent = Hello(st) \o t
  /\ pc \in {"pipeline", "greeting"} => sent = <<>>
  /\ pc = "method" => sent = Hello(st)
  /\ pc = "status" => sent = Hello(st) \o Login /\ auth

LEMMA SpeechTypes ==
  ASSUME auth \in BOOLEAN, NEW st \in BOOLEAN
  PROVE  /\ Hello(st) \in Bytes /\ Hello(st) \o <<>> = Hello(st)
         /\ Tails \subseteq Bytes /\ Login \in Bytes /\ Ask \in Bytes /\ <<>> \in Bytes
<1>1. Login \in Bytes /\ Ask \in Bytes /\ client_greeting(Offered) \in Bytes /\ <<>> \in Bytes
  BY MessageTypes DEF Bytes
<1>2. client_greeting(<<method>>) \in Bytes
  BY ByteFacts DEF client_greeting, method, Method, Ver, Bytes
<1>3. Login \o Ask \in Bytes
  BY <1>1, ConcatType
<1>4. Hello(st) \in Bytes
  BY <1>1, <1>2 DEF Hello
<1>5. Hello(st) \o <<>> = Hello(st)
  BY <1>4, ConcatEmptySeq DEF Bytes
<1> QED
  BY <1>1, <1>3, <1>4, <1>5 DEF Tails

\* Each step of a call adds to what was said; the words are in order.
LEMMA SpeechKept ==
  ASSUME ClientTypeOK, Stages, SaysRight(staged), connect
  PROVE  SaysRight(staged)' /\ \E data \in Bytes : sent' = sent \o data
<1>1. /\ auth \in BOOLEAN /\ staged \in BOOLEAN /\ sent \in Bytes
      /\ Hello(staged) \in Bytes /\ Hello(staged) \o <<>> = Hello(staged)
      /\ Tails \subseteq Bytes /\ Login \in Bytes /\ Ask \in Bytes /\ <<>> \in Bytes
      /\ <<>> \in Tails /\ Ask \in Tails
      /\ auth => Login \in Tails /\ Login \o Ask \in Tails
  BY SpeechTypes DEF ClientTypeOK, TypeOK, Tails
<1>2. sent \o <<>> = sent /\ \A b \in Bytes : <<>> \o b = b /\ b \o <<>> = b
  BY <1>1, ConcatEmptySeq DEF Bytes
<1>3. \/ SendPipeline \/ SendGreeting \/ ChosenUserpass \/ ChosenNoAuth \/ StatusAccepted
      \/ /\ UNCHANGED <<auth, staged, sent>>
         /\ pc' = pc \/ pc' = "idle"
  BY DEF connect, OptimisticStep, StagedStep, Feed, FeedTurns, FeedReplied, FeedRaised, Recv,
     ChosenOther, StatusRefused, ReplyRead, ReplyRefused, ProxyGone, TimesOut, Fail, Conclude,
     session, Turn, MethodShort, MethodMalformed, MethodOther, MethodChosen, AuthShort,
     AuthMalformed, AuthRefused, AuthAccepted, ReplyUnknownAtyp, ReplyShort, ReplyMalformed,
     ReplyUndecodable, ReplyParsed, Done, Leave, Finish, Advance, feed
<1>4. CASE UNCHANGED <<auth, staged, sent>> /\ (pc' = pc \/ pc' = "idle")
  <2>1. Hello(staged)' = Hello(staged) /\ Tails' = Tails /\ Login' = Login
    BY <1>4 DEF Hello, Tails, Offered, method, Login, Ask
  <2>2. sent' = sent \o <<>>
    BY <1>2, <1>4
  <2> QED
    BY <1>1, <1>4, <2>1, <2>2 DEF SaysRight
<1>5. ASSUME NEW data \in Bytes, NEW next, Say(data, next), UNCHANGED session
      PROVE  /\ sent' = sent \o data /\ pc' = next /\ auth' = auth
             /\ Hello(staged)' = Hello(staged) /\ Tails' = Tails /\ Login' = Login
  BY <1>5 DEF Say, session, Hello, Tails, Offered, method, Login, Ask
<1>6. CASE SendPipeline
  <2> DEFINE l == IF auth THEN Login ELSE <<>>
  <2>1. l \in Bytes /\ pc = "pipeline" /\ UNCHANGED session /\ sent = <<>>
          /\ Say(optimistic_pipeline, "feed") /\ optimistic_pipeline \in Bytes /\ ~staged
    BY <1>1, <1>6, MessageTypes DEF SendPipeline, SaysRight, Stages
  <2>2. optimistic_pipeline = (Hello(staged) \o l) \o Ask
    BY <2>1 DEF optimistic_pipeline, Hello
  <2>3. optimistic_pipeline = Hello(staged) \o (l \o Ask)
    <3> HIDE DEF l
    <3>1. Hello(staged) \in Bytes /\ Ask \in Bytes /\ l \in Bytes
      BY <1>1, <2>1
    <3>2. (Hello(staged) \o l) \o Ask = Hello(staged) \o (l \o Ask)
      BY <3>1, BytesAssociative
    <3> QED
      BY <2>2, <3>2, Zenon
  <2>4. l \o Ask \in Tails
    BY <1>1, <1>2
  <2>5. /\ sent' = sent \o optimistic_pipeline /\ pc' = "feed"
        /\ Hello(staged)' = Hello(staged) /\ Tails' = Tails
    BY <1>5, <2>1
  <2>6. sent' = optimistic_pipeline
    BY <1>2, <2>1, <2>5
  <2> HIDE DEF l
  <2> QED
    BY <2>1, <2>3, <2>4, <2>5, <2>6 DEF SaysRight
<1>7. CASE SendGreeting
  <2>1. UNCHANGED session /\ sent = <<>> /\ Say(client_greeting(Offered), "method")
    BY <1>7 DEF SendGreeting, SaysRight
  <2>2. staged /\ client_greeting(Offered) = Hello(staged)
    BY <1>7 DEF Stages, SendGreeting, Hello
  <2>3. /\ sent' = sent \o Hello(staged) /\ pc' = "method"
        /\ Hello(staged)' = Hello(staged) /\ Tails' = Tails
    BY <1>1, <1>5, <2>1, <2>2
  <2>4. sent' = Hello(staged)' /\ Hello(staged)' = Hello(staged) \o <<>>
    BY <1>1, <1>2, <2>1, <2>3
  <2> QED
    BY <1>1, <2>3, <2>4 DEF SaysRight
<1>8. CASE ChosenUserpass
  <2>1. UNCHANGED session /\ sent = Hello(staged) /\ Say(Login, "status") /\ auth
    BY <1>8 DEF ChosenUserpass, Chose, SaysRight
  <2>2. /\ sent' = Hello(staged)' \o Login' /\ pc' = "status" /\ auth' /\ Login' \in Tails'
        /\ sent' = sent \o Login
    BY <1>1, <1>5, <2>1
  <2> QED
    BY <1>1, <2>2 DEF SaysRight
<1>9. CASE ChosenNoAuth
  <2>1. UNCHANGED session /\ sent = Hello(staged) /\ Say(Ask, "reply")
    BY <1>9 DEF ChosenNoAuth, Chose, SaysRight
  <2>2. /\ sent' = Hello(staged)' \o Ask /\ pc' = "reply" /\ Ask \in Tails'
        /\ sent' = sent \o Ask
    BY <1>1, <1>5, <2>1
  <2> QED
    BY <1>1, <2>2 DEF SaysRight
<1>10. CASE StatusAccepted
  <2>1. UNCHANGED session /\ sent = Hello(staged) \o Login /\ Say(Ask, "reply") /\ auth
    BY <1>10 DEF StatusAccepted, SaysRight
  <2>2. /\ sent' = sent \o Ask /\ pc' = "reply" /\ Login \o Ask \in Tails'
        /\ Hello(staged)' = Hello(staged)
    BY <1>1, <1>5, <2>1
  <2>3. sent' = Hello(staged)' \o (Login \o Ask)
    <3>1. Hello(staged) \in Bytes /\ Login \in Bytes /\ Ask \in Bytes
      BY <1>1, <2>1
    <3>2. (Hello(staged) \o Login) \o Ask = Hello(staged) \o (Login \o Ask)
      BY <3>1, BytesAssociative
    <3> QED BY <2>1, <2>2, <3>2, Zenon
  <2> QED
    BY <1>1, <2>2, <2>3 DEF SaysRight
<1> QED
  BY <1>3, <1>4, <1>6, <1>7, <1>8, <1>9, <1>10

\* A call that begins has said nothing yet.
LEMMA OpenIsSilent ==
  ASSUME Open, NEW st
  PROVE  SaysRight(st)' /\ sent' = <<>>
BY DEF Open, SaysRight

\* Between two calls, what arrives is typed like everything else.
LEMMA TypeListens ==
  ASSUME ClientTypeOK, NEW data \in Bytes, ProxySays(data)
  PROVE  ClientTypeOK'
<1>1. stream' \in Bytes /\ inflight' \in Bytes
  BY ConcatType DEF ClientTypeOK, TypeOK, ProxySays
<1> QED
  BY <1>1 DEF ClientTypeOK, TypeOK, ProxySays, object, clock

LEMMA CloseType ==
  ASSUME ClientTypeOK, close
  PROVE  ClientTypeOK'
BY DEF ClientTypeOK, TypeOK, close, session, clock

\* What a step of a call leaves alone.
LEMMA CallFrame ==
  ASSUME connect
  PROVE  /\ pc # "idle"
         /\ UNCHANGED <<stream, auth, staged, connects, gone, expired>>
         /\ pc' # "idle" => UNCHANGED <<object, outcome, conn>>
BY DEF connect, OptimisticStep, StagedStep, SendPipeline, SendGreeting, ChosenUserpass,
   ChosenNoAuth, StatusAccepted, Chose, Say, Feed, FeedTurns, FeedReplied, FeedRaised, Recv,
   ChosenOther, StatusRefused, ReplyRead, ReplyRefused, Refusable, ProxyGone, TimesOut,
   Waiting, Hungry, Short, Reading, Fail, Conclude, session, object, clock, Turn, MethodShort,
   MethodMalformed, MethodOther, MethodChosen, AuthShort, AuthMalformed, AuthRefused,
   AuthAccepted, ReplyUnknownAtyp, ReplyShort, ReplyMalformed, ReplyUndecodable, ReplyParsed,
   Done, Leave, Finish, Advance, feed

=============================================================================
