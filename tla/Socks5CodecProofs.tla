-------------------------- MODULE Socks5CodecProofs --------------------------
(***************************************************************************)
(* Lemmas about the codec, for every MaxByte: what the builders and the    *)
(* parsers return, and that a parser's value is not changed by the bytes   *)
(* that follow it.                                                         *)
(***************************************************************************)
EXTENDS Socks5Codec, SequenceTheorems, TLAPS

LEMMA ByteFacts ==
  /\ MaxByte \in Nat
  /\ Byte \subseteq Nat
  /\ {0, 1, 2, 3, 4, 5, 6, 7, 8, MaxByte} \subseteq Byte
BY CodecAssumption DEF CodecAssumption, Byte

\* A byte of a buffer is one.
LEMMA ByteAt ==
  ASSUME NEW b \in Bytes, NEW i \in Nat, 1 <= i, i <= Len(b)
  PROVE  b[i] \in Byte /\ b[i] \in Nat
<1>1. i \in 1 .. Len(b)
  BY LenProperties DEF Bytes
<1> QED
  BY <1>1, ElementOfSeq, ByteFacts DEF Bytes

\* What `del buf[:n]' leaves is a byte string.
LEMMA DropType ==
  ASSUME NEW b \in Bytes, NEW n \in Nat
  PROVE  /\ Drop(b, n) \in Bytes
         /\ Len(Drop(b, n)) = IF n <= Len(b) THEN Len(b) - n ELSE 0
         /\ \A i \in 1 .. Len(b) - n : Drop(b, n)[i] = b[n + i]
<1>1. \A i \in n + 1 .. Len(b) : b[i] \in Byte
  BY ElementOfSeq DEF Bytes
<1> QED
  BY <1>1, SubSeqProperties DEF Drop, Bytes

LEMMA DropNone ==
  ASSUME NEW b \in Bytes
  PROVE  Drop(b, 0) = b
BY SubSeqFull DEF Drop, Bytes

\* The bytes taken from the wire and those left on it are the wire.
LEMMA TakeAndDrop ==
  ASSUME NEW b \in Bytes, NEW n \in 0 .. Len(b)
  PROVE  /\ SubSeq(b, 1, n) \in Bytes
         /\ SubSeq(b, 1, n) \o Drop(b, n) = b
<1>1. SubSeq(b, 1, n) \in Seq(Byte) /\ Len(SubSeq(b, 1, n)) = n
  BY SubSeqProperties, ElementOfSeq DEF Bytes
<1>2. \A i \in 1 .. n : SubSeq(b, 1, n)[i] = b[i]
  BY SubSeqProperties, ElementOfSeq DEF Bytes
<1>3. /\ Drop(b, n) \in Seq(Byte)
      /\ Len(Drop(b, n)) = Len(b) - n
      /\ \A i \in 1 .. Len(b) - n : Drop(b, n)[i] = b[n + i]
  BY DropType DEF Bytes
<1>4. /\ SubSeq(b, 1, n) \o Drop(b, n) \in Seq(Byte)
      /\ Len(SubSeq(b, 1, n) \o Drop(b, n)) = Len(b)
  BY <1>1, <1>3, ConcatProperties DEF Bytes
<1>5. \A i \in 1 .. Len(b) : (SubSeq(b, 1, n) \o Drop(b, n))[i] = b[i]
  BY <1>1, <1>2, <1>3, ConcatProperties DEF Bytes
<1> QED
  BY <1>1, <1>4, <1>5, SeqEqual DEF Bytes

\* Deleting n buffered bytes deletes them from the stream the buffer starts.
LEMMA DropOfConcat ==
  ASSUME NEW b \in Bytes, NEW c \in Bytes, NEW n \in 0 .. Len(b)
  PROVE  Drop(b, n) \o c = Drop(b \o c, n)
<1> DEFINE whole == b \o c
           rest  == Drop(b, n)
<1>1. Len(b) \in Nat /\ Len(c) \in Nat /\ n \in Nat /\ n <= Len(b)
  BY LenProperties DEF Bytes
<1>2. /\ whole \in Bytes
      /\ Len(whole) = Len(b) + Len(c)
      /\ \A i \in 1 .. Len(b) + Len(c) :
           whole[i] = IF i <= Len(b) THEN b[i] ELSE c[i - Len(b)]
  BY ConcatProperties DEF Bytes
<1>3. /\ rest \in Bytes
      /\ Len(rest) = Len(b) - n
      /\ \A i \in 1 .. Len(b) - n : rest[i] = b[n + i]
  BY <1>1, DropType
<1> HIDE DEF whole, rest
<1>4. /\ Drop(whole, n) \in Bytes
      /\ Len(Drop(whole, n)) = Len(b) + Len(c) - n
      /\ \A i \in 1 .. Len(b) + Len(c) - n : Drop(whole, n)[i] = whole[n + i]
  <2>1. Len(whole) - n = Len(b) + Len(c) - n /\ n <= Len(whole)
    BY <1>1, <1>2
  <2> QED
    BY <1>1, <1>2, <2>1, DropType
<1>5. /\ rest \o c \in Bytes
      /\ Len(rest \o c) = Len(rest) + Len(c)
      /\ \A i \in 1 .. Len(rest) + Len(c) :
           (rest \o c)[i] = IF i <= Len(rest) THEN rest[i] ELSE c[i - Len(rest)]
  BY <1>3, ConcatProperties DEF Bytes
<1>6. ASSUME NEW i \in 1 .. Len(rest \o c)
      PROVE  (rest \o c)[i] = Drop(whole, n)[i]
  <2>1. Drop(whole, n)[i] = IF n + i <= Len(b) THEN b[n + i] ELSE c[n + i - Len(b)]
    BY <1>1, <1>2, <1>3, <1>4, <1>5
  <2>2. (rest \o c)[i] = IF i <= Len(b) - n THEN rest[i] ELSE c[i - (Len(b) - n)]
    BY <1>1, <1>3, <1>5
  <2>3. i - (Len(b) - n) = n + i - Len(b)
    BY <1>1, <1>3, <1>5
  <2> QED
    BY <2>1, <2>2, <2>3, <1>1, <1>3, <1>5
<1>7. Len(rest \o c) = Len(Drop(whole, n))
  BY <1>1, <1>3, <1>4, <1>5
<1>8. rest \o c = Drop(whole, n)
  BY <1>4, <1>5, <1>6, <1>7, SeqEqual DEF Bytes
<1> QED
  BY <1>8 DEF whole, rest

-----------------------------------------------------------------------------
(* Types. *)

LEMMA PortType ==
  ASSUME NEW hi \in Byte, NEW lo \in Byte
  PROVE  hi * (MaxByte + 1) + lo \in Port
<1>1. MaxByte \in Nat /\ hi \in Nat /\ lo \in Nat /\ hi <= MaxByte /\ lo <= MaxByte
  BY ByteFacts DEF Byte
<1>2. \A m, x, y \in Nat : x <= y => x * m <= y * m
  OBVIOUS
<1>3. MaxByte * (MaxByte + 1) + MaxByte = (MaxByte + 1) * (MaxByte + 1) - 1
  BY <1>1
<1>4. hi * (MaxByte + 1) \in Nat
  BY <1>1
<1> QED
  BY <1>1, <1>2, <1>3, <1>4 DEF Port

LEMMA TwoDigits ==
  ASSUME NEW n \in Nat, NEW m \in Nat, m > 0, n < m * m
  PROVE  n \div m \in 0 .. m - 1 /\ n % m \in 0 .. m - 1
BY SMTT(30)

LEMMA PushPortType ==
  ASSUME NEW port \in Port
  PROVE  push_port(port) \in Bytes /\ Len(push_port(port)) = 2
<1>1. /\ port \in Nat
      /\ MaxByte + 1 \in Nat
      /\ MaxByte + 1 > 0
      /\ port < (MaxByte + 1) * (MaxByte + 1)
  BY ByteFacts DEF Port
<1>2. /\ port \div (MaxByte + 1) \in 0 .. (MaxByte + 1) - 1
      /\ port % (MaxByte + 1) \in 0 .. (MaxByte + 1) - 1
  BY <1>1, TwoDigits
<1>3. port \div (MaxByte + 1) \in Byte /\ port % (MaxByte + 1) \in Byte
  BY <1>1, <1>2, ByteFacts DEF Byte
<1> QED
  BY <1>3 DEF push_port, Bytes

\* A host that can be sent, at a port, is a byte string on the wire.
LEMMA EncodeAddressType ==
  ASSUME NEW a \in Address, Encodable(a.host)
  PROVE  encode_address(a) \in Bytes /\ Len(encode_address(a)) >= 3
<1>1. /\ a.host.raw \in Bytes
      /\ a.host.atyp \in Atyps
      /\ a.port \in Port
  BY DEF Address, Host
<1>2. /\ push_port(a.port) \in Bytes
      /\ Len(push_port(a.port)) = 2
  BY <1>1, PushPortType
<1>3. a.host.atyp \in Byte
  BY <1>1, ByteFacts DEF Atyps, IPv4, Domain, IPv6
<1>4. a.host.atyp = Domain => Len(a.host.raw) \in Byte
  BY <1>1, ByteFacts, LenProperties DEF Encodable, Bytes, Byte
<1> DEFINE head == IF a.host.atyp = Domain THEN <<Domain, Len(a.host.raw)>> ELSE <<a.host.atyp>>
<1>5. head \in Seq(Byte) /\ Len(head) >= 1
  BY <1>3, <1>4
<1> HIDE DEF head
<1>6. /\ head \o a.host.raw \in Seq(Byte)
      /\ Len(head \o a.host.raw) = Len(head) + Len(a.host.raw)
  BY <1>1, <1>5, ConcatProperties DEF Bytes
<1> DEFINE front == head \o a.host.raw
           back  == push_port(a.port)
<1>7. front \o back \in Seq(Byte) /\ Len(front \o back) = Len(front) + 2
  <2>1. front \in Seq(Byte) /\ back \in Seq(Byte) /\ Len(back) = 2
    BY <1>2, <1>6 DEF Bytes
  <2> HIDE DEF front, back
  <2>2. front \o back \in Seq(Byte) /\ Len(front \o back) = Len(front) + Len(back)
    BY <2>1, ConcatProperties
  <2> QED
    BY <2>1, <2>2
<1>8. Len(head) \in Nat /\ Len(a.host.raw) \in Nat
  BY <1>1, <1>5, LenProperties DEF Bytes
<1>9. encode_address(a) = (head \o a.host.raw) \o push_port(a.port)
  BY DEF encode_address, head
<1>10. Len(front \o back) >= 3
  BY <1>5, <1>6, <1>7, <1>8
<1> QED
  BY <1>7, <1>9, <1>10 DEF Bytes

LEMMA ReplyType ==
  ASSUME NEW rep \in Byte, NEW a \in Address, Encodable(a.host)
  PROVE  /\ reply(rep, a) \in Bytes
         /\ Len(reply(rep, a)) > 2
         /\ reply(rep, a)[2] = rep
<1>1. encode_address(a) \in Seq(Byte) /\ Len(encode_address(a)) >= 3
  BY EncodeAddressType DEF Bytes
<1>2. <<Ver, rep, 0>> \in Seq(Byte) /\ Len(<<Ver, rep, 0>>) = 3 /\ <<Ver, rep, 0>>[2] = rep
  BY ByteFacts DEF Ver
<1> QED
  BY <1>1, <1>2, ConcatProperties DEF reply, Bytes

LEMMA UnboundType == Unbound \in Address /\ Encodable(Unbound.host)
<1>1. <<0, 0, 0, 0>> \in Bytes
  BY ByteFacts DEF Bytes
<1>2. 0 \in Port
  BY ByteFacts DEF Port
<1> QED
  BY <1>1, <1>2 DEF Unbound, Address, Host, Encodable, Atyps, IPv4, Domain

LEMMA LiteralIsHost == LiteralHost \subseteq Host
<1>1. \A n \in Nat : [1 .. n -> Byte] \subseteq Bytes
  BY SeqDef DEF Bytes
<1>2. [1 .. 4 -> Byte] \subseteq Bytes /\ [1 .. 16 -> Byte] \subseteq Bytes
  BY <1>1
<1> QED
  BY <1>2 DEF LiteralHost, Host, Atyps

\* A byte string cut out of a byte string.
LEMMA CutType ==
  ASSUME NEW b \in Bytes, NEW m \in Nat \ {0}, NEW n \in 0 .. Len(b)
  PROVE  SubSeq(b, m, n) \in Bytes
BY SubSeqProperties, ElementOfSeq DEF Bytes

\* Where the address field ends, once it is there.
LEMMA AddressBounds ==
  ASSUME NEW b \in Bytes, NEW p \in Nat \ {0}, HasAddress(b, p)
  PROVE  /\ AddrFirst(b, p) \in Nat \ {0}
         /\ AddrLast(b, p) \in Nat
         /\ AddrLast(b, p) + 2 <= Len(b)
         /\ AddrLast(b, p) >= p + 1
<1>1. b[p] \in {IPv4, Domain, IPv6} /\ AddrLast(b, p) + 2 <= Len(b)
  BY DEF HasAddress, Atyps
<1>2. b[p] = Domain => b[p + 1] \in Nat
  <2>1. p + 1 \in Nat \ {0} /\ (b[p] = Domain => p + 1 <= Len(b)) /\ Len(b) \in Nat
    BY LenProperties DEF HasAddress, Bytes
  <2>2. b[p] = Domain => b[p + 1] \in Byte
    BY <2>1, ElementOfSeq DEF Bytes
  <2> QED
    BY <2>2, ByteFacts
<1>3. /\ b[p] = IPv4 => AddrLast(b, p) = p + 4
      /\ b[p] = IPv6 => AddrLast(b, p) = p + 16
      /\ b[p] = Domain => AddrLast(b, p) = p + 1 + b[p + 1]
  BY DEF AddrLast, IPv4, IPv6, Domain
<1> QED
  BY <1>1, <1>2, <1>3 DEF AddrFirst

\* What decode_address returns is a host and a port.
LEMMA DecodeAddressType ==
  ASSUME NEW b \in Bytes, NEW p \in Nat \ {0}, HasAddress(b, p)
  PROVE  decode_address(b, p) \in Address
<1>1. RawAddress(b, p) \in Bytes
  BY AddressBounds, CutType, LenProperties DEF RawAddress, Bytes
<1>2. b[p] \in Atyps
  BY DEF HasAddress
<1>3. HostText(b[p], RawAddress(b, p)) \in Host
  <2>1. CASE b[p] = Domain /\ RawAddress(b, p) \in DOMAIN Spelled
    BY <2>1, LiteralIsHost, CodecAssumption DEF CodecAssumption, HostText
  <2>2. CASE ~(b[p] = Domain /\ RawAddress(b, p) \in DOMAIN Spelled)
    BY <2>2, <1>1, <1>2 DEF HostText, Host
  <2> QED
    BY <2>1, <2>2
<1>4. b[AddrLast(b, p) + 1] \in Byte /\ b[AddrLast(b, p) + 2] \in Byte
  BY AddressBounds, ElementOfSeq, LenProperties DEF Bytes
<1> QED
  BY <1>3, <1>4, PortType DEF decode_address, Address

-----------------------------------------------------------------------------
(* Stability: more bytes behind a message do not change what is parsed.     *)

LEMMA PrefixByte ==
  ASSUME NEW b \in Bytes, NEW c \in Bytes, NEW i \in Nat, 1 <= i, i <= Len(b)
  PROVE  /\ (b \o c)[i] = b[i]
         /\ b \o c \in Bytes
         /\ i <= Len(b \o c)
<1>1. Len(b) \in Nat /\ Len(c) \in Nat
  BY LenProperties DEF Bytes
<1>2. i \in 1 .. Len(b)
  BY <1>1
<1> QED
  BY <1>1, <1>2, ConcatProperties DEF Bytes

LEMMA ConcatType ==
  ASSUME NEW b \in Bytes, NEW c \in Bytes
  PROVE  /\ b \o c \in Bytes
         /\ Len(b \o c) = Len(b) + Len(c)
         /\ Len(b) \in Nat /\ Len(c) \in Nat
         /\ Len(b) <= Len(b \o c)
BY ConcatProperties, LenProperties DEF Bytes

LEMMA BytesAssociative ==
  ASSUME NEW b \in Bytes, NEW c \in Bytes, NEW d \in Bytes
  PROVE  (b \o c) \o d = b \o (c \o d)
BY ConcatAssociative DEF Bytes

\* The same with the equation under a name: what a proof instantiates by hand.
Regroups(b, c, d) == (b \o c) \o d = b \o (c \o d)

LEMMA BytesRegroup == \A b, c, d \in Bytes : Regroups(b, c, d)
BY BytesAssociative DEF Regroups

LEMMA PrefixCut ==
  ASSUME NEW b \in Bytes, NEW c \in Bytes, NEW m \in Nat \ {0}, NEW n \in 0 .. Len(b)
  PROVE  SubSeq(b \o c, m, n) = SubSeq(b, m, n)
<1> DEFINE whole == b \o c
<1>1. /\ whole \in Bytes
      /\ Len(b) \in Nat
      /\ n \in 0 .. Len(whole)
  BY ConcatType
<1>2. \A i \in 1 .. Len(b) : whole[i] = b[i]
  BY <1>1, PrefixByte
<1> HIDE DEF whole
<1>3. /\ SubSeq(b, m, n) \in Bytes
      /\ SubSeq(whole, m, n) \in Bytes
  BY <1>1, CutType
<1>4. /\ Len(SubSeq(b, m, n)) = IF m <= n THEN n - m + 1 ELSE 0
      /\ Len(SubSeq(whole, m, n)) = IF m <= n THEN n - m + 1 ELSE 0
      /\ \A i \in 1 .. n - m + 1 : SubSeq(b, m, n)[i] = b[m + i - 1]
      /\ \A i \in 1 .. n - m + 1 : SubSeq(whole, m, n)[i] = whole[m + i - 1]
  BY <1>1, SubSeqProperties, ElementOfSeq DEF Bytes
<1>5. \A i \in 1 .. Len(SubSeq(b, m, n)) : SubSeq(whole, m, n)[i] = SubSeq(b, m, n)[i]
  BY <1>1, <1>2, <1>4
<1>6. SubSeq(whole, m, n) = SubSeq(b, m, n)
  BY <1>3, <1>4, <1>5, SeqEqual DEF Bytes
<1> QED
  BY <1>6 DEF whole

LEMMA AddressStable ==
  ASSUME NEW b \in Bytes, NEW c \in Bytes, NEW p \in Nat \ {0}, HasAddress(b, p)
  PROVE  /\ HasAddress(b \o c, p)
         /\ decode_address(b \o c, p) = decode_address(b, p)
         /\ RawAddress(b \o c, p) = RawAddress(b, p)
         /\ (b \o c)[p] = b[p]
<1> DEFINE whole == b \o c
<1>1. /\ whole \in Bytes
      /\ Len(b) \in Nat /\ Len(whole) \in Nat
      /\ Len(b) <= Len(whole)
      /\ \A i \in Nat : 1 <= i /\ i <= Len(b) => whole[i] = b[i]
  BY ConcatType, PrefixByte, LenProperties DEF Bytes
<1>2. /\ p <= Len(b)
      /\ b[p] \in Atyps
      /\ b[p] = Domain => p + 1 <= Len(b)
      /\ AddrLast(b, p) + 2 <= Len(b)
  BY DEF HasAddress
<1>3. /\ AddrFirst(b, p) \in Nat \ {0}
      /\ AddrLast(b, p) \in Nat
      /\ AddrLast(b, p) >= p + 1
  BY AddressBounds
<1> HIDE DEF whole
<1>4. whole[p] = b[p] /\ (b[p] = Domain => whole[p + 1] = b[p + 1])
  BY <1>1, <1>2
<1>5. AddrLast(whole, p) = AddrLast(b, p) /\ AddrFirst(whole, p) = AddrFirst(b, p)
  BY <1>4 DEF AddrLast, AddrFirst
<1>6. HasAddress(whole, p)
  BY <1>1, <1>2, <1>3, <1>4, <1>5 DEF HasAddress
<1>7. RawAddress(whole, p) = RawAddress(b, p)
  <2>1. AddrLast(b, p) \in 0 .. Len(b)
    BY <1>1, <1>2, <1>3
  <2>2. SubSeq(whole, AddrFirst(b, p), AddrLast(b, p)) = SubSeq(b, AddrFirst(b, p), AddrLast(b, p))
    BY <1>3, <2>1, PrefixCut DEF whole
  <2> QED
    BY <1>5, <2>2 DEF RawAddress
<1>8. /\ whole[AddrLast(b, p) + 1] = b[AddrLast(b, p) + 1]
      /\ whole[AddrLast(b, p) + 2] = b[AddrLast(b, p) + 2]
  <2> DEFINE e == AddrLast(b, p)
  <2>1. e \in Nat /\ e + 2 <= Len(b) /\ Len(b) \in Nat
    BY <1>1, <1>2, <1>3
  <2> HIDE DEF e
  <2>2. /\ e + 1 \in Nat /\ 1 <= e + 1 /\ e + 1 <= Len(b)
        /\ e + 2 \in Nat /\ 1 <= e + 2 /\ e + 2 <= Len(b)
    BY <2>1
  <2>3. whole[e + 1] = b[e + 1] /\ whole[e + 2] = b[e + 2]
    BY <1>1, <2>2, Zenon
  <2> QED
    BY <2>3 DEF e
<1>9. decode_address(whole, p) = decode_address(b, p)
  BY <1>4, <1>5, <1>7, <1>8 DEF decode_address
<1> QED
  BY <1>4, <1>6, <1>7, <1>9 DEF whole

\* The message at the front of a buffer is the same message when more has come.
LEMMA GreetingStable ==
  ASSUME NEW b \in Bytes, NEW c \in Bytes, Len(b) >= 2
  PROVE  (b \o c)[2] = b[2]
BY PrefixByte, LenProperties DEF Bytes

LEMMA UserpassStable ==
  ASSUME NEW b \in Bytes, NEW c \in Bytes, HasUserpass(b)
  PROVE  /\ HasUserpass(b \o c)
         /\ parse_userpass(b \o c) = parse_userpass(b)
         /\ (b \o c)[2] = b[2]
         /\ (b \o c)[3 + b[2]] = b[3 + b[2]]
<1> DEFINE whole == b \o c
<1>1. /\ whole \in Bytes
      /\ Len(b) \in Nat /\ Len(whole) \in Nat
      /\ Len(b) <= Len(whole)
      /\ \A i \in Nat : 1 <= i /\ i <= Len(b) => whole[i] = b[i]
  BY ConcatType, PrefixByte, LenProperties DEF Bytes
<1>2. /\ Len(b) >= 2
      /\ b[1] = AuthVer
      /\ Len(b) >= 3 + b[2]
      /\ Len(b) >= 3 + b[2] + b[3 + b[2]]
  BY DEF HasUserpass
<1> HIDE DEF whole
<1>3. b[2] \in Nat
  BY <1>1, <1>2, ByteAt
<1>4. b[3 + b[2]] \in Nat
  BY <1>1, <1>2, <1>3, ByteAt
<1>5. whole[1] = b[1] /\ whole[2] = b[2] /\ whole[3 + b[2]] = b[3 + b[2]]
  BY <1>1, <1>2, <1>3
<1>6. HasUserpass(whole)
  BY <1>1, <1>2, <1>3, <1>4, <1>5 DEF HasUserpass
<1>7. /\ 2 + b[2] \in 0 .. Len(b)
      /\ 3 + b[2] + b[3 + b[2]] \in 0 .. Len(b)
      /\ 4 + b[2] \in Nat \ {0}
  BY <1>1, <1>2, <1>3, <1>4
<1>8. SubSeq(whole, 3, 2 + b[2]) = SubSeq(b, 3, 2 + b[2])
  BY <1>7, PrefixCut DEF whole
<1>9. SubSeq(whole, 4 + b[2], 3 + b[2] + b[3 + b[2]])
        = SubSeq(b, 4 + b[2], 3 + b[2] + b[3 + b[2]])
  BY <1>7, PrefixCut DEF whole
<1>10. parse_userpass(whole) = parse_userpass(b)
  BY <1>5, <1>8, <1>9 DEF parse_userpass
<1> QED
  BY <1>5, <1>6, <1>10 DEF whole

LEMMA SizeStable ==
  ASSUME NEW b \in Bytes, NEW c \in Bytes, HasSize(b)
  PROVE  HasSize(b \o c) /\ Size(b \o c) = Size(b)
<1> DEFINE whole == b \o c
<1>1. /\ Len(b) \in Nat /\ Len(whole) \in Nat
      /\ Len(b) <= Len(whole)
      /\ \A i \in Nat : 1 <= i /\ i <= Len(b) => whole[i] = b[i]
  BY ConcatType, PrefixByte, LenProperties DEF Bytes
<1>2. Len(b) >= 4 /\ b[4] \in Atyps /\ (b[4] = Domain => Len(b) >= 5)
  BY DEF HasSize
<1> HIDE DEF whole
<1>3. whole[4] = b[4] /\ (b[4] = Domain => whole[5] = b[5])
  BY <1>1, <1>2
<1>4. HasSize(whole)
  BY <1>1, <1>2, <1>3 DEF HasSize
<1>5. Size(whole) = Size(b)
  BY <1>3 DEF Size
<1> QED
  BY <1>4, <1>5 DEF whole

LEMMA RequestStable ==
  ASSUME NEW b \in Bytes, NEW c \in Bytes, HasRequest(b)
  PROVE  HasRequest(b \o c) /\ parse_request(b \o c) = parse_request(b)
<1>1. HasAddress(b \o c, 4) /\ decode_address(b \o c, 4) = decode_address(b, 4)
  BY AddressStable DEF HasRequest
<1>2. Len(b) >= 4 /\ b[1] = Ver /\ Len(b) \in Nat
  BY LenProperties DEF HasRequest, Bytes
<1>3. (b \o c)[1] = b[1] /\ (b \o c)[2] = b[2]
  BY <1>2, PrefixByte
<1>4. Len(b \o c) >= 4
  BY <1>2, ConcatType
<1> QED
  BY <1>1, <1>2, <1>3, <1>4 DEF HasRequest, parse_request

-----------------------------------------------------------------------------
(* What the parsers return of a buffer. *)

LEMMA GreetingFacts ==
  ASSUME NEW b \in Bytes, HasGreeting(b)
  PROVE  b[2] \in Byte /\ 2 + b[2] \in Nat /\ 2 + b[2] <= Len(b)
<1>1. Len(b) \in Nat /\ Len(b) >= 2 /\ Len(b) >= 2 + b[2]
  BY LenProperties DEF HasGreeting, Bytes
<1>2. b[2] \in Byte /\ b[2] \in Nat
  BY <1>1, ByteAt
<1> QED
  BY <1>1, <1>2

LEMMA UserpassFacts ==
  ASSUME NEW b \in Bytes, HasUserpass(b)
  PROVE  /\ 3 + b[2] + b[3 + b[2]] \in Nat
         /\ b[2] \in Nat
         /\ b[3 + b[2]] \in Nat
         /\ 3 + b[2] + b[3 + b[2]] <= Len(b)
         /\ parse_userpass(b) \in [user : Bytes, pass : Bytes]
<1>1. /\ Len(b) \in Nat
      /\ Len(b) >= 2
      /\ Len(b) >= 3 + b[2]
      /\ Len(b) >= 3 + b[2] + b[3 + b[2]]
  BY LenProperties DEF HasUserpass, Bytes
<1>2. b[2] \in Nat
  BY <1>1, ByteAt
<1>3. b[3 + b[2]] \in Nat
  BY <1>1, <1>2, ByteAt
<1>4. /\ 2 + b[2] \in 0 .. Len(b)
      /\ 3 + b[2] + b[3 + b[2]] \in 0 .. Len(b)
      /\ 4 + b[2] \in Nat \ {0}
  BY <1>1, <1>2, <1>3
<1>5. SubSeq(b, 3, 2 + b[2]) \in Bytes
  BY <1>4, CutType
<1>6. SubSeq(b, 4 + b[2], 3 + b[2] + b[3 + b[2]]) \in Bytes
  BY <1>4, CutType
<1> QED
  BY <1>1, <1>2, <1>3, <1>5, <1>6 DEF parse_userpass

LEMMA SizeFacts ==
  ASSUME NEW b \in Bytes, HasSize(b)
  PROVE  Size(b) \in Nat /\ Size(b) >= 7
<1>1. Len(b) \in Nat /\ Len(b) >= 4 /\ b[4] \in {IPv4, Domain, IPv6}
        /\ (b[4] = Domain => Len(b) >= 5)
  BY LenProperties DEF HasSize, Bytes, Atyps
<1>2. b[4] = Domain => b[5] \in Nat
  BY <1>1, ByteAt
<1> QED
  BY <1>1, <1>2 DEF Size, IPv4, Domain, IPv6

LEMMA RequestFacts ==
  ASSUME NEW b \in Bytes, HasRequest(b)
  PROVE  parse_request(b).cmd \in Byte /\ parse_request(b).dst \in Address
<1>1. b[2] \in Byte
  BY ElementOfSeq, LenProperties DEF HasRequest, Bytes
<1>2. decode_address(b, 4) \in Address
  BY DecodeAddressType DEF HasRequest
<1> QED
  BY <1>1, <1>2 DEF parse_request

LEMMA SizedType ==
  ASSUME NEW b \in Bytes, HasSize(b), Len(b) >= Size(b)
  PROVE  SubSeq(b, 1, Size(b)) \in Bytes
BY SizeFacts, TakeAndDrop, LenProperties DEF Bytes

\* Python's size and the C++ parser's end of a message are the same, and a message is
\* complete for both at once.
LEMMA SizeIsEnd ==
  ASSUME NEW b \in Bytes
  PROVE  /\ HasSize(b) /\ Len(b) >= Size(b) <=> Len(b) >= 4 /\ HasAddress(b, 4)
         /\ HasAddress(b, 4) => Size(b) = AddressEnd(b, 4)
<1>1. Len(b) \in Nat
  BY LenProperties DEF Bytes
<1>2. Len(b) >= 5 => b[5] \in Nat
  BY <1>1, ByteAt
<1>3. b[4] \in Atyps /\ (b[4] = Domain => Len(b) >= 5) =>
        Size(b) = AddressEnd(b, 4) /\ Size(b) \in Nat
  BY <1>1, <1>2 DEF Size, AddressEnd, AddrLast, Atyps, IPv4, IPv6, Domain
<1>4. HasSize(b) /\ Len(b) >= Size(b) => Len(b) >= 4 /\ HasAddress(b, 4)
  BY <1>1, <1>3 DEF HasSize, HasAddress, AddressEnd
<1>5. HasAddress(b, 4) =>
        Len(b) >= 4 /\ b[4] \in Atyps /\ (b[4] = Domain => Len(b) >= 5)
          /\ Len(b) >= AddressEnd(b, 4)
  <2>1. HasAddress(b, 4) =>
          4 <= Len(b) /\ b[4] \in Atyps /\ (b[4] = Domain => 4 + 1 <= Len(b))
            /\ AddressEnd(b, 4) <= Len(b)
    BY DEF HasAddress, AddressEnd
  <2>2. b[4] \in Atyps /\ (b[4] = Domain => Len(b) >= 5) => AddressEnd(b, 4) \in Nat
    BY <1>3
  <2> QED
    BY <1>1, <2>1, <2>2
<1> QED
  BY <1>3, <1>4, <1>5 DEF HasSize

LEMMA GreetingKept ==
  ASSUME NEW b \in Bytes, NEW c \in Bytes, HasGreeting(b)
  PROVE  HasGreeting(b \o c) /\ parse_greeting(b \o c) = parse_greeting(b)
<1>1. /\ b[2] \in Nat /\ 2 + b[2] <= Len(b) /\ Len(b) >= 2 /\ b[1] = Ver
      /\ Len(b) \in Nat /\ Len(b) <= Len(b \o c) /\ Len(b \o c) \in Nat
  BY GreetingFacts, ByteFacts, ConcatType, LenProperties DEF HasGreeting, Bytes
<1>2. (b \o c)[1] = b[1] /\ (b \o c)[2] = b[2]
  BY <1>1, PrefixByte
<1>3. SubSeq(b \o c, 3, 2 + b[2]) = SubSeq(b, 3, 2 + b[2])
  <2>1. 2 + b[2] \in 0 .. Len(b)
    BY <1>1
  <2> QED
    BY <2>1, PrefixCut
<1>4. HasGreeting(b \o c)
  BY <1>1, <1>2 DEF HasGreeting
<1> QED
  BY <1>2, <1>3, <1>4 DEF parse_greeting

LEMMA SelectionKept ==
  ASSUME NEW b \in Bytes, NEW c \in Bytes, HasMethodSelection(b)
  PROVE  /\ HasMethodSelection(b \o c)
         /\ parse_method_selection(b \o c) = parse_method_selection(b)
<1>1. Len(b) >= 2 /\ b[1] = Ver /\ Len(b) \in Nat /\ Len(b) <= Len(b \o c) /\ Len(b \o c) \in Nat
  BY ConcatType, LenProperties DEF HasMethodSelection, Bytes
<1>2. (b \o c)[1] = b[1] /\ (b \o c)[2] = b[2]
  BY <1>1, PrefixByte
<1> QED
  BY <1>1, <1>2 DEF HasMethodSelection, parse_method_selection

LEMMA ReplyKept ==
  ASSUME NEW b \in Bytes, NEW c \in Bytes, HasReply(b)
  PROVE  HasReply(b \o c) /\ parse_reply(b \o c) = parse_reply(b)
<1>1. HasAddress(b \o c, 4) /\ decode_address(b \o c, 4) = decode_address(b, 4)
  BY AddressStable DEF HasReply
<1>2. Len(b) >= 4 /\ b[1] = Ver /\ Len(b) \in Nat
  BY LenProperties DEF HasReply, Bytes
<1>3. (b \o c)[1] = b[1] /\ (b \o c)[2] = b[2]
  BY <1>2, PrefixByte
<1>4. Len(b \o c) >= 4
  BY <1>2, ConcatType
<1> QED
  BY <1>1, <1>2, <1>3, <1>4 DEF HasReply, parse_reply

-----------------------------------------------------------------------------
(* What the builders build, the parsers read. *)

\* A host as decode_address gives it: a literal has its length, and a name that spells
\* a literal is that literal.
Canonical(host) ==
  /\ host.atyp = IPv4 => Len(host.raw) = 4
  /\ host.atyp = IPv6 => Len(host.raw) = 16
  /\ host.atyp = Domain => host.raw \notin DOMAIN Spelled

LEMMA LiteralCanonical == \A host \in LiteralHost : Canonical(host)
<1>1. \A n \in Nat, s \in Bytes : s \in [1 .. n -> Byte] => Len(s) = n
  BY LenProperties DEF Bytes
<1>2. \A host \in LiteralHost : host.raw \in Bytes
  BY LiteralIsHost DEF Host
<1> QED
  BY <1>1, <1>2 DEF LiteralHost, Canonical, IPv4, IPv6, Domain

LEMMA DecodedCanonical ==
  ASSUME NEW b \in Bytes, NEW p \in Nat \ {0}, HasAddress(b, p)
  PROVE  Canonical(decode_address(b, p).host)
<1> DEFINE raw == RawAddress(b, p)
<1>1. decode_address(b, p).host = HostText(b[p], raw)
  BY DEF decode_address
<1>2. CASE b[p] = Domain /\ raw \in DOMAIN Spelled
  <2>1. HostText(b[p], raw) = Spelled[raw] /\ Spelled[raw] \in LiteralHost
    BY <1>2, CodecAssumption DEF HostText
  <2> QED
    BY <1>1, <2>1, LiteralCanonical
<1>3. CASE ~(b[p] = Domain /\ raw \in DOMAIN Spelled)
  <2>1. HostText(b[p], raw) = [atyp |-> b[p], raw |-> raw]
    BY <1>3 DEF HostText
  <2>2. AddrLast(b, p) + 2 <= Len(b) /\ Len(b) \in Nat /\ AddrLast(b, p) \in Nat
    BY AddressBounds, LenProperties DEF Bytes
  <2>3. \A i \in 1 .. Len(b) : b[i] \in Byte
    BY ElementOfSeq DEF Bytes
  <2>4. CASE b[p] = IPv4
    <3>1. raw = SubSeq(b, p + 1, p + 4) /\ p + 4 + 2 <= Len(b)
      BY <2>2, <2>4 DEF RawAddress, AddrFirst, AddrLast, IPv4, IPv6, Domain
    <3>2. Len(SubSeq(b, p + 1, p + 4)) = IF p + 1 <= p + 4 THEN p + 4 - (p + 1) + 1 ELSE 0
      BY <2>2, <2>3, <3>1, SubSeqProperties
    <3>3. Len(raw) = 4
      BY <3>1, <3>2
    <3>4. decode_address(b, p).host = [atyp |-> IPv4, raw |-> raw]
      BY <1>1, <2>1, <2>4
    <3> QED
      BY <3>3, <3>4 DEF Canonical, IPv4, IPv6, Domain
  <2>5. CASE b[p] = IPv6
    <3>1. raw = SubSeq(b, p + 1, p + 16) /\ p + 16 + 2 <= Len(b)
      <4>1. AddrFirst(b, p) = p + 1 /\ AddrLast(b, p) = p + 16
        BY <2>5 DEF AddrFirst, AddrLast, IPv4, IPv6, Domain
      <4> QED
        BY <2>2, <4>1 DEF RawAddress
    <3>2. Len(SubSeq(b, p + 1, p + 16)) = IF p + 1 <= p + 16 THEN p + 16 - (p + 1) + 1 ELSE 0
      BY <2>2, <2>3, <3>1, SubSeqProperties
    <3>3. Len(raw) = 16
      BY <3>1, <3>2
    <3>4. decode_address(b, p).host = [atyp |-> IPv6, raw |-> raw]
      BY <1>1, <2>1, <2>5
    <3> QED
      BY <3>3, <3>4 DEF Canonical, IPv4, IPv6, Domain
  <2>6. CASE b[p] = Domain
    BY <1>1, <1>3, <2>1, <2>6 DEF Canonical, IPv4, IPv6, Domain
  <2> QED
    BY <2>4, <2>5, <2>6 DEF HasAddress, Atyps
<1> QED
  BY <1>2, <1>3

LEMMA DivMod ==
  ASSUME NEW n \in Nat, NEW m \in Nat, m > 0
  PROVE  (n \div m) * m + (n % m) = n
BY SMTT(30)

LEMMA PortRoundTrip ==
  ASSUME NEW port \in Port
  PROVE  push_port(port)[1] * (MaxByte + 1) + push_port(port)[2] = port
<1>1. port \in Nat /\ MaxByte + 1 \in Nat /\ MaxByte + 1 > 0
  BY ByteFacts DEF Port
<1>2. (port \div (MaxByte + 1)) * (MaxByte + 1) + (port % (MaxByte + 1)) = port
  BY <1>1, DivMod
<1> QED
  BY <1>2 DEF push_port

LEMMA TwoParts ==
  ASSUME NEW a \in Bytes, NEW b \in Bytes
  PROVE  /\ a \o b \in Bytes /\ Len(a \o b) = Len(a) + Len(b)
         /\ \A i \in 1 .. Len(a) + Len(b) :
              (a \o b)[i] = IF i <= Len(a) THEN a[i] ELSE b[i - Len(a)]
<1>1. a \in Seq(Byte) /\ b \in Seq(Byte)
  BY DEF Bytes
<1>2. \A i \in 1 .. Len(a) + Len(b) :
        (a \o b)[i] = IF i <= Len(a) THEN a[i] ELSE b[i - Len(a)]
  BY <1>1, ConcatProperties
<1> QED
  BY <1>2, ConcatType

\* b is four byte strings in a row.
IsRow(b, s, t, u, v) ==
  /\ b \in Bytes
  /\ Len(b) = Len(s) + Len(t) + Len(u) + Len(v)
  /\ \A i \in 1 .. Len(b) :
       b[i] = IF i <= Len(s) THEN s[i]
              ELSE IF i <= Len(s) + Len(t) THEN t[i - Len(s)]
              ELSE IF i <= Len(s) + Len(t) + Len(u) THEN u[i - Len(s) - Len(t)]
              ELSE v[i - Len(s) - Len(t) - Len(u)]

LEMMA Row ==
  ASSUME NEW s \in Bytes, NEW t \in Bytes, NEW u \in Bytes, NEW v \in Bytes
  PROVE  IsRow(s \o ((t \o u) \o v), s, t, u, v)
<1> DEFINE tu  == t \o u
           tuv == tu \o v
           all == s \o tuv
<1>1. Len(s) \in Nat /\ Len(t) \in Nat /\ Len(u) \in Nat /\ Len(v) \in Nat
  BY LenProperties DEF Bytes
<1>2. /\ tu \in Bytes /\ Len(tu) = Len(t) + Len(u)
      /\ \A i \in 1 .. Len(t) + Len(u) : tu[i] = IF i <= Len(t) THEN t[i] ELSE u[i - Len(t)]
  BY TwoParts
<1> HIDE DEF tu
<1>3. /\ tuv \in Bytes /\ Len(tuv) = Len(tu) + Len(v)
      /\ \A i \in 1 .. Len(tu) + Len(v) : tuv[i] = IF i <= Len(tu) THEN tu[i] ELSE v[i - Len(tu)]
  BY <1>2, TwoParts
<1> HIDE DEF tuv
<1>4. /\ all \in Bytes /\ Len(all) = Len(s) + Len(tuv)
      /\ \A i \in 1 .. Len(s) + Len(tuv) : all[i] = IF i <= Len(s) THEN s[i] ELSE tuv[i - Len(s)]
  BY <1>3, TwoParts
<1> HIDE DEF all
<1>5. Len(all) = Len(s) + Len(t) + Len(u) + Len(v)
  BY <1>1, <1>2, <1>3, <1>4
<1>6. ASSUME NEW i \in 1 .. Len(all)
      PROVE  all[i] = IF i <= Len(s) THEN s[i]
                      ELSE IF i <= Len(s) + Len(t) THEN t[i - Len(s)]
                      ELSE IF i <= Len(s) + Len(t) + Len(u) THEN u[i - Len(s) - Len(t)]
                      ELSE v[i - Len(s) - Len(t) - Len(u)]
  <2>1. CASE i <= Len(s)
    BY <1>1, <1>4, <2>1
  <2>2. CASE ~(i <= Len(s))
    <3>1. all[i] = tuv[i - Len(s)] /\ i - Len(s) \in 1 .. Len(tu) + Len(v)
      BY <1>1, <1>2, <1>3, <1>4, <2>2
    <3>2. CASE i - Len(s) <= Len(tu)
      <4>1. tuv[i - Len(s)] = tu[i - Len(s)] /\ i - Len(s) \in 1 .. Len(t) + Len(u)
        BY <1>1, <1>2, <1>3, <3>1, <3>2
      <4>2. tu[i - Len(s)] = IF i - Len(s) <= Len(t) THEN t[i - Len(s)] ELSE u[i - Len(s) - Len(t)]
        BY <1>2, <4>1
      <4>3. i <= Len(s) + Len(t) + Len(u) /\ (i - Len(s) <= Len(t) <=> i <= Len(s) + Len(t))
        BY <1>1, <4>1
      <4> QED
        BY <2>2, <3>1, <4>1, <4>2, <4>3
    <3>3. CASE ~(i - Len(s) <= Len(tu))
      <4>1. tuv[i - Len(s)] = v[i - Len(s) - Len(tu)]
        BY <1>3, <3>1, <3>3
      <4>2. /\ i - Len(s) - Len(tu) = i - Len(s) - Len(t) - Len(u)
            /\ ~(i <= Len(s) + Len(t)) /\ ~(i <= Len(s) + Len(t) + Len(u))
        BY <1>1, <1>2, <3>1, <3>3
      <4> QED
        BY <2>2, <3>1, <4>1, <4>2
    <3> QED
      BY <3>2, <3>3
  <2> QED
    BY <2>1, <2>2
<1>7. IsRow(all, s, t, u, v)
  BY <1>4, <1>5, <1>6 DEF IsRow
<1> QED
  BY <1>7 DEF all, tuv, tu

\* The first bytes of an address field: ATYP, and the length of a name.
Lead(host) ==
  IF host.atyp = Domain THEN <<Domain, Len(host.raw)>> ELSE <<host.atyp>>

LEMMA LeadFacts ==
  ASSUME NEW host \in Host, Encodable(host)
  PROVE  /\ Lead(host) \in Bytes /\ Lead(host)[1] = host.atyp
         /\ host.atyp = Domain => Len(Lead(host)) = 2 /\ Lead(host)[2] = Len(host.raw)
         /\ host.atyp # Domain => Len(Lead(host)) = 1
<1>1. host.atyp \in Atyps /\ host.raw \in Bytes /\ Len(host.raw) \in Nat
  BY LenProperties DEF Host, Bytes
<1>2. host.atyp \in Byte /\ (host.atyp = Domain => Len(host.raw) \in Byte)
  BY <1>1, ByteFacts DEF Atyps, IPv4, Domain, IPv6, Encodable, Byte
<1>3. CASE host.atyp = Domain
  BY <1>2, <1>3 DEF Lead, Bytes
<1>4. CASE host.atyp # Domain
  BY <1>2, <1>4 DEF Lead, Bytes
<1> QED
  BY <1>3, <1>4

LEMMA PushPortBytes ==
  ASSUME NEW port \in Port
  PROVE  /\ push_port(port) \in Bytes /\ Len(push_port(port)) = 2
         /\ push_port(port)[1] * (MaxByte + 1) + push_port(port)[2] = port
BY PushPortType, PortRoundTrip

\* A piece of a byte string is another byte string when they agree byte by byte.
LEMMA SamePiece ==
  ASSUME NEW b \in Bytes, NEW raw \in Bytes, NEW m \in Nat \ {0}, m + Len(raw) - 1 <= Len(b),
         \A i \in 1 .. Len(raw) : b[m - 1 + i] = raw[i]
  PROVE  SubSeq(b, m, m + Len(raw) - 1) = raw
<1> DEFINE n == m + Len(raw) - 1
           c == SubSeq(b, m, n)
<1>1. Len(raw) \in Nat /\ Len(b) \in Nat /\ n \in 0 .. Len(b)
  BY LenProperties DEF Bytes
<1>2. c \in Bytes
  BY <1>1, CutType
<1>3. \A i \in m .. n : b[i] \in Byte
  BY <1>1, ElementOfSeq DEF Bytes
<1>4. /\ Len(c) = IF m <= n THEN n - m + 1 ELSE 0
      /\ \A i \in 1 .. n - m + 1 : c[i] = b[m + i - 1]
  BY <1>1, <1>3, SubSeqProperties DEF Bytes
<1>5. Len(c) = Len(raw) /\ n - m + 1 = Len(raw)
  BY <1>1, <1>4
<1> HIDE DEF n, c
<1>6. ASSUME NEW i \in 1 .. Len(raw)
      PROVE  c[i] = raw[i]
  <2>1. m + i - 1 = m - 1 + i
    BY <1>1
  <2> QED
    BY <1>4, <1>5, <2>1
<1>7. c = raw
  <2>1. c \in Seq(Byte) /\ raw \in Seq(Byte) /\ Len(c) = Len(raw)
    BY <1>2, <1>5 DEF Bytes
  <2> QED
    BY <1>5, <1>6, <2>1, SeqEqual
<1> QED
  BY <1>7 DEF c, n

\* decode_address undoes encode_address, three bytes into a message.
LEMMA DecodeEncode ==
  ASSUME NEW a \in Address, Encodable(a.host), Canonical(a.host),
         NEW pre \in Bytes, Len(pre) = 3
  PROVE  /\ pre \o encode_address(a) \in Bytes
         /\ Len(pre \o encode_address(a)) >= 4
         /\ \A i \in 1 .. 3 : (pre \o encode_address(a))[i] = pre[i]
         /\ (pre \o encode_address(a))[4] = a.host.atyp
         /\ HasAddress(pre \o encode_address(a), 4)
         /\ decode_address(pre \o encode_address(a), 4) = a
         /\ AddressEnd(pre \o encode_address(a), 4) = Len(pre \o encode_address(a))
<1> DEFINE host == a.host
           raw  == host.raw
           lead == Lead(host)
           tail == push_port(a.port)
           b    == pre \o ((lead \o raw) \o tail)
<1>1. /\ host \in Host /\ a.port \in Port /\ raw \in Bytes /\ host.atyp \in Atyps
      /\ Len(raw) \in Nat
  BY LenProperties DEF Address, Host, Bytes
<1>2. pre \o encode_address(a) = b
  <2>1. encode_address(a) = (lead \o raw) \o tail
    BY DEF encode_address, Lead
  <2> QED
    BY <2>1
<1>3. /\ lead \in Bytes /\ lead[1] = host.atyp /\ Len(lead) \in {1, 2}
      /\ host.atyp = Domain => Len(lead) = 2 /\ lead[2] = Len(raw)
      /\ host.atyp # Domain => Len(lead) = 1
  BY <1>1, LeadFacts
<1>4. /\ tail \in Bytes /\ Len(tail) = 2
      /\ tail[1] * (MaxByte + 1) + tail[2] = a.port
  BY <1>1, PushPortBytes
<1>5. /\ host.atyp = IPv4 => Len(raw) = 4
      /\ host.atyp = IPv6 => Len(raw) = 16
      /\ host.atyp = Domain => raw \notin DOMAIN Spelled
  BY DEF Canonical
<1> HIDE DEF lead, tail
<1>6. /\ b \in Bytes /\ Len(b) = 3 + Len(lead) + Len(raw) + 2
      /\ \A i \in 1 .. 3 : b[i] = pre[i]
      /\ \A i \in 1 .. Len(lead) : b[3 + i] = lead[i]
      /\ \A i \in 1 .. Len(raw) : b[3 + Len(lead) + i] = raw[i]
      /\ \A i \in 1 .. 2 : b[3 + Len(lead) + Len(raw) + i] = tail[i]
  <2> HIDE DEF raw, host
  <2>1. lead \in Bytes /\ raw \in Bytes /\ tail \in Bytes
    BY <1>1, <1>3, <1>4
  <2>2. IsRow(b, pre, lead, raw, tail)
    BY <2>1, Row
  <2> HIDE DEF b
  <2>3. Len(b) = 3 + Len(lead) + Len(raw) + 2 /\ Len(lead) \in Nat
    BY <1>3, <1>4, <2>2 DEF IsRow
  <2>4. \A i \in 1 .. Len(b) :
          b[i] = IF i <= 3 THEN pre[i]
                 ELSE IF i <= 3 + Len(lead) THEN lead[i - 3]
                 ELSE IF i <= 3 + Len(lead) + Len(raw) THEN raw[i - 3 - Len(lead)]
                 ELSE tail[i - 3 - Len(lead) - Len(raw)]
    BY <1>4, <2>2 DEF IsRow
  <2>5. \A i \in 1 .. 3 : b[i] = pre[i]
    BY <1>1, <2>3, <2>4
  <2>6. ASSUME NEW i \in 1 .. Len(lead)
        PROVE  b[3 + i] = lead[i]
    <3>1. 3 + i \in 1 .. Len(b) /\ ~(3 + i <= 3) /\ 3 + i <= 3 + Len(lead) /\ 3 + i - 3 = i
      BY <1>1, <2>3
    <3> QED
      BY <2>4, <3>1
  <2>7. ASSUME NEW i \in 1 .. Len(raw)
        PROVE  b[3 + Len(lead) + i] = raw[i]
    <3>1. /\ 3 + Len(lead) + i \in 1 .. Len(b) /\ ~(3 + Len(lead) + i <= 3)
          /\ ~(3 + Len(lead) + i <= 3 + Len(lead))
          /\ 3 + Len(lead) + i <= 3 + Len(lead) + Len(raw)
          /\ 3 + Len(lead) + i - 3 - Len(lead) = i
      BY <1>1, <2>3
    <3> QED
      BY <2>4, <3>1
  <2>8. ASSUME NEW i \in 1 .. 2
        PROVE  b[3 + Len(lead) + Len(raw) + i] = tail[i]
    <3>1. /\ 3 + Len(lead) + Len(raw) + i \in 1 .. Len(b)
          /\ ~(3 + Len(lead) + Len(raw) + i <= 3)
          /\ ~(3 + Len(lead) + Len(raw) + i <= 3 + Len(lead))
          /\ ~(3 + Len(lead) + Len(raw) + i <= 3 + Len(lead) + Len(raw))
          /\ 3 + Len(lead) + Len(raw) + i - 3 - Len(lead) - Len(raw) = i
      BY <1>1, <2>3
    <3> QED
      BY <2>4, <3>1
  <2> QED
    BY <2>2, <2>3, <2>5, <2>6, <2>7, <2>8 DEF IsRow
<1> HIDE DEF raw, b
<1>7. b[4] = host.atyp /\ (b[4] = Domain => b[5] = Len(raw))
  <2>1. b[3 + 1] = lead[1]
    BY <1>3, <1>6
  <2>2. host.atyp = Domain => b[3 + 2] = lead[2]
    <3>1. host.atyp = Domain => 2 \in 1 .. Len(lead)
      <4>1. host.atyp = Domain => Len(lead) = 2
        BY <1>3
      <4>2. Len(lead) = 2 => 2 \in 1 .. Len(lead)
        OBVIOUS
      <4> QED
        BY <4>1, <4>2
    <3>2. 2 \in 1 .. Len(lead) => b[3 + 2] = lead[2]
      BY <1>6
    <3> QED
      BY <3>1, <3>2
  <2> QED
    BY <1>3, <2>1, <2>2
<1> HIDE DEF host
<1>8. AddrFirst(b, 4) = 4 + Len(lead) /\ AddrLast(b, 4) = 3 + Len(lead) + Len(raw)
  <2>1. AddrFirst(b, 4) = 4 + Len(lead)
    BY <1>3, <1>7 DEF AddrFirst
  <2>2. /\ b[4] = IPv4 => AddrLast(b, 4) = 4 + 4
        /\ b[4] = IPv6 => AddrLast(b, 4) = 4 + 16
        /\ b[4] = Domain => AddrLast(b, 4) = 4 + 1 + b[4 + 1]
    BY DEF AddrLast, IPv4, IPv6, Domain
  <2>3. /\ host.atyp = IPv4 => host.atyp # Domain
        /\ host.atyp = IPv6 => host.atyp # Domain
    BY DEF IPv4, IPv6, Domain
  <2>4. CASE host.atyp = IPv4
    <3>1. AddrLast(b, 4) = 4 + 4
      BY <1>7, <2>2, <2>4
    <3>2. Len(raw) = 4 /\ Len(lead) = 1
      BY <1>3, <1>5, <2>3, <2>4
    <3> QED
      BY <2>1, <3>1, <3>2
  <2>5. CASE host.atyp = IPv6
    <3>1. AddrLast(b, 4) = 4 + 16
      BY <1>7, <2>2, <2>5
    <3>2. Len(raw) = 16 /\ Len(lead) = 1
      BY <1>3, <1>5, <2>3, <2>5
    <3> QED
      BY <2>1, <3>1, <3>2
  <2>6. CASE host.atyp = Domain
    <3>1. b[4 + 1] = Len(raw) /\ Len(lead) = 2 /\ AddrLast(b, 4) = 4 + 1 + b[4 + 1]
      BY <1>3, <1>7, <2>2, <2>6
    <3> QED
      BY <1>1, <2>1, <3>1
  <2>7. host.atyp = IPv4 \/ host.atyp = IPv6 \/ host.atyp = Domain
    BY <1>1 DEF Atyps
  <2> QED
    BY <2>1, <2>4, <2>5, <2>6, <2>7
<1>9. AddressEnd(b, 4) = Len(b)
  BY <1>1, <1>3, <1>6, <1>8 DEF AddressEnd
<1>10. Len(b) >= 6
  BY <1>1, <1>3, <1>6
<1>11. HasAddress(b, 4)
  BY <1>1, <1>3, <1>6, <1>7, <1>8, <1>10 DEF HasAddress
<1>12. RawAddress(b, 4) = raw
  <2>1. /\ 4 + Len(lead) \in Nat \ {0}
        /\ (4 + Len(lead)) + Len(raw) - 1 = 3 + Len(lead) + Len(raw)
        /\ (4 + Len(lead)) + Len(raw) - 1 <= Len(b)
    BY <1>1, <1>3, <1>6
  <2>2. \A i \in 1 .. Len(raw) : b[(4 + Len(lead)) - 1 + i] = raw[i]
    <3>1. \A i \in 1 .. Len(raw) : (4 + Len(lead)) - 1 + i = 3 + Len(lead) + i
      BY <1>1, <1>3
    <3> QED
      BY <1>6, <3>1
  <2>3. SubSeq(b, 4 + Len(lead), (4 + Len(lead)) + Len(raw) - 1) = raw
    BY <1>1, <1>6, <2>1, <2>2, SamePiece
  <2> QED
    BY <1>8, <2>1, <2>3 DEF RawAddress
<1>13. HostText(b[4], RawAddress(b, 4)) = host
  <2>1. HostText(b[4], RawAddress(b, 4)) = [atyp |-> host.atyp, raw |-> raw]
    BY <1>5, <1>7, <1>12 DEF HostText
  <2>2. host = [atyp |-> host.atyp, raw |-> raw]
    BY <1>1 DEF Host, raw
  <2> QED
    BY <2>1, <2>2
<1>14. b[AddrLast(b, 4) + 1] * (MaxByte + 1) + b[AddrLast(b, 4) + 2] = a.port
  <2>1. b[3 + Len(lead) + Len(raw) + 1] = tail[1] /\ b[3 + Len(lead) + Len(raw) + 2] = tail[2]
    BY <1>6
  <2> QED
    BY <1>4, <1>8, <2>1
<1>15. decode_address(b, 4) = a
  <2>1. decode_address(b, 4) = [host |-> host, port |-> a.port]
    BY <1>13, <1>14 DEF decode_address
  <2>2. a = [host |-> host, port |-> a.port]
    BY DEF Address, host
  <2> QED
    BY <2>1, <2>2
<1> QED
  BY <1>2, <1>6, <1>7, <1>9, <1>10, <1>11, <1>15 DEF host

\* What stands behind a prefix that is cut off.
LEMMA DropPrefix ==
  ASSUME NEW b \in Bytes, NEW c \in Bytes
  PROVE  Drop(b \o c, Len(b)) = c
<1> DEFINE whole == b \o c
           rest  == Drop(whole, Len(b))
<1>1. /\ whole \in Bytes /\ Len(whole) = Len(b) + Len(c) /\ Len(b) \in Nat /\ Len(c) \in Nat
      /\ \A i \in 1 .. Len(b) + Len(c) : whole[i] = IF i <= Len(b) THEN b[i] ELSE c[i - Len(b)]
  BY ConcatType, TwoParts
<1> HIDE DEF whole
<1>2. /\ rest \in Bytes /\ Len(rest) = Len(c)
      /\ \A i \in 1 .. Len(whole) - Len(b) : rest[i] = whole[Len(b) + i]
  <2>1. /\ rest \in Bytes
        /\ Len(rest) = IF Len(b) <= Len(whole) THEN Len(whole) - Len(b) ELSE 0
        /\ \A i \in 1 .. Len(whole) - Len(b) : rest[i] = whole[Len(b) + i]
    BY <1>1, DropType
  <2> HIDE DEF rest
  <2>2. Len(rest) = Len(c)
    BY <1>1, <2>1
  <2> QED
    BY <2>1, <2>2
<1> HIDE DEF rest
<1>3. ASSUME NEW i \in 1 .. Len(c)
      PROVE  rest[i] = c[i]
  <2>1. /\ i \in 1 .. Len(whole) - Len(b) /\ Len(b) + i \in 1 .. Len(b) + Len(c)
        /\ ~(Len(b) + i <= Len(b)) /\ Len(b) + i - Len(b) = i
    BY <1>1
  <2> QED
    BY <1>1, <1>2, <2>1
<1>4. rest = c
  <2>1. rest \in Seq(Byte) /\ c \in Seq(Byte)
    BY <1>2 DEF Bytes
  <2> QED
    BY <1>2, <1>3, <2>1, SeqEqual
<1> QED
  BY <1>4 DEF rest, whole

LEMMA EndStable ==
  ASSUME NEW b \in Bytes, NEW c \in Bytes, NEW p \in Nat \ {0}, HasAddress(b, p)
  PROVE  AddressEnd(b \o c, p) = AddressEnd(b, p)
<1>1. /\ p <= Len(b) /\ p + 1 \in Nat /\ 1 <= p + 1
      /\ b[p] = Domain => p + 1 <= Len(b)
  BY DEF HasAddress
<1>2. (b \o c)[p] = b[p] /\ (b[p] = Domain => (b \o c)[p + 1] = b[p + 1])
  BY <1>1, PrefixByte
<1> QED
  BY <1>2 DEF AddressEnd, AddrLast

-----------------------------------------------------------------------------
(* What a message means to whoever reads it, whatever stands behind it. *)

LEMMA GreetingMeans ==
  ASSUME NEW ms \in Bytes, Len(ms) <= MaxByte, NEW t \in Bytes
  PROVE  LET s == client_greeting(ms) \o t
         IN  /\ s \in Bytes /\ s # <<>> /\ s[1] = Ver
             /\ HasGreeting(s) /\ parse_greeting(s) = ms
             /\ Drop(s, 2 + s[2]) = t
<1> DEFINE pre == <<Ver, Len(ms)>>
           b   == pre \o ms
           s   == b \o t
<1>1. Len(ms) \in Nat /\ Len(ms) \in Byte /\ 1 \in Nat
  BY ByteFacts DEF Bytes, Byte
<1>2. pre \in Bytes /\ Len(pre) = 2 /\ pre[1] = Ver /\ pre[2] = Len(ms)
  BY <1>1, ByteFacts DEF Bytes, Ver
<1> HIDE DEF pre
<1>3. /\ b \in Bytes /\ Len(b) = 2 + Len(ms) /\ b[1] = Ver /\ b[2] = Len(ms)
      /\ \A i \in 1 .. Len(ms) : b[2 + i] = ms[i]
  <2>1. /\ b \in Bytes /\ Len(b) = Len(pre) + Len(ms)
        /\ \A i \in 1 .. Len(pre) + Len(ms) :
             b[i] = IF i <= Len(pre) THEN pre[i] ELSE ms[i - Len(pre)]
    BY <1>2, TwoParts
  <2>2. b[1] = pre[1] /\ b[2] = pre[2]
    BY <1>1, <1>2, <2>1
  <2>3. ASSUME NEW i \in 1 .. Len(ms) PROVE b[2 + i] = ms[i]
    BY <1>1, <1>2, <2>1
  <2> QED
    BY <1>2, <2>1, <2>2, <2>3
<1> HIDE DEF b
<1>4. HasGreeting(b)
  BY <1>1, <1>3 DEF HasGreeting
<1>5. parse_greeting(b) = ms
  <2>1. \A i \in 1 .. Len(ms) : b[3 - 1 + i] = ms[i]
    BY <1>3
  <2>2. 3 \in Nat \ {0} /\ 3 + Len(ms) - 1 <= Len(b) /\ 3 + Len(ms) - 1 = 2 + b[2]
    BY <1>1, <1>3
  <2>3. SubSeq(b, 3, 3 + Len(ms) - 1) = ms
    BY <1>3, <2>1, <2>2, SamePiece
  <2> QED
    BY <2>2, <2>3 DEF parse_greeting
<1>6. s \in Bytes /\ HasGreeting(s) /\ parse_greeting(s) = ms
  BY <1>3, <1>4, <1>5, GreetingKept, ConcatType
<1>7. s[1] = Ver /\ s[2] = b[2] /\ s # <<>>
  <2>1. 1 \in Nat /\ 1 <= 1 /\ 1 <= Len(b) /\ 2 <= Len(b)
    BY <1>1, <1>3
  <2>2. s[1] = b[1] /\ s[2] = b[2] /\ 1 <= Len(s)
    BY <1>3, <2>1, PrefixByte, GreetingStable
  <2> QED
    BY <1>3, <2>2, EmptySeq
<1>8. Drop(s, 2 + s[2]) = t
  BY <1>3, <1>7, DropPrefix
<1>9. s = client_greeting(ms) \o t
  BY DEF b, pre, client_greeting
<1> HIDE DEF s
<1> QED
  BY <1>6, <1>7, <1>8, <1>9

LEMMA UserpassMeans ==
  ASSUME NEW u \in Bytes, NEW p \in Bytes, Len(u) <= MaxByte, Len(p) <= MaxByte,
         NEW t \in Bytes
  PROVE  LET s == userpass_auth(u, p) \o t
         IN  /\ s \in Bytes /\ s[1] = AuthVer
             /\ HasUserpass(s) /\ parse_userpass(s) = [user |-> u, pass |-> p]
             /\ Drop(s, 3 + s[2] + s[3 + s[2]]) = t
<1> DEFINE pre == <<AuthVer, Len(u)>>
           mid == <<Len(p)>>
           b   == pre \o ((u \o mid) \o p)
           m   == Len(u)
           n   == Len(p)
           s   == b \o t
<1>1. m \in Nat /\ n \in Nat /\ m \in Byte /\ n \in Byte
  BY ByteFacts DEF Bytes, Byte
<1>2. /\ pre \in Bytes /\ Len(pre) = 2 /\ pre[1] = AuthVer /\ pre[2] = m
      /\ mid \in Bytes /\ Len(mid) = 1 /\ mid[1] = n
  BY <1>1, ByteFacts DEF Bytes, AuthVer
<1>3. userpass_auth(u, p) = b
  <2>1. userpass_auth(u, p) = ((pre \o u) \o mid) \o p
    BY DEF userpass_auth
  <2> HIDE DEF pre, mid
  <2>2. (pre \o u) \o mid = pre \o (u \o mid)
    BY <1>2, BytesAssociative
  <2>3. u \o mid \in Bytes
    BY <1>2, ConcatType
  <2>4. (pre \o (u \o mid)) \o p = pre \o ((u \o mid) \o p)
    <3>1. Regroups(pre, u \o mid, p)
      BY <1>2, <2>3, BytesRegroup
    <3> QED
      BY <3>1, Zenon DEF Regroups
  <2> QED
    BY <2>1, <2>2, <2>4, Zenon
<1> HIDE DEF pre, mid
<1>4. IsRow(b, pre, u, mid, p)
  BY <1>2, Row
<1> HIDE DEF b
<1>5. /\ b \in Bytes /\ Len(b) = 2 + m + 1 + n
      /\ \A i \in 1 .. Len(b) :
           b[i] = IF i <= 2 THEN pre[i]
                  ELSE IF i <= 2 + m THEN u[i - 2]
                  ELSE IF i <= 2 + m + 1 THEN mid[i - 2 - m]
                  ELSE p[i - 2 - m - 1]
  BY <1>2, <1>4 DEF IsRow
<1>6. b[1] = AuthVer /\ b[2] = m /\ b[3 + m] = n
  <2>1. 1 \in 1 .. Len(b) /\ 2 \in 1 .. Len(b) /\ 3 + m \in 1 .. Len(b)
    BY <1>1, <1>5
  <2>2. b[1] = pre[1] /\ b[2] = pre[2]
    BY <1>5, <2>1
  <2>3. b[3 + m] = mid[3 + m - 2 - m] /\ 3 + m - 2 - m = 1
    BY <1>1, <1>5, <2>1
  <2> QED
    BY <1>2, <2>2, <2>3
<1>7. HasUserpass(b)
  BY <1>1, <1>5, <1>6 DEF HasUserpass
<1>8. SubSeq(b, 3, 3 + m - 1) = u
  <2>1. ASSUME NEW i \in 1 .. m PROVE b[3 - 1 + i] = u[i]
    <3>1. 2 + i \in 1 .. Len(b) /\ ~(2 + i <= 2) /\ 2 + i <= 2 + m /\ 2 + i - 2 = i
      BY <1>1, <1>5
    <3>2. b[2 + i] = u[2 + i - 2]
      BY <1>5, <3>1
    <3> QED
      BY <3>1, <3>2
  <2>2. 3 \in Nat \ {0} /\ 3 + m - 1 <= Len(b)
    BY <1>1, <1>5
  <2> QED
    BY <1>5, <2>1, <2>2, SamePiece
<1>9. SubSeq(b, 4 + m, 4 + m + n - 1) = p
  <2>1. ASSUME NEW i \in 1 .. n PROVE b[4 + m - 1 + i] = p[i]
    <3>1. /\ 3 + m + i \in 1 .. Len(b) /\ ~(3 + m + i <= 2) /\ ~(3 + m + i <= 2 + m)
          /\ ~(3 + m + i <= 2 + m + 1) /\ 3 + m + i - 2 - m - 1 = i
          /\ 4 + m - 1 + i = 3 + m + i
      BY <1>1, <1>5
    <3>2. b[3 + m + i] = p[3 + m + i - 2 - m - 1]
      BY <1>5, <3>1
    <3> QED
      BY <3>1, <3>2
  <2>2. 4 + m \in Nat \ {0} /\ 4 + m + n - 1 <= Len(b)
    BY <1>1, <1>5
  <2> QED
    BY <1>5, <2>1, <2>2, SamePiece
<1>10. parse_userpass(b) = [user |-> u, pass |-> p]
  <2>1. 3 + m - 1 = 2 + m /\ 4 + m + n - 1 = 3 + m + n
    BY <1>1
  <2> QED
    BY <1>6, <1>8, <1>9, <2>1 DEF parse_userpass
<1>11. /\ s \in Bytes /\ HasUserpass(s) /\ parse_userpass(s) = [user |-> u, pass |-> p]
       /\ s[2] = m /\ s[3 + m] = n
  <2>1. /\ HasUserpass(b \o t) /\ parse_userpass(b \o t) = parse_userpass(b)
        /\ (b \o t)[2] = b[2] /\ (b \o t)[3 + b[2]] = b[3 + b[2]]
    BY <1>5, <1>7, UserpassStable
  <2>2. b \o t \in Bytes
    BY <1>5, ConcatType
  <2> QED
    BY <1>6, <1>10, <2>1, <2>2
<1>12. s[1] = AuthVer
  <2>1. 1 \in Nat /\ 1 <= 1 /\ 1 <= Len(b)
    BY <1>1, <1>5
  <2> QED
    BY <1>5, <1>6, <2>1, PrefixByte
<1>13. Drop(s, 3 + s[2] + s[3 + s[2]]) = t
  <2>1. 3 + m + n = Len(b)
    BY <1>1, <1>5
  <2>2. Drop(b \o t, Len(b)) = t
    BY <1>5, DropPrefix
  <2> QED
    BY <1>11, <2>1, <2>2
<1>14. s = userpass_auth(u, p) \o t
  BY <1>3
<1> HIDE DEF s
<1> QED
  BY <1>11, <1>12, <1>13, <1>14

\* No address field is longer than the one of the longest name.
LEMMA AddressShort ==
  ASSUME NEW b \in Bytes, HasAddress(b, 4)
  PROVE  AddressEnd(b, 4) <= MaxByte + 7
<1>1. MaxByte \in Nat /\ MaxByte >= 15
  BY CodecAssumption
<1>2. b[4] \in {IPv4, IPv6, Domain} /\ (b[4] = Domain => 5 <= Len(b))
  BY DEF HasAddress, Atyps
<1>3. b[4] = Domain => b[5] \in Nat /\ b[5] <= MaxByte
  <2>1. 5 \in Nat /\ 1 <= 5
    OBVIOUS
  <2>2. b[4] = Domain => b[5] \in Byte
    BY <1>2, <2>1, ByteAt
  <2> QED
    BY <1>1, <2>2 DEF Byte
<1>4. /\ b[4] = IPv4 => AddrLast(b, 4) = 8
      /\ b[4] = IPv6 => AddrLast(b, 4) = 20
      /\ b[4] = Domain => AddrLast(b, 4) = 4 + 1 + b[4 + 1]
  BY DEF AddrLast, IPv4, IPv6, Domain
<1> QED
  BY <1>1, <1>2, <1>3, <1>4 DEF AddressEnd

LEMMA RequestMeans ==
  ASSUME NEW cmd \in Byte, NEW a \in Address, Encodable(a.host), Canonical(a.host)
  PROVE  LET b == request(cmd, a)
         IN  /\ b \in Bytes /\ b # <<>> /\ b[1] = Ver /\ Len(b) <= MaxByte + 7
             /\ HasRequest(b) /\ parse_request(b) = [cmd |-> cmd, dst |-> a]
<1> DEFINE pre == <<Ver, cmd, 0>>
           b   == pre \o encode_address(a)
<1>1. pre \in Bytes /\ Len(pre) = 3 /\ pre[1] = Ver /\ pre[2] = cmd
  BY ByteFacts DEF Bytes, Ver
<1>2. b = request(cmd, a)
  BY DEF request
<1> HIDE DEF pre
<1>3. /\ b \in Bytes /\ Len(b) >= 4 /\ HasAddress(b, 4) /\ decode_address(b, 4) = a
      /\ AddressEnd(b, 4) = Len(b) /\ \A i \in 1 .. 3 : b[i] = pre[i]
  BY <1>1, DecodeEncode
<1>4. b[1] = Ver /\ b[2] = cmd
  BY <1>1, <1>3
<1> HIDE DEF b
<1>5. b # <<>>
  BY <1>3, EmptySeq
<1>6. Len(b) <= MaxByte + 7
  BY <1>3, AddressShort
<1>7. HasRequest(b) /\ parse_request(b) = [cmd |-> cmd, dst |-> a]
  BY <1>3, <1>4 DEF HasRequest, parse_request
<1> QED
  BY <1>2, <1>3, <1>4, <1>5, <1>6, <1>7

=============================================================================
