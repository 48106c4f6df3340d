--------------------------- MODULE CodecStreamProofs ---------------------------
(***************************************************************************)
(* Theorems about the codec, for every MaxByte and buffers of any bytes    *)
(* and any length: the two languages measure alike, a parsed value is not  *)
(* changed by what follows it, and what was parsed can be sent on.         *)
(***************************************************************************)
EXTENDS CodecStream, Socks5CodecProofs

-----------------------------------------------------------------------------
(* The wire. *)

LEMMA AppendedByte ==
  ASSUME NEW b \in Bytes, NEW x \in Byte
  PROVE  Append(b, x) = b \o <<x>> /\ <<x>> \in Bytes /\ Append(b, x) \in Bytes
<1>1. <<x>> \in Bytes
  BY DEF Bytes
<1>2. Append(b, x) = b \o <<x>> /\ Append(b, x) \in Bytes
  BY AppendIsConcat, AppendProperties DEF Bytes
<1> QED
  BY <1>1, <1>2

LEMMA WireGrows ==
  ASSUME wire \in Bytes, [Next]_wire
  PROVE  wire' = wire \/ \E c \in Bytes : wire' = wire \o c
<1>1. CASE Next
  <2>1. PICK x \in Alphabet[Len(wire) + 1] : wire' = Append(wire, x)
    BY <1>1 DEF Next
  <2>2. x \in Byte
    BY <1>1, AlphabetAssumption DEF Next
  <2> QED
    BY <2>1, <2>2, AppendedByte
<1> QED
  BY <1>1

LEMMA WireIsBytes == Spec => [](wire \in Bytes)
<1>1. Init => wire \in Bytes
  BY EmptySeq DEF Init, Bytes
<1>2. wire \in Bytes /\ [Next]_wire => (wire \in Bytes)'
  <2> SUFFICES ASSUME wire \in Bytes, [Next]_wire PROVE wire' \in Bytes
    OBVIOUS
  <2> QED
    BY WireGrows, ConcatType
<1> QED
  BY <1>1, <1>2, PTL DEF Spec

-----------------------------------------------------------------------------
(* Two languages. *)

LEMMA SizersMatch ==
  ASSUME wire \in Bytes
  PROVE  SizersAgree
<1>1. HasSize(wire) /\ Len(wire) >= Size(wire) /\ wire[1] = Ver <=> HasRequest(wire)
  BY SizeIsEnd DEF HasRequest
<1>2. ASSUME HasRequest(wire)
      PROVE  /\ AddressEnd(wire, 4) = Size(wire)
             /\ HasRequest(SubSeq(wire, 1, Size(wire)))
             /\ parse_request(SubSeq(wire, 1, Size(wire))) = parse_request(wire)
  <2> DEFINE n == Size(wire)
             c == SubSeq(wire, 1, n)
             d == Drop(wire, n)
  <2>1. AddressEnd(wire, 4) = n
    BY <1>2, SizeIsEnd DEF HasRequest
  <2>2. /\ HasSize(wire) /\ Len(wire) >= n /\ wire[1] = Ver /\ n \in Nat /\ n >= 7
        /\ Len(wire) \in Nat
    BY <1>1, <1>2, SizeFacts, LenProperties DEF Bytes
  <2>3. c \in Bytes /\ d \in Bytes /\ c \o d = wire /\ Len(c) = n
        /\ \A i \in 1 .. n : c[i] = wire[i]
    <3>1. n \in 0 .. Len(wire)
      BY <2>2
    <3>2. \A i \in 1 .. n : wire[i] \in Byte
      BY <2>2, ElementOfSeq DEF Bytes
    <3>3. Len(c) = n /\ \A i \in 1 .. n : c[i] = wire[1 + i - 1]
      BY <2>2, <3>2, SubSeqProperties
    <3>4. \A i \in 1 .. n : c[i] = wire[i]
      <4>1. \A i \in 1 .. n : 1 + i - 1 = i
        BY <2>2
      <4> QED
        BY <3>3, <4>1
    <3>5. c \in Bytes /\ c \o d = wire
      BY <3>1, TakeAndDrop
    <3>6. d \in Bytes
      BY <2>2, DropType
    <3> HIDE DEF c, d, n
    <3> QED
      BY <3>3, <3>4, <3>5, <3>6
  <2>4. HasSize(c)
    BY <2>2, <2>3 DEF HasSize
  <2> HIDE DEF c, d
  <2>5. Size(c) = n
    BY <2>3, <2>4, SizeStable
  <2>6. Len(c) >= 4 /\ HasAddress(c, 4)
    BY <2>2, <2>3, <2>4, <2>5, SizeIsEnd
  <2>7. HasRequest(c)
    BY <2>2, <2>3, <2>6 DEF HasRequest
  <2>8. parse_request(c \o d) = parse_request(c)
    BY <2>3, <2>7, RequestStable
  <2> QED
    BY <2>1, <2>3, <2>7, <2>8 DEF c
<1> QED
  BY <1>1, <1>2 DEF SizersAgree

\* What Python takes for a whole request is what C++ parses, whatever the bytes.
THEOREM OneMeasure == Spec => []SizersAgree
BY WireIsBytes, SizersMatch, PTL

-----------------------------------------------------------------------------
(* More bytes. *)

\* A value that was parsed from the start of a buffer is not changed by what follows:
\* `del buf[:n]' of both sessions leaves the next message.
THEOREM MoreBytesChangeNothing == Spec => ParsersStable
<1> DEFINE Kept ==
      /\ HasMethodSelection(wire) =>
           HasMethodSelection(wire') /\ parse_method_selection(wire') = parse_method_selection(wire)
      /\ HasGreeting(wire) =>
           HasGreeting(wire') /\ parse_greeting(wire') = parse_greeting(wire)
      /\ HasUserpass(wire) =>
           HasUserpass(wire') /\ parse_userpass(wire') = parse_userpass(wire)
      /\ HasSize(wire) => HasSize(wire') /\ Size(wire') = Size(wire)
      /\ HasReply(wire) =>
           HasReply(wire') /\ parse_reply(wire') = parse_reply(wire)
<1>1. wire \in Bytes /\ [Next]_wire => [Kept]_wire
  <2> SUFFICES ASSUME wire \in Bytes, NEW c \in Bytes, wire' = wire \o c
               PROVE  Kept
    BY WireGrows
  <2> QED
    BY SelectionKept, GreetingKept, UserpassStable, SizeStable, ReplyKept
<1> QED
  BY <1>1, WireIsBytes, PTL DEF Spec, ParsersStable

-----------------------------------------------------------------------------
(* Sending on what was parsed. *)

LEMMA RequestResent ==
  ASSUME wire \in Bytes
  PROVE  AddressRoundTrip
<1> SUFFICES ASSUME HasRequest(wire), Encodable(parse_request(wire).dst.host)
             PROVE  /\ HasRequest(request(Cmd.CONNECT, parse_request(wire).dst))
                    /\ parse_request(request(Cmd.CONNECT, parse_request(wire).dst)).dst
                         = parse_request(wire).dst
  BY DEF AddressRoundTrip
<1> DEFINE dst == parse_request(wire).dst
           pre == <<Ver, Cmd.CONNECT, 0>>
           b   == pre \o encode_address(dst)
<1>1. dst \in Address /\ Encodable(dst.host) /\ Canonical(dst.host)
  <2>1. HasAddress(wire, 4) /\ dst = decode_address(wire, 4)
    BY DEF HasRequest, parse_request
  <2> QED
    BY <2>1, RequestFacts, DecodedCanonical
<1>2. pre \in Bytes /\ Len(pre) = 3 /\ pre[1] = Ver
  BY ByteFacts DEF Bytes, Ver, Cmd
<1>3. request(Cmd.CONNECT, dst) = b
  BY DEF request
<1> HIDE DEF dst, pre
<1>4. /\ Len(b) >= 4 /\ b[1] = pre[1]
      /\ HasAddress(b, 4) /\ decode_address(b, 4) = dst
  BY <1>1, <1>2, DecodeEncode
<1> HIDE DEF b
<1>5. HasRequest(b) /\ parse_request(b).dst = dst
  BY <1>2, <1>4 DEF HasRequest, parse_request
<1> QED
  BY <1>3, <1>5 DEF dst

LEMMA DatagramResent ==
  ASSUME wire \in Bytes
  PROVE  DatagramRoundTrip
<1> DEFINE d    == udp_decapsulate(wire)
           sent == udp_encapsulate(d.origin, d.payload, d.frag)
<1> SUFFICES ASSUME HasDatagram(wire), Encodable(d.origin.host)
             PROVE  /\ HasDatagram(sent)
                    /\ udp_decapsulate(sent) = d
                    /\ AddressEnd(wire, 4) + Len(d.payload) = Len(wire)
  BY DEF DatagramRoundTrip
<1> DEFINE pre == <<0, 0, d.frag>>
           b   == pre \o encode_address(d.origin)
<1>1. HasAddress(wire, 4) /\ Len(wire) >= 4 /\ Len(wire) \in Nat
  BY LenProperties DEF HasDatagram, Bytes
<1>2. /\ d.frag = wire[3] /\ d.origin = decode_address(wire, 4)
      /\ d.payload = Drop(wire, AddressEnd(wire, 4))
      /\ d = [frag |-> d.frag, origin |-> d.origin, payload |-> d.payload]
  BY DEF udp_decapsulate
<1>3. d.frag \in Byte
  BY <1>1, <1>2, ByteAt
<1>4. d.origin \in Address /\ Encodable(d.origin.host) /\ Canonical(d.origin.host)
  BY <1>1, <1>2, DecodeAddressType, DecodedCanonical
<1>5. AddressEnd(wire, 4) \in Nat /\ AddressEnd(wire, 4) <= Len(wire)
  BY <1>1, AddressBounds DEF AddressEnd
<1>6. d.payload \in Bytes /\ AddressEnd(wire, 4) + Len(d.payload) = Len(wire)
  <2>1. /\ Drop(wire, AddressEnd(wire, 4)) \in Bytes
        /\ Len(Drop(wire, AddressEnd(wire, 4))) = Len(wire) - AddressEnd(wire, 4)
    BY <1>5, DropType
  <2> QED
    BY <1>1, <1>2, <1>5, <2>1
<1>7. pre \in Bytes /\ Len(pre) = 3 /\ pre[3] = d.frag
  BY <1>3, ByteFacts DEF Bytes
<1>8. encode_address(d.origin) \in Bytes
  BY <1>4, EncodeAddressType
<1>9. sent = b \o d.payload
  <2>1. sent = pre \o (encode_address(d.origin) \o d.payload)
               \/ sent = (pre \o encode_address(d.origin)) \o d.payload
    BY DEF udp_encapsulate
  <2> HIDE DEF sent, pre, d
  <2> QED
    BY <1>6, <1>7, <1>8, <2>1, BytesAssociative
<1> HIDE DEF sent, pre, d
<1>10. /\ b \in Bytes /\ Len(b) >= 4 /\ b[3] = d.frag
       /\ HasAddress(b, 4) /\ decode_address(b, 4) = d.origin
       /\ AddressEnd(b, 4) = Len(b)
  <2>1. /\ b \in Bytes /\ Len(b) >= 4 /\ HasAddress(b, 4) /\ decode_address(b, 4) = d.origin
        /\ AddressEnd(b, 4) = Len(b)
    BY <1>4, <1>7, DecodeEncode
  <2>2. \A i \in 1 .. 3 : b[i] = pre[i]
    BY <1>4, <1>7, DecodeEncode
  <2> QED
    BY <1>7, <2>1, <2>2
<1> HIDE DEF b
<1>11. HasAddress(sent, 4) /\ decode_address(sent, 4) = d.origin
  BY <1>6, <1>9, <1>10, AddressStable
<1>12. sent[3] = d.frag /\ Len(sent) >= 4
  <2>1. Len(b) \in Nat /\ Len(b) <= Len(b \o d.payload) /\ Len(b \o d.payload) \in Nat
    BY <1>6, <1>10, ConcatType
  <2>2. (b \o d.payload)[3] = b[3]
    BY <1>6, <1>10, <2>1, PrefixByte
  <2> QED
    BY <1>9, <1>10, <2>1, <2>2
<1>13. Drop(sent, AddressEnd(sent, 4)) = d.payload
  <2>1. AddressEnd(b \o d.payload, 4) = Len(b)
    BY <1>6, <1>10, EndStable
  <2> QED
    BY <1>6, <1>9, <1>10, <2>1, DropPrefix
<1>14. udp_decapsulate(sent) = d
  BY <1>2, <1>11, <1>12, <1>13 DEF udp_decapsulate
<1> QED
  BY <1>6, <1>11, <1>12, <1>14 DEF HasDatagram

\* An address that was parsed can be sent on, in a request or a datagram, and whoever
\* parses it next gets the same: a name that spells a literal settles in one step.
THEOREM SentOnUnchanged == Spec => []RoundTrips
<1>1. wire \in Bytes => RoundTrips
  BY RequestResent, DatagramResent DEF RoundTrips
<1> QED
  BY <1>1, WireIsBytes, PTL

=============================================================================
