----------------------------- MODULE CodecStream -----------------------------
(***************************************************************************)
(* The parsers of Socks5Codec on a buffer that grows byte by byte, as both *)
(* session classes call them: on everything that has arrived so far, again *)
(* and again, until they give a value.                                     *)
(***************************************************************************)
EXTENDS Socks5Codec

CONSTANT Alphabet  \* the bytes tried at each position of the buffer

ASSUME AlphabetAssumption == \A i \in DOMAIN Alphabet : Alphabet[i] \subseteq Byte

VARIABLE wire      \* _buf

Init == wire = <<>>

Next == /\ Len(wire) + 1 \in DOMAIN Alphabet
        /\ \E x \in Alphabet[Len(wire) + 1] : wire' = Append(wire, x)

Spec == Init /\ [][Next]_wire

-----------------------------------------------------------------------------
(* Properties. *)

\* Two languages measure one message: Python sizes the request or the reply
\* (_request_len, reply_size) and cuts it out of the buffer, C++ parses it.  What
\* Python holds to be complete is what C++ parses, and they mean the same bytes.
SizersAgree ==
  /\ HasSize(wire) /\ Len(wire) >= Size(wire) /\ wire[1] = Ver <=> HasRequest(wire)
  /\ HasRequest(wire) =>
       /\ AddressEnd(wire, 4) = Size(wire)
       /\ HasRequest(SubSeq(wire, 1, Size(wire)))
       /\ parse_request(SubSeq(wire, 1, Size(wire))) = parse_request(wire)

\* A value, once given, is not changed by the bytes that follow, which belong to
\* the next message: what every `del buf[:n]' of the sessions relies on.
ParsersStable ==
  [][/\ HasMethodSelection(wire) =>
          HasMethodSelection(wire') /\ parse_method_selection(wire') = parse_method_selection(wire)
     /\ HasGreeting(wire) =>
          HasGreeting(wire') /\ parse_greeting(wire') = parse_greeting(wire)
     /\ HasUserpass(wire) =>
          HasUserpass(wire') /\ parse_userpass(wire') = parse_userpass(wire)
     /\ HasSize(wire) => HasSize(wire') /\ Size(wire') = Size(wire)
     /\ HasReply(wire) =>
          HasReply(wire') /\ parse_reply(wire') = parse_reply(wire)]_wire

\* An address that was parsed can be sent on: re-encoding the text of its host,
\* which may change its ATYP (a domain name that spells an IP literal), gives the
\* same host and port to whoever parses it next.
AddressRoundTrip ==
  HasRequest(wire) =>
    LET dst  == parse_request(wire).dst
        sent == request(Cmd.CONNECT, dst)
    IN  Encodable(dst.host) => HasRequest(sent) /\ parse_request(sent).dst = dst

\* A datagram that is unpacked and packed again is the same datagram, whatever
\* follows the address: payload and address are never charged to each other.
DatagramRoundTrip ==
  HasDatagram(wire) =>
    LET d    == udp_decapsulate(wire)
        sent == udp_encapsulate(d.origin, d.payload, d.frag)
    IN  Encodable(d.origin.host) =>
          /\ HasDatagram(sent)
          /\ udp_decapsulate(sent) = d
          /\ AddressEnd(wire, 4) + Len(d.payload) = Len(wire)

\* Decoding and encoding are inverse as far as text allows (socks5_codec.cpp:
\* decode_address, encode_address), on both channels.
RoundTrips == AddressRoundTrip /\ DatagramRoundTrip

=============================================================================
