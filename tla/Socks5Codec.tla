----------------------------- MODULE Socks5Codec -----------------------------
(***************************************************************************)
(* The byte builders and parsers of csrc/socks5_codec.cpp, as they are     *)
(* seen through the CPython binding csrc/module.cpp, and the two length    *)
(* functions Python computes beside them (reply_size, _request_len).       *)
(*                                                                         *)
(* A byte string is a sequence, so data[i] of the source is data[i+1]      *)
(* here.  A parser that returns nullopt / None is a pair of operators: a   *)
(* predicate HasX(b) ("parse_x(b) is not None") and its value parse_x(b).  *)
(*                                                                         *)
(* A host is text in the source.  It is modelled by what inet_pton makes   *)
(* of it: the ATYP it classifies as and the raw bytes that go on the wire. *)
(***************************************************************************)
EXTENDS Integers, Sequences

CONSTANTS
  MaxByte,      \* the largest value of a byte: 255 in the code
  Spelled,      \* domain names (byte strings) that spell an IP literal,
                \* with the literal host each one spells
  Undecodable   \* byte strings that are not UTF-8

Byte  == 0 .. MaxByte
Bytes == Seq(Byte)

Ver     == 5
AuthVer == 1
Cmd     == [CONNECT |-> 1, BIND |-> 2, UDP_ASSOCIATE |-> 3]
Method  == [NO_AUTH |-> 0, GSSAPI |-> 1, USERPASS |-> 2, NO_ACCEPTABLE |-> MaxByte]
Rep     == [SUCCEEDED |-> 0, GENERAL_FAILURE |-> 1, NOT_ALLOWED |-> 2,
            NET_UNREACHABLE |-> 3, HOST_UNREACHABLE |-> 4, CONN_REFUSED |-> 5,
            TTL_EXPIRED |-> 6, CMD_NOT_SUPPORTED |-> 7, ATYP_NOT_SUPPORTED |-> 8]
IPv4    == 1
Domain  == 3
IPv6    == 4
Atyps   == {IPv4, Domain, IPv6}

Port        == 0 .. (MaxByte + 1) * (MaxByte + 1) - 1
LiteralHost == [atyp : {IPv4}, raw : [1 .. 4 -> Byte]]
                 \cup [atyp : {IPv6}, raw : [1 .. 16 -> Byte]]
Host        == [atyp : Atyps, raw : Bytes]
Address     == [host : Host, port : Port]

\* The codes above are bytes, a request with an IPv6 address is no longer than
\* one with the longest name, and a spelled literal is a literal.
ASSUME CodecAssumption ==
  /\ MaxByte \in Nat
  /\ MaxByte >= 15
  /\ \A name \in DOMAIN Spelled : name \in Bytes /\ Spelled[name] \in LiteralHost
  /\ \A s \in Undecodable : s \in Bytes

\* del buf[:n]
Drop(b, n) == SubSeq(b, n + 1, Len(b))

-----------------------------------------------------------------------------
(* Address codec. *)

\* The text a decoded address field becomes.  Re-encoding a domain name that
\* spells a literal yields the literal's ATYP, not a domain.
HostText(atyp, raw) ==
  IF atyp = Domain /\ raw \in DOMAIN Spelled
    THEN Spelled[raw]
    ELSE [atyp |-> atyp, raw |-> raw]

\* encode_address raises length_error on a long name; the binding's "s" format
\* refuses a name with an embedded NUL before that.
Encodable(host) ==
  host.atyp = Domain =>
    /\ Len(host.raw) <= MaxByte
    /\ \A i \in 1 .. Len(host.raw) : host.raw[i] # 0

push_port(port) == <<port \div (MaxByte + 1), port % (MaxByte + 1)>>

encode_address(a) ==
  (IF a.host.atyp = Domain THEN <<Domain, Len(a.host.raw)>> ELSE <<a.host.atyp>>)
    \o a.host.raw \o push_port(a.port)

\* The indices of the first and of the last raw address byte of the address
\* field whose ATYP is b[p].
AddrFirst(b, p) == IF b[p] = Domain THEN p + 2 ELSE p + 1
AddrLast(b, p)  == CASE b[p] = IPv4   -> p + 4
                     [] b[p] = IPv6   -> p + 16
                     [] b[p] = Domain -> p + 1 + b[p + 1]

HasAddress(b, p) ==
  /\ p <= Len(b)
  /\ b[p] \in Atyps
  /\ b[p] = Domain => p + 1 <= Len(b)
  /\ AddrLast(b, p) + 2 <= Len(b)

RawAddress(b, p) == SubSeq(b, AddrFirst(b, p), AddrLast(b, p))

decode_address(b, p) ==
  LET e == AddrLast(b, p)
  IN  [host |-> HostText(b[p], RawAddress(b, p)),
       port |-> b[e + 1] * (MaxByte + 1) + b[e + 2]]

\* The position decode_address leaves `pos' at: how many bytes it used.
AddressEnd(b, p) == AddrLast(b, p) + 2

-----------------------------------------------------------------------------
(* TCP control channel, client side. *)

client_greeting(methods) == <<Ver, Len(methods)>> \o methods

HasMethodSelection(b)     == Len(b) >= 2 /\ b[1] = Ver
parse_method_selection(b) == b[2]

userpass_auth(user, pass) ==
  <<AuthVer, Len(user)>> \o user \o <<Len(pass)>> \o pass

HasAuthReply(b)     == Len(b) >= 2 /\ b[1] = AuthVer
parse_auth_reply(b) == b[2]

request(cmd, dst) == <<Ver, cmd, 0>> \o encode_address(dst)

HasReply(b)    == Len(b) >= 4 /\ b[1] = Ver /\ HasAddress(b, 4)
parse_reply(b) == [rep |-> b[2], bound |-> decode_address(b, 4)]

\* Python's own measure of a request or reply, from VER x RSV ATYP on: the
\* same function twice, reply_size for the client, _request_len for the
\* server.  HasSize is "the result is not None".
HasSize(b) ==
  /\ Len(b) >= 4
  /\ b[4] \in Atyps
  /\ b[4] = Domain => Len(b) >= 5

\* Mutant: the length byte of a name is not counted.
Size_NoLength(b) == CASE b[4] = IPv4   -> 4 + 4 + 2
                      [] b[4] = IPv6   -> 4 + 16 + 2
                      [] b[4] = Domain -> 4 + b[5] + 2
Size(b) == CASE b[4] = IPv4   -> 4 + 4 + 2
             [] b[4] = IPv6   -> 4 + 16 + 2
             [] b[4] = Domain -> 4 + 1 + b[5] + 2

-----------------------------------------------------------------------------
(* TCP control channel, server side. *)

HasGreeting(b)    == Len(b) >= 2 /\ b[1] = Ver /\ Len(b) >= 2 + b[2]
parse_greeting(b) == SubSeq(b, 3, 2 + b[2])

method_selection(method) == <<Ver, method>>

HasUserpass(b) ==
  /\ Len(b) >= 2
  /\ b[1] = AuthVer
  /\ Len(b) >= 3 + b[2]
  /\ Len(b) >= 3 + b[2] + b[3 + b[2]]
\* Mutant: PLEN is not used.
parse_userpass_Rest(b) ==
  [user |-> SubSeq(b, 3, 2 + b[2]), pass |-> Drop(b, 3 + b[2])]
parse_userpass(b) ==
  [user |-> SubSeq(b, 3, 2 + b[2]),
   pass |-> SubSeq(b, 4 + b[2], 3 + b[2] + b[3 + b[2]])]

auth_reply(status) == <<AuthVer, status>>

\* Mutant: the version is not looked at.
HasRequest_AnyVersion(b) == Len(b) >= 4 /\ HasAddress(b, 4)
HasRequest(b)    == Len(b) >= 4 /\ b[1] = Ver /\ HasAddress(b, 4)
parse_request(b) == [cmd |-> b[2], dst |-> decode_address(b, 4)]

reply(rep, bound) == <<Ver, rep, 0>> \o encode_address(bound)

\* "0.0.0.0", 0: what an error reply advertises.
Unbound == [host |-> [atyp |-> IPv4, raw |-> <<0, 0, 0, 0>>], port |-> 0]

\* Py_BuildValue decodes the strings it returns as UTF-8 and raises on bytes
\* that are not.  Only a domain name and the credentials are raw peer bytes.
UserpassRaises(b) ==
  LET up == parse_userpass(b)
  IN  up.user \in Undecodable \/ up.pass \in Undecodable
AddressRaises(b, p) == b[p] = Domain /\ RawAddress(b, p) \in Undecodable

-----------------------------------------------------------------------------
(* UDP data channel. *)

udp_encapsulate(dst, payload, frag) ==
  <<0, 0, frag>> \o encode_address(dst) \o payload

HasDatagram(b)     == Len(b) >= 4 /\ HasAddress(b, 4)
\* Mutant: the port is left in the payload.
udp_decapsulate_Early(b) ==
  [frag |-> b[3], origin |-> decode_address(b, 4), payload |-> Drop(b, AddrLast(b, 4))]
udp_decapsulate(b) ==
  [frag |-> b[3], origin |-> decode_address(b, 4), payload |-> Drop(b, AddressEnd(b, 4))]

=============================================================================
