------------------------------- MODULE MCPeers -------------------------------
(* Values for small instances: bytes 0..15 stand for 0..255, and each stream  *)
(* is one way a peer can behave.                                             *)
EXTENDS Socks5Codec

V4(a, b, c, d) == [atyp |-> IPv4, raw |-> <<a, b, c, d>>]
Name(raw)      == [atyp |-> Domain, raw |-> raw]
At(h, p)       == [host |-> h, port |-> p]

MCSpelled     == [n \in {<<1, 6>>} |-> V4(1, 1, 1, 1)]
MCUndecodable == {<<8>>}

Relayed     == At(V4(1, 2, 3, 4), 80)
Elsewhere   == At(Name(<<7>>), 7)
Unsendable  == At(Name(<<0>>), 7)
MCAddresses == {Unsendable, Elsewhere}
MCElsewhere == {Elsewhere}
MCLocal     == At(V4(1, 1, 1, 1), 7)

Ask(dst) == request(Cmd.CONNECT, dst)
NoAuth   == client_greeting(<<Method.NO_AUTH>>)
Both     == client_greeting(<<Method.USERPASS, Method.NO_AUTH>>)
Creds    == userpass_auth(<<6>>, <<7>>)

PlainStreams ==
  { NoAuth \o Ask(Relayed),
    Both \o Creds \o Ask(At(Name(<<7>>), 7)) }

OddStreams ==
  { <<4, 1, 0>>,                                       \* not SOCKS5
    NoAuth \o <<Ver, 1, 0, 8, 0>>,                  \* unknown ATYP
    NoAuth \o <<4, 1, 0, IPv4, 1, 2, 3, 4, 0, 8>>,     \* bad version in a request
    NoAuth \o request(Cmd.UDP_ASSOCIATE, Relayed),     \* not CONNECT
    NoAuth \o Ask(At(Name(<<1, 6>>), 7)),              \* a name spelling a literal
    NoAuth \o Ask(At(Name(<<8>>), 7)),                 \* a name that is not UTF-8
    Both \o userpass_auth(<<8>>, <<>>),                \* a user that is not UTF-8
    Both \o [i \in 1 .. 34 |-> 6],                     \* no userpass message at all
    NoAuth \o Ask(At(Name(<<0>>), 7)),                 \* a name that cannot be sent back
    NoAuth \o Ask(Relayed) \o <<7>>,                   \* early tunnel data
    NoAuth \o Ask(At([atyp |-> IPv6, raw |-> [i \in 1 .. 16 |-> i % 16]], 80)) }

Truncated ==
  { <<Ver>>, NoAuth \o <<Ver, 1>>, Both \o <<AuthVer, 2, 6>> }

AllStreams == PlainStreams \cup OddStreams \cup Truncated
=============================================================================
