--------------------------- MODULE MCClientConnect ---------------------------
(* Two connections of one client, to proxies that behave or do not.          *)
EXTENDS ClientConnect

V4    == [atyp |-> IPv4, raw |-> <<1, 2, 3, 4>>]
Name  == [atyp |-> Domain, raw |-> <<7, 6>>]
At(h) == [host |-> h, port |-> 80]

Ok(h)  == reply(Rep.SUCCEEDED, At(h))
Plain  == method_selection(Method.NO_AUTH)
Secret == method_selection(Method.USERPASS)
Banner == <<5, 0>>

MCSpelled     == [n \in {<<1, 6>>} |-> V4]
MCUndecodable == {<<8>>}
MCDestination == At(V4)
MCCredentials == [user |-> <<6>>, pass |-> <<7>>]

MCStreams ==
  { Plain \o Ok(V4) \o Banner,
    Plain \o Ok(Name) \o Banner,
    Plain \o Ok([atyp |-> Domain, raw |-> <<8>>]),
    Plain \o reply(Rep.CONN_REFUSED, Unbound),
    Plain \o <<4, 0, 0, IPv4, 1, 2, 3, 4, 0, 8>>,
    Plain \o <<Ver, 0, 0, 9, 1>>,
    Secret \o auth_reply(0) \o Ok(V4) \o Banner,
    Secret \o auth_reply(1) \o Banner,
    Secret \o <<4, 0>>,
    Secret \o <<AuthVer>>,
    method_selection(Method.NO_ACCEPTABLE),
    <<4, 0>> }
=============================================================================
