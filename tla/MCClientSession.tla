-------------------------- MODULE MCClientSession --------------------------
(* Proxies that behave and proxies that do not.                              *)
EXTENDS ClientSession

V4   == [atyp |-> IPv4, raw |-> <<1, 2, 3, 4>>]
V6   == [atyp |-> IPv6, raw |-> [i \in 1 .. 16 |-> i % 16]]
Name == [atyp |-> Domain, raw |-> <<7, 6>>]
At(h) == [host |-> h, port |-> 80]

Ok(h)  == reply(Rep.SUCCEEDED, At(h))
Plain  == method_selection(Method.NO_AUTH)
Login  == method_selection(Method.USERPASS) \o auth_reply(0)
Banner == <<5, 0>>

MCSpelled     == [n \in {<<1, 6>>} |-> V4]
MCUndecodable == {<<8>>}

MCStreams ==
  { Plain \o Ok(V4) \o Banner,
    Plain \o Ok(V6),
    Plain \o Ok(Name) \o Banner,
    Plain \o Ok([atyp |-> Domain, raw |-> <<1, 6>>]),
    Plain \o Ok([atyp |-> Domain, raw |-> <<8>>]) \o Banner,
    Plain \o reply(Rep.CONN_REFUSED, Unbound),
    Plain \o <<4, 0, 0, IPv4, 1, 2, 3, 4, 0, 8>>,
    Plain \o <<Ver, 0, 0, 9, 1, 2, 3, 4>>,
    Login \o Ok(V4) \o Banner,
    Login \o Ok(Name),
    method_selection(Method.USERPASS) \o auth_reply(1) \o Banner,
    method_selection(Method.USERPASS) \o Ok(V4),
    method_selection(Method.NO_ACCEPTABLE),
    <<4, 0>> \o Ok(V4),
    <<>>, Plain \o <<Ver, 0, 0, Domain>> }
=============================================================================
