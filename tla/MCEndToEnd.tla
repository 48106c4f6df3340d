----------------------------- MODULE MCEndToEnd -----------------------------
(* One probe of one server.  The credentials are such that their message,     *)
(* read as a request, holds the ATYP of an IPv4 address.                      *)
EXTENDS EndToEnd

Ten(n) == [atyp |-> IPv4, raw |-> <<10, 0, 0, n>>]

MCSpelled     == [n \in {<<1, 6>>} |-> Ten(1)]
MCUndecodable == {<<8>>}
MCStreams     == {<<>>}
MCAddresses   == {}
MCLocal       == [host |-> Ten(1), port |-> 7]
MCDestination == [host |-> Ten(2), port |-> 80]
MCCredentials == [user |-> <<6>>, pass |-> <<7>>]
MCBanner      == <<5, 0>>
=============================================================================
