---------------------------- MODULE MCCodecStream ----------------------------
(* Every buffer over a few bytes: versions, lengths, ATYPs and contents.     *)
EXTENDS CodecStream

MCSpelled     == [n \in {<<1>>} |-> [atyp |-> IPv4, raw |-> <<1, 1, 1, 1>>]]
MCUndecodable == {<<2>>}

\* The fourth byte is the ATYP of a request, reply or datagram; 22 bytes make
\* the longest of them with an IPv6 address.
MCAlphabet ==
  [i \in 1 .. 23 |->
     CASE i = 1         -> {1, 4, 5}
       [] i \in {2, 5}  -> {0, 1, 2}
       [] i = 4         -> {0, 1, 3, 4}
       [] i \in {3, 6, 7, 8, 9, 10} -> {0, 1}
       [] OTHER         -> {2}]
=============================================================================
