------------------------------ MODULE MCSplice ------------------------------
(* Two short streams through splice().                                       *)
EXTENDS Splice
MCSource == [out |-> <<1, 2, 3>>, in |-> <<4, 5>>]
=============================================================================
