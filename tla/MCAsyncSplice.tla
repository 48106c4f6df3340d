---------------------------- MODULE MCAsyncSplice ----------------------------
(* Two short streams through async_splice().                                 *)
EXTENDS AsyncSplice
MCSource == [out |-> <<1, 2, 3, 4>>, in |-> <<5, 6, 7>>]
=============================================================================
