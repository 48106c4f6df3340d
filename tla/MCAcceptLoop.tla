----------------------------- MODULE MCAcceptLoop -----------------------------
(* A server that is started a few times.                                     *)
EXTENDS AcceptLoop
=============================================================================
