---------------------------- MODULE MCAsyncClient ----------------------------
(* Three tasks and one client.                                               *)
EXTENDS AsyncClient
=============================================================================
