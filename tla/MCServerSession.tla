--------------------------- MODULE MCServerSession ---------------------------
(* The sans-IO session alone, its methods called in any order.               *)
EXTENDS ServerSession, MCPeers
=============================================================================
