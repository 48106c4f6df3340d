--------------------------- MODULE MCServerDriver ---------------------------
(* One connection of the threaded or of the asyncio server.                  *)
EXTENDS ServerDriver, MCPeers
=============================================================================
