--------------------------- MODULE MCServerClaims ---------------------------
(* The claims of ServerClaims on the instances of MCServerDriver.            *)
EXTENDS ServerClaims, MCPeers
=============================================================================
