---------------------------- MODULE MCMCPManager ----------------------------
(* MCPManager on instances TLC can enumerate. *)
EXTENDS MCPManager
=============================================================================
