--------------------------- MODULE MCChatSession ----------------------------
(* ChatSession on instances TLC can enumerate. *)
EXTENDS ChatSession
=============================================================================
