-------------------------- MODULE MCConversations --------------------------
(***************************************************************************)
(* Small instances of the conversations for TLC; the constants are in the  *)
(* cfg file.                                                               *)
(***************************************************************************)
EXTENDS ConversationProperties
=============================================================================
