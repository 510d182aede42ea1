-------------------------- MODULE MCConversations --------------------------
(* Model-checking instances of Conversations. *)
EXTENDS Conversations
=============================================================================
