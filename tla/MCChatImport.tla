---------------------------- MODULE MCChatImport ----------------------------
(* Instances of ChatImport for TLC; its values need no definitions here. *)
EXTENDS ChatImport

=============================================================================
