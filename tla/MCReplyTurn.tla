---------------------------- MODULE MCReplyTurn ----------------------------
(* The instance of ReplyTurn for TLC. *)
EXTENDS ReplyTurn

=============================================================================
