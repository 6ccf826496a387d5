---------------------------- MODULE MCChatStream ----------------------------
(* Instances of ChatStream for TLC. *)
EXTENDS ChatStream
=============================================================================
