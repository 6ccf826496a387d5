-------------------------- MODULE MCContextHistory --------------------------
(***************************************************************************)
(* ContextHistory on a conversation of five messages about two files, with *)
(* a cache for one; ContextHistory_latest.cfg has the bounds.              *)
(***************************************************************************)
EXTENDS ContextHistory
=============================================================================
