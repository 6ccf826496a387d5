------------------------ MODULE MCSessionPersistence ------------------------
(* The instance of SessionPersistence that TLC checks. *)
EXTENDS SessionPersistence
=============================================================================
