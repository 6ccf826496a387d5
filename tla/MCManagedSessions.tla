-------------------------- MODULE MCManagedSessions --------------------------
(***************************************************************************)
(* The instance of ManagedSessions that TLC checks: runners that answer    *)
(* replies to one message, and runners that start a conversation.          *)
(***************************************************************************)
EXTENDS ManagedSessions

CONSTANTS f1, f2, n1, n2, origin

MCRunnerMixed == {f1, f2, n1}
MCForks == {f1, f2}
MCRunnerNew == {n1, n2}
=============================================================================
