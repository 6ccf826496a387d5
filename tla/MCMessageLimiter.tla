-------------------------- MODULE MCMessageLimiter --------------------------
(***************************************************************************)
(* Instances of MessageLimiter that TLC checks: three edits, or two, of    *)
(* one status message, of which the first is awaited, and a message that   *)
(* is sent under a key of its own.                                         *)
(***************************************************************************)
EXTENDS MessageLimiter

CONSTANTS e1, e2, e3, s1, edit, send

MCRequest == {e1, e2, e3, s1}
MCRequestFew == {e1, e2, s1}
MCKey == {edit, send}
MCKeyOf == [r \in Request |-> IF r = s1 THEN send ELSE edit]
MCAwaited == {e1, s1}
=============================================================================
