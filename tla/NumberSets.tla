----------------------------- MODULE NumberSets ------------------------------
(***************************************************************************)
(* Sets of numbers put in their order, as the stream ledgers and the       *)
(* Responses assembler do with what they have to close.                    *)
(***************************************************************************)
EXTENDS Naturals, FiniteSets

\* The members of a finite set of numbers, in their order.
InOrder(S) ==
    [i \in 1 .. Cardinality(S) |-> CHOOSE b \in S : Cardinality({d \in S : d < b}) = i - 1]

\* The same, the last one first.
Backwards(S) == [i \in DOMAIN InOrder(S) |-> InOrder(S)[Cardinality(S) + 1 - i]]
=============================================================================
