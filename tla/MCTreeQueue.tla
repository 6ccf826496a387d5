----------------------------- MODULE MCTreeQueue -----------------------------
(* Instances of TreeQueue for TLC. *)
EXTENDS TreeQueue

CONSTANTS r, a, b

MCNode == {r, a, b}

\* Without is SelectSeq on the queues the tree can have, those without duplicates.
ASSUME \A S \in SUBSET Node : \A k \in 0 .. 3 : \A q \in [1 .. k -> Node] :
    NoDup(q) => Without(q, S) = {SelectSeq(q, LAMBDA n : n \notin S)}
=============================================================================
