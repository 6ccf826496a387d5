-------------------------- MODULE PrefixInduction ---------------------------
(***************************************************************************)
(* Induction on numbers without a predicate as a parameter: as least and   *)
(* greatest members of sets, and as a set of prefixes that holds them all. *)
(* With it, what a function is that recurs on the prefixes of a sequence:  *)
(* that it exists, and that it stays in a set; and that the numbers of a   *)
(* set can be listed.                                                      *)
(***************************************************************************)
EXTENDS Naturals, Sequences, NumberSets, FunctionTheorems, FiniteSetTheorems,
        WellFoundedInduction, TLAPS

\* A set of numbers has a least member.
LEMMA LeastNumber ==
  ASSUME NEW T, T \subseteq Nat, T # {}
  PROVE  \E n \in T : \A m \in T : n <= m
<1>1. IsWellFoundedOn(OpToRel(<, Nat), Nat)
  BY NatLessThanWellFounded
<1>2. PICK n \in T : \A m \in T : ~ (<<m, n>> \in OpToRel(<, Nat))
  BY <1>1, WFMin, Zenon
<1>3. \A m \in T : ~ (m < n)
  BY <1>2 DEF OpToRel
<1>4. QED
  BY <1>3

\* One with an upper bound has a greatest one.
LEMMA GreatestNumber ==
  ASSUME NEW T, NEW n \in Nat, T \subseteq 0 .. n, T # {}
  PROVE  \E m \in T : \A k \in T : k <= m
<1> DEFINE U == {k \in 0 .. n : n - k \in T}
<1>1. PICK t \in T : TRUE
  OBVIOUS
<1>2. n - t \in U
  BY <1>1
<1>3. U \subseteq Nat /\ U # {}
  BY <1>2
<1>4. PICK u \in U : \A v \in U : u <= v
  BY <1>3, LeastNumber
<1>5. n - u \in T
  BY <1>4
<1>6. \A k \in T : k <= n - u
  <2>1. TAKE k \in T
  <2>2. n - k \in U
    BY <2>1
  <2>3. u <= n - k
    BY <1>4, <2>2
  <2>4. u \in Nat /\ k \in Nat
    BY <1>3, <2>1
  <2>5. QED
    BY <2>3, <2>4
<1>7. QED
  BY <1>5, <1>6

\* A set of prefixes that holds the empty one, and with each the next one, holds them all.
LEMMA EveryPrefix ==
  ASSUME NEW n \in Nat, NEW T, 0 \in T, \A i \in 1 .. n : i - 1 \in T => i \in T
  PROVE  \A i \in 0 .. n : i \in T
<1> SUFFICES ASSUME {i \in 0 .. n : i \notin T} # {}
             PROVE  FALSE
  OBVIOUS
<1>1. {i \in 0 .. n : i \notin T} \subseteq Nat
  OBVIOUS
<1>2. PICK i \in {i \in 0 .. n : i \notin T} : \A m \in {j \in 0 .. n : j \notin T} : i <= m
  BY <1>1, LeastNumber
<1>3. i \in 1 .. n /\ i \notin T
  BY <1>2
<1>4. i - 1 \in T
  BY <1>2, <1>3
<1>5. QED
  BY <1>3, <1>4

\* From b, G makes the values of f one by one.
Steps(f, n, b, G) == f[0] = b /\ \A i \in 1 .. n : f[i] = G[<<f[i - 1], i>>]

\* It does so as long as they are in V.
StepsWithin(f, n, V, b, G) ==
    f[0] = b /\ \A i \in 1 .. n : f[i - 1] \in V => f[i] = G[<<f[i - 1], i>>]

\* What takes each number of a prefix to a value, step by step with G, stays among the values.
LEMMA StepsStay ==
  ASSUME NEW n \in Nat, NEW V, NEW b \in V, NEW G \in [V \X (1 .. n) -> V],
         NEW f, StepsWithin(f, n, V, b, G)
  PROVE  \A i \in 0 .. n : f[i] \in V
<1> DEFINE T == {i \in 0 .. n : f[i] \notin V}
<1> SUFFICES ASSUME T # {}
             PROVE  FALSE
  OBVIOUS
<1>0. f[0] = b /\ \A i \in 1 .. n : f[i - 1] \in V => f[i] = G[<<f[i - 1], i>>]
  BY DEF StepsWithin
<1>1. PICK i \in T : \A j \in T : i <= j
  <2>1. T \subseteq Nat
    OBVIOUS
  <2>2. QED
    BY <2>1, LeastNumber
<1>2. i \in 1 .. n
  BY <1>0, <1>1
<1>3. i - 1 \in 0 .. n /\ i - 1 \notin T
  BY <1>1, <1>2
<1>4. f[i - 1] \in V
  BY <1>3
<1>5. f[i] = G[<<f[i - 1], i>>]
  BY <1>0, <1>2, <1>4
<1>6. f[i] \in V
  BY <1>2, <1>4, <1>5
<1>7. QED
  BY <1>1, <1>6

\* There is such a function.
LEMMA StepsExist ==
  ASSUME NEW n \in Nat, NEW V, NEW b \in V, NEW G \in [V \X (1 .. n) -> V]
  PROVE  \E f \in [0 .. n -> V] : Steps(f, n, b, G)
<1> DEFINE Good(m, f) == f[0] = b /\ \A i \in 1 .. m : f[i] = G[<<f[i - 1], i>>]
<1> DEFINE T == {m \in 0 .. n : ~ \E f \in [0 .. m -> V] : Good(m, f)}
<1> SUFFICES ASSUME T # {}
             PROVE  FALSE
  <2>1. n \notin T => \E f \in [0 .. n -> V] : Good(n, f)
    OBVIOUS
  <2>2. QED
    BY <2>1 DEF Steps
<1>1. PICK m \in T : \A k \in T : m <= k
  <2>1. T \subseteq Nat
    OBVIOUS
  <2>2. QED
    BY <2>1, LeastNumber
<1>2. m \in 0 .. n /\ ~ \E f \in [0 .. m -> V] : Good(m, f)
  BY <1>1
<1>3. m # 0
  <2> SUFFICES ASSUME m = 0
               PROVE  FALSE
    OBVIOUS
  <2> DEFINE f == [i \in 0 .. m |-> b]
  <2>1. f \in [0 .. m -> V] /\ Good(m, f)
    OBVIOUS
  <2>2. QED
    BY <1>2, <2>1
<1>4. m - 1 \in 0 .. n /\ m - 1 \notin T
  BY <1>1, <1>2, <1>3
<1>5. PICK f \in [0 .. m - 1 -> V] : Good(m - 1, f)
  BY <1>4
<1> DEFINE g == [i \in 0 .. m |-> IF i = m THEN G[<<f[m - 1], m>>] ELSE f[i]]
<1>6. f[m - 1] \in V /\ m \in 1 .. n
  BY <1>2, <1>3, <1>5
<1>7. G[<<f[m - 1], m>>] \in V
  BY <1>6
<1>8. g \in [0 .. m -> V]
  BY <1>2, <1>3, <1>5, <1>7
<1>9. Good(m, g)
  <2>1. g[0] = b
    BY <1>2, <1>3, <1>5
  <2>2. ASSUME NEW i \in 1 .. m
        PROVE  g[i] = G[<<g[i - 1], i>>]
    <3>1. g[i - 1] = f[i - 1]
      BY <1>2, <1>3
    <3>2. CASE i = m
      BY <3>1, <3>2, <1>2
    <3>3. CASE i # m
      <4>1. i \in 1 .. m - 1
        BY <3>3, <1>2
      <4>2. g[i] = f[i]
        BY <3>3, <1>2
      <4>3. QED
        BY <1>5, <3>1, <4>1, <4>2
    <3>4. QED
      BY <3>2, <3>3
  <2>3. QED
    BY <2>1, <2>2
<1>10. QED
  BY <1>2, <1>8, <1>9

\* f goes through a sequence from b, with G.
Folds(f, G, b, s) == f[0] = b /\ \A i \in 1 .. Len(s) : f[i] = G[<<f[i - 1], s[i]>>]

LEMMA FoldExists ==
  ASSUME NEW V, NEW E, NEW b \in V, NEW G \in [V \X E -> V], NEW s \in Seq(E)
  PROVE  \E f \in [0 .. Len(s) -> V] : Folds(f, G, b, s)
<1>1. PICK n \in Nat : n = Len(s)
  OBVIOUS
<1>2. \A i \in 1 .. n : s[i] \in E
  BY <1>1
<1> DEFINE H == [p \in V \X (1 .. n) |-> G[<<p[1], s[p[2]]>>]]
<1>3. \A v \in V, i \in 1 .. n : G[<<v, s[i]>>] \in V /\ H[<<v, i>>] = G[<<v, s[i]>>]
  BY <1>2
<1>4. H \in [V \X (1 .. n) -> V]
  BY <1>3
<1> HIDE DEF H
<1>5. PICK f \in [0 .. n -> V] : Steps(f, n, b, H)
  BY <1>4, StepsExist
<1>6. \A i \in 1 .. n : i - 1 \in 0 .. n /\ f[i - 1] \in V
  BY <1>5
<1>7. f[0] = b /\ \A i \in 1 .. n : f[i] = G[<<f[i - 1], s[i]>>]
  BY <1>3, <1>5, <1>6 DEF Steps
<1>8. QED
  BY <1>1, <1>5, <1>7 DEF Folds

\* more is s and then x.
OneMore(more, s, x) ==
    \E n \in Nat : /\ n = Len(s) /\ Len(more) = n + 1 /\ more[n + 1] = x
                  /\ \A i \in 1 .. n : more[i] = s[i]

LEMMA AppendIsOneMore ==
  ASSUME NEW E, NEW s \in Seq(E), NEW x \in E
  PROVE  OneMore(Append(s, x), s, x)
BY DEF OneMore

\* It ends among the values; and one more element is one more step.
LEMMA FoldStays ==
  ASSUME NEW V, NEW E, NEW b \in V, NEW G \in [V \X E -> V], NEW s \in Seq(E),
         NEW f, Folds(f, G, b, s)
  PROVE  \A i \in 0 .. Len(s) : f[i] \in V
<1>1. PICK n \in Nat : n = Len(s)
  OBVIOUS
<1> DEFINE T == {i \in 0 .. n : f[i] \in V}
<1>2. 0 \in T
  BY DEF Folds
<1>3. ASSUME NEW i \in 1 .. n, i - 1 \in T
      PROVE  i \in T
  <2>1. s[i] \in E /\ f[i - 1] \in V
    BY <1>1, <1>3
  <2>2. f[i] = G[<<f[i - 1], s[i]>>]
    BY <1>1 DEF Folds
  <2>3. QED
    BY <2>1, <2>2
<1>4. \A i \in 1 .. n : i - 1 \in T => i \in T
  BY <1>3
<1>5. \A i \in 0 .. n : i \in T
  <2> HIDE DEF T
  <2>1. QED
    BY <1>2, <1>4, EveryPrefix
<1>6. QED
  BY <1>1, <1>5

LEMMA FoldGrows ==
  ASSUME NEW s, NEW x, NEW more, OneMore(more, s, x),
         NEW b, NEW G, NEW f, Folds(f, G, b, s), NEW g, Folds(g, G, b, more)
  PROVE  g[Len(more)] = G[<<f[Len(s)], x>>]
<1>1. PICK n \in Nat : /\ n = Len(s) /\ Len(more) = n + 1 /\ more[n + 1] = x
                      /\ \A i \in 1 .. n : more[i] = s[i]
  BY DEF OneMore
<1>3. /\ f[0] = b /\ \A i \in 1 .. n : f[i] = G[<<f[i - 1], s[i]>>]
      /\ g[0] = b /\ \A i \in 1 .. n + 1 : g[i] = G[<<g[i - 1], more[i]>>]
  BY <1>1 DEF Folds
<1> DEFINE T == {i \in 0 .. n : f[i] = g[i]}
<1>4. 0 \in T
  BY <1>3
<1>5. ASSUME NEW i \in 1 .. n, i - 1 \in T
      PROVE  i \in T
  <2>1. i \in 1 .. n + 1 /\ f[i - 1] = g[i - 1]
    BY <1>5
  <2>2. f[i] = G[<<f[i - 1], s[i]>>] /\ g[i] = G[<<g[i - 1], more[i]>>]
    BY <1>3, <2>1
  <2>3. more[i] = s[i]
    BY <1>1
  <2>4. QED
    BY <2>1, <2>2, <2>3
<1>6. \A i \in 1 .. n : i - 1 \in T => i \in T
  BY <1>5
<1>7. n \in T
  <2> HIDE DEF T
  <2>1. \A i \in 0 .. n : i \in T
    BY <1>4, <1>6, EveryPrefix
  <2>2. QED
    BY <2>1
<1>8. n + 1 \in 1 .. n + 1 /\ (n + 1) - 1 = n
  OBVIOUS
<1>9. g[n + 1] = G[<<g[n], more[n + 1]>>]
  BY <1>3, <1>8
<1>10. f[n] = g[n]
  BY <1>7
<1>11. QED
  BY <1>1, <1>9, <1>10

\* InOrder names every number of a set once.
LEMMA InOrderLists ==
    ASSUME NEW S \in SUBSET Nat, IsFiniteSet(S)
    PROVE  /\ DOMAIN InOrder(S) = 1 .. Cardinality(S) /\ Cardinality(S) \in Nat
           /\ \A i \in DOMAIN InOrder(S) : InOrder(S)[i] \in S
           /\ \A i, j \in DOMAIN InOrder(S) : InOrder(S)[i] = InOrder(S)[j] => i = j
           /\ \A b \in S : \E i \in DOMAIN InOrder(S) : InOrder(S)[i] = b
<1> DEFINE n == Cardinality(S)
           Below(b) == {d \in S : d < b}
           rank == [b \in S |-> Cardinality(Below(b)) + 1]
<1>1. n \in Nat
  BY FS_CardinalityType
<1>2. ASSUME NEW b \in S
      PROVE  IsFiniteSet(Below(b)) /\ Cardinality(Below(b)) \in 0 .. n - 1
  <2>1. Below(b) \in SUBSET S /\ b \notin Below(b)
    BY SMT
  <2>2. IsFiniteSet(Below(b)) /\ Cardinality(Below(b)) <= n /\ Cardinality(Below(b)) # n
    <3> HIDE DEF Below
    <3> QED BY <2>1, FS_Subset
  <2>3. Cardinality(Below(b)) \in Nat
    BY <2>2, FS_CardinalityType
  <2> QED BY <1>1, <2>2, <2>3
<1>3. ASSUME NEW b \in S, NEW d \in S, b < d
      PROVE  Cardinality(Below(b)) < Cardinality(Below(d))
  <2>1. Below(b) \in SUBSET Below(d) /\ b \in Below(d) /\ b \notin Below(b)
    <3>1. b \in Nat /\ d \in Nat /\ \A e \in S : e \in Nat
      OBVIOUS
    <3>2. \A e \in Below(b) : e \in Below(d)
      BY <1>3, <3>1
    <3>3. b \in Below(d) /\ b \notin Below(b)
      BY <1>3, <3>1
    <3> QED BY <3>2, <3>3, Zenon
  <2>2. /\ Cardinality(Below(b)) <= Cardinality(Below(d))
        /\ Cardinality(Below(b)) # Cardinality(Below(d))
    <3>1. IsFiniteSet(Below(d))
      BY <1>2
    <3> HIDE DEF Below
    <3> QED BY <2>1, <3>1, FS_Subset
  <2> QED BY <1>2, <2>2
<1>4. rank \in [S -> 1 .. n]
  <2>1. ASSUME NEW b \in S PROVE Cardinality(Below(b)) + 1 \in 1 .. n
    <3> HIDE DEF Below
    <3> QED BY <1>1, <1>2
  <2> HIDE DEF Below
  <2> QED BY <2>1
<1>5. \A b, d \in S : rank[b] = rank[d] => b = d
  <2> SUFFICES ASSUME NEW b \in S, NEW d \in S, b # d PROVE rank[b] # rank[d]
      OBVIOUS
  <2>1. b < d \/ d < b
    OBVIOUS
  <2>2. rank[b] = Cardinality(Below(b)) + 1 /\ rank[d] = Cardinality(Below(d)) + 1
    OBVIOUS
  <2> HIDE DEF Below, rank
  <2> QED BY <1>2, <1>3, <2>1, <2>2
<1>6. rank \in Surjection(S, 1 .. n)
  <2>1. rank \in Injection(S, 1 .. n)
    BY <1>4, <1>5 DEF Injection, IsInjective
  <2>2. IsFiniteSet(1 .. n) /\ Cardinality(1 .. n) = n
    BY <1>1, FS_Interval
  <2> HIDE DEF rank
  <2> QED BY <2>1, <2>2, FS_Injection
<1>7. \A i \in 1 .. n : \E b \in S : Cardinality(Below(b)) = i - 1
  <2> SUFFICES ASSUME NEW i \in 1 .. n PROVE \E b \in S : Cardinality(Below(b)) = i - 1
      OBVIOUS
  <2>1. PICK b \in S : rank[b] = i
    BY <1>6 DEF Surjection
  <2>2. rank[b] = Cardinality(Below(b)) + 1
    OBVIOUS
  <2> HIDE DEF Below, rank
  <2> QED BY <1>1, <1>2, <2>1, <2>2
<1>8. \A i \in 1 .. n : InOrder(S)[i] \in S /\ Cardinality(Below(InOrder(S)[i])) = i - 1
  BY <1>7 DEF InOrder
<1>9. DOMAIN InOrder(S) = 1 .. n
  BY DEF InOrder
<1>10. ASSUME NEW b \in S PROVE \E i \in 1 .. n : InOrder(S)[i] = b
  <2>1. rank[b] = Cardinality(Below(b)) + 1 /\ rank[b] \in 1 .. n
    BY <1>4
  <2>2. InOrder(S)[rank[b]] \in S /\ Cardinality(Below(InOrder(S)[rank[b]])) = rank[b] - 1
    BY <1>8, <2>1
  <2>3. rank[InOrder(S)[rank[b]]] = rank[b]
    <3>1. rank[InOrder(S)[rank[b]]] = Cardinality(Below(InOrder(S)[rank[b]])) + 1
      BY <2>2
    <3> HIDE DEF Below, rank
    <3> QED BY <1>2, <2>1, <2>2, <3>1
  <2> HIDE DEF Below, rank
  <2> QED BY <1>5, <2>1, <2>2, <2>3
<1> HIDE DEF Below, rank
<1> QED BY <1>1, <1>8, <1>9, <1>10
=============================================================================
