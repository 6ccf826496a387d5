------------------------ MODULE ChatConversion_proofs ------------------------
(***************************************************************************)
(* Proofs about ChatConversion, for a history of any length: a chat        *)
(* provider is told the whole of it, in an order it accepts.               *)
(*                                                                         *)
(* What has been converted tells each piece at one spot of the chat; what  *)
(* is deferred is the texts behind a turn's calls, which may follow all    *)
(* that was told.  A message of calls is settled, or it waits at the end   *)
(* for the results that are still to come.  Each item of a Responses       *)
(* client, and each message of an Anthropic client, adds to the chat what  *)
(* it adds to the history, and leaves the rest.                            *)
(***************************************************************************)
EXTENDS ChatConversion, PrefixInduction, FunctionTheorems, FiniteSetTheorems, SequenceTheorems,
        TLAPS

-----------------------------------------------------------------------------
(* ChatConversion: sequences picked from sequences.                        *)

\* out has the members of s at these places, in their order.
Through(at, out, s, places) ==
    /\ at \in [DOMAIN out -> places]
    /\ \A p \in places : \E k \in DOMAIN out : at[k] = p
    /\ \A j, k \in DOMAIN out : j < k => at[j] < at[k]
    /\ \A k \in DOMAIN out : out[k] = s[at[k]]

Embeds(out, s, places) == \E at : Through(at, out, s, places)

\* One place more, at the end.
LEMMA EmbedsMore ==
  ASSUME NEW E, NEW out \in Seq(E), NEW s, NEW places \in SUBSET Nat, Embeds(out, s, places),
         NEW p \in Nat, \A q \in places : q < p, s[p] \in E
  PROVE  Append(out, s[p]) \in Seq(E) /\ Embeds(Append(out, s[p]), s, places \cup {p})
<1>1. PICK at : Through(at, out, s, places)
  BY DEF Embeds
<1>2. PICK n \in Nat : n = Len(out) /\ DOMAIN out = 1 .. n
  OBVIOUS
<1> DEFINE more == Append(out, s[p])
           to == [k \in 1 .. n + 1 |-> IF k = n + 1 THEN p ELSE at[k]]
<1>3. /\ more \in Seq(E) /\ DOMAIN more = 1 .. n + 1
      /\ more[n + 1] = s[p] /\ \A k \in 1 .. n : more[k] = out[k]
  BY <1>2
<1>4. /\ at \in [1 .. n -> places] /\ \A q \in places : \E k \in 1 .. n : at[k] = q
      /\ \A j, k \in 1 .. n : j < k => at[j] < at[k]
      /\ \A k \in 1 .. n : out[k] = s[at[k]]
  BY <1>1, <1>2 DEF Through
<1>5. to \in [1 .. n + 1 -> places \cup {p}]
  BY <1>4
<1>6. \A q \in places \cup {p} : \E k \in 1 .. n + 1 : to[k] = q
  BY <1>4, SMTT(30)
<1>7. \A j, k \in 1 .. n + 1 : j < k => to[j] < to[k]
  <2>1. TAKE j, k \in 1 .. n + 1
  <2>2. HAVE j < k
  <2>3. j \in 1 .. n /\ to[j] = at[j] /\ at[j] \in places
    BY <1>4, <2>2
  <2>4. CASE k = n + 1
    <3>1. at[j] < p /\ to[k] = p
      BY <2>3, <2>4
    <3>2. QED
      BY <2>3, <3>1
  <2>5. CASE k # n + 1
    <3>1. k \in 1 .. n /\ to[k] = at[k]
      BY <2>5
    <3>2. QED
      BY <1>4, <2>2, <2>3, <3>1
  <2>6. QED
    BY <2>4, <2>5
<1>8. \A k \in 1 .. n + 1 : more[k] = s[to[k]]
  BY <1>3, <1>4
<1> HIDE DEF more, to
<1>9. Through(to, more, s, places \cup {p})
  BY <1>3, <1>5, <1>6, <1>7, <1>8 DEF Through
<1>10. QED
  BY <1>3, <1>9 DEF Embeds, more

\* Picked, place by place.
LEMMA PickedEmbeds ==
  ASSUME NEW E, NEW s \in Seq(E), NEW places
  PROVE  /\ Picked(s, places) \in Seq(E)
         /\ Embeds(Picked(s, places), s, places \cap DOMAIN s)
<1>0. PICK n \in Nat : n = Len(s) /\ DOMAIN s = 1 .. n
  OBVIOUS
<1> DEFINE D == 0 .. n
           Next1(v, k) == IF k \in places THEN Append(v, s[k]) ELSE v
           F(f) == [k \in D |-> IF k = 0 THEN <<>>
                                ELSE IF k \in places THEN Append(f[k - 1], s[k]) ELSE f[k - 1]]
           upTo == CHOOSE f : f = F(f)
           G == [v \in Seq(E) \X (1 .. n) |-> Next1(v[1], v[2])]
<1>1. \A k \in 1 .. n : s[k] \in E
  BY <1>0
<1>2. \A v \in Seq(E), k \in 1 .. n : Next1(v, k) \in Seq(E)
  BY <1>1
<1>3. G \in [Seq(E) \X (1 .. n) -> Seq(E)] /\ <<>> \in Seq(E)
  <2> HIDE DEF Next1
  <2> QED
    BY <1>2
<1>4. PICK g \in [0 .. n -> Seq(E)] : Steps(g, n, <<>>, G)
  <2> HIDE DEF G
  <2>1. QED
    BY <1>0, <1>3, StepsExist
<1>5. \A v \in Seq(E), k \in 1 .. n : G[<<v, k>>] = Next1(v, k)
  OBVIOUS
<1> HIDE DEF G
<1>6. g = F(g)
  <2>1. g[0] = <<>> /\ \A k \in 1 .. n : g[k] = G[<<g[k - 1], k>>]
    BY <1>4 DEF Steps
  <2>2. ASSUME NEW k \in D
        PROVE  g[k] = F(g)[k]
    <3>1. CASE k = 0
      BY <2>1, <3>1
    <3>2. CASE k # 0
      <4>1. k \in 1 .. n /\ k - 1 \in D
        BY <1>0, <3>2
      <4>2. g[k - 1] \in Seq(E)
        BY <1>4, <4>1
      <4>3. g[k] = Next1(g[k - 1], k)
        BY <1>5, <2>1, <4>1, <4>2
      <4>4. QED
        BY <3>2, <4>3
    <3>3. QED
      BY <3>1, <3>2
  <2>3. QED
    BY <1>4, <2>2
<1>7. upTo = F(upTo)
  BY <1>6
<1>8. Picked(s, places) = upTo[n]
  BY <1>0 DEF Picked
<1> HIDE DEF upTo
<1>9. upTo[0] = <<>> /\ \A k \in 1 .. n : upTo[k] = Next1(upTo[k - 1], k)
  <2>1. 0 \in D /\ \A k \in 1 .. n : k \in D /\ k # 0
    BY <1>0
  <2>2. QED
    BY <1>7, <2>1
<1> DEFINE T == {k \in 0 .. n : upTo[k] \in Seq(E) /\ Embeds(upTo[k], s, places \cap (1 .. k))}
<1>10. 0 \in T
  <2>1. Through(<<>>, <<>>, s, {})
    BY DEF Through
  <2>2. places \cap (1 .. 0) = {}
    OBVIOUS
  <2>3. upTo[0] = <<>> /\ Embeds(upTo[0], s, {})
    BY <1>9, <2>1 DEF Embeds
  <2>4. <<>> \in Seq(E)
    OBVIOUS
  <2>5. 0 \in 0 .. n
    OBVIOUS
  <2> HIDE DEF upTo
  <2>6. QED
    BY <2>2, <2>3, <2>4, <2>5
<1>11. ASSUME NEW k \in 1 .. n, k - 1 \in T
       PROVE  k \in T
  <2>1. upTo[k - 1] \in Seq(E) /\ Embeds(upTo[k - 1], s, places \cap (1 .. k - 1))
    BY <1>11
  <2>2. CASE k \in places
    <3>1. places \cap (1 .. k) = (places \cap (1 .. k - 1)) \cup {k}
      BY <2>2
    <3>2. upTo[k] = Append(upTo[k - 1], s[k])
      BY <1>9, <2>2
    <3>3. places \cap (1 .. k - 1) \in SUBSET Nat /\ \A q \in places \cap (1 .. k - 1) : q < k
      OBVIOUS
    <3>4. s[k] \in E /\ k \in Nat
      BY <1>1
    <3>5. /\ Append(upTo[k - 1], s[k]) \in Seq(E)
          /\ Embeds(Append(upTo[k - 1], s[k]), s, (places \cap (1 .. k - 1)) \cup {k})
      <4> DEFINE out == upTo[k - 1]
                 P == places \cap (1 .. k - 1)
      <4>1. out \in Seq(E) /\ Embeds(out, s, P) /\ P \in SUBSET Nat /\ \A q \in P : q < k
        BY <2>1, <3>3
      <4> HIDE DEF out, P
      <4>2. Append(out, s[k]) \in Seq(E) /\ Embeds(Append(out, s[k]), s, P \cup {k})
        BY <3>4, <4>1, EmbedsMore
      <4>3. QED
        BY <4>2 DEF out, P
    <3>6. k \in 0 .. n
      OBVIOUS
    <3>7. QED
      BY <3>1, <3>2, <3>5, <3>6
  <2>3. CASE k \notin places
    <3>1. places \cap (1 .. k) = places \cap (1 .. k - 1)
      BY <2>3
    <3>2. upTo[k] = upTo[k - 1]
      BY <1>9, <2>3
    <3>3. k \in 0 .. n
      OBVIOUS
    <3>4. QED
      BY <2>1, <3>1, <3>2, <3>3
  <2>4. QED
    BY <2>2, <2>3
<1>12. n \in T
  <2>1. \A k \in 1 .. n : k - 1 \in T => k \in T
    BY <1>11
  <2> HIDE DEF T
  <2>2. \A k \in 0 .. n : k \in T
    BY <1>0, <1>10, <2>1, EveryPrefix
  <2>3. QED
    BY <1>0, <2>2
<1>13. QED
  BY <1>0, <1>8, <1>12

\* What is picked from a sequence that is itself picked.
LEMMA EmbedsThrough ==
  ASSUME NEW a, NEW b, NEW c, NEW P, NEW Q \in SUBSET Nat, NEW at,
         DOMAIN b \subseteq Nat, P \subseteq DOMAIN b, Embeds(a, b, P), Through(at, b, c, Q)
  PROVE  Embeds(a, c, {at[p] : p \in P})
<1>1. PICK in : Through(in, a, b, P)
  BY DEF Embeds
<1> DEFINE to == [k \in DOMAIN a |-> at[in[k]]]
           R == {at[p] : p \in P}
<1>2. /\ in \in [DOMAIN a -> P] /\ \A p \in P : \E k \in DOMAIN a : in[k] = p
      /\ \A j, k \in DOMAIN a : j < k => in[j] < in[k]
      /\ \A k \in DOMAIN a : a[k] = b[in[k]]
  BY <1>1 DEF Through
<1>3. /\ at \in [DOMAIN b -> Q]
      /\ \A j, k \in DOMAIN b : j < k => at[j] < at[k]
      /\ \A k \in DOMAIN b : b[k] = c[at[k]]
  BY DEF Through
<1>4. to \in [DOMAIN a -> R]
  BY <1>2
<1>5. \A q \in R : \E k \in DOMAIN a : to[k] = q
  BY <1>2
<1>6. \A j, k \in DOMAIN a : j < k => to[j] < to[k]
  <2>1. TAKE j, k \in DOMAIN a
  <2>2. HAVE j < k
  <2>3. in[j] < in[k] /\ in[j] \in DOMAIN b /\ in[k] \in DOMAIN b
    BY <1>2, <2>2
  <2>4. QED
    BY <1>3, <2>3
<1>7. \A k \in DOMAIN a : a[k] = c[to[k]]
  <2>1. TAKE k \in DOMAIN a
  <2>2. in[k] \in DOMAIN b
    BY <1>2
  <2>3. QED
    BY <1>2, <1>3, <2>2
<1> HIDE DEF to, R
<1>8. Through(to, a, c, R)
  BY <1>4, <1>5, <1>6, <1>7 DEF Through
<1>9. QED
  BY <1>8 DEF Embeds, R

\* One after the other.
LEMMA EmbedsConcat ==
  ASSUME NEW E, NEW a \in Seq(E), NEW b \in Seq(E), NEW s,
         NEW P \in SUBSET Nat, NEW Q \in SUBSET Nat,
         Embeds(a, s, P), Embeds(b, s, Q), \A p \in P, q \in Q : p < q
  PROVE  Embeds(a \o b, s, P \cup Q)
<1>1. PICK f : Through(f, a, s, P)
  BY DEF Embeds
<1>2. PICK g : Through(g, b, s, Q)
  BY DEF Embeds
<1>3. PICK m \in Nat, n \in Nat :
          m = Len(a) /\ n = Len(b) /\ DOMAIN a = 1 .. m /\ DOMAIN b = 1 .. n
  OBVIOUS
<1> DEFINE c == a \o b
           to == [k \in 1 .. m + n |-> IF k <= m THEN f[k] ELSE g[k - m]]
<1>4. /\ f \in [1 .. m -> P] /\ \A p \in P : \E k \in 1 .. m : f[k] = p
      /\ \A j, k \in 1 .. m : j < k => f[j] < f[k]
      /\ \A k \in 1 .. m : a[k] = s[f[k]]
  BY <1>1, <1>3 DEF Through
<1>5. /\ g \in [1 .. n -> Q] /\ \A p \in Q : \E k \in 1 .. n : g[k] = p
      /\ \A j, k \in 1 .. n : j < k => g[j] < g[k]
      /\ \A k \in 1 .. n : b[k] = s[g[k]]
  BY <1>2, <1>3 DEF Through
<1>6. /\ DOMAIN c = 1 .. m + n
      /\ \A k \in 1 .. m : c[k] = a[k]
      /\ \A k \in 1 .. m + n : k > m => c[k] = b[k - m]
  BY <1>3
<1>7. \A k \in 1 .. m : to[k] = f[k] /\ k \in 1 .. m + n
  BY <1>3
<1>8. \A k \in 1 .. m + n : k > m => to[k] = g[k - m] /\ k - m \in 1 .. n
  BY <1>3
<1>9. to \in [1 .. m + n -> P \cup Q]
  BY <1>3, <1>4, <1>5, <1>7, <1>8
<1>10. ASSUME NEW q \in P \cup Q
       PROVE  \E k \in 1 .. m + n : to[k] = q
  <2>1. CASE q \in P
    BY <1>4, <1>7, <2>1
  <2>2. CASE q \in Q
    <3>1. PICK k \in 1 .. n : g[k] = q
      BY <1>5, <2>2
    <3>2. k + m \in 1 .. m + n /\ k + m > m /\ (k + m) - m = k
      BY <1>3
    <3>3. to[k + m] = g[k]
      BY <1>8, <3>2
    <3>4. QED
      BY <3>1, <3>2, <3>3
  <2>3. QED
    BY <2>1, <2>2
<1>11. ASSUME NEW j \in 1 .. m + n, NEW k \in 1 .. m + n, j < k
       PROVE  to[j] < to[k]
  <2>1. CASE k <= m
    <3>1. j \in 1 .. m /\ k \in 1 .. m
      BY <1>3, <1>11, <2>1
    <3>2. QED
      BY <1>4, <1>7, <1>11, <3>1
  <2>2. CASE j <= m /\ k > m
    <3>0. j \in 1 .. m
      BY <1>3, <2>2
    <3>1. to[j] \in P /\ to[k] \in Q
      BY <1>4, <1>5, <1>7, <1>8, <2>2, <3>0
    <3>2. QED
      BY <3>1
  <2>3. CASE j > m
    <3>1. k > m /\ j - m < k - m
      BY <1>3, <1>11, <2>3
    <3>2. QED
      BY <1>5, <1>8, <2>3, <3>1
  <2>4. QED
    BY <1>3, <2>1, <2>2, <2>3
<1>12. ASSUME NEW k \in 1 .. m + n
       PROVE  c[k] = s[to[k]]
  <2>1. CASE k <= m
    <3>1. k \in 1 .. m
      BY <1>3, <2>1
    <3>2. QED
      BY <1>4, <1>6, <1>7, <3>1
  <2>2. CASE k > m
    BY <1>5, <1>6, <1>8, <2>2
  <2>3. QED
    BY <1>3, <2>1, <2>2
<1> HIDE DEF to, c
<1>13. Through(to, c, s, P \cup Q)
  BY <1>6, <1>9, <1>10, <1>11, <1>12 DEF Through
<1>14. QED
  BY <1>13 DEF Embeds, c

\* It is one sequence.
LEMMA EmbedsOnce ==
  ASSUME NEW E, NEW a \in Seq(E), NEW b \in Seq(E), NEW s, NEW P \in SUBSET Nat,
         Embeds(a, s, P), Embeds(b, s, P)
  PROVE  a = b
<1>1. PICK f : Through(f, a, s, P)
  BY DEF Embeds
<1>2. PICK g : Through(g, b, s, P)
  BY DEF Embeds
<1>3. PICK m \in Nat, n \in Nat :
          m = Len(a) /\ n = Len(b) /\ DOMAIN a = 1 .. m /\ DOMAIN b = 1 .. n
  OBVIOUS
<1>4. /\ f \in [1 .. m -> P] /\ \A p \in P : \E k \in 1 .. m : f[k] = p
      /\ \A j, k \in 1 .. m : j < k => f[j] < f[k]
      /\ \A k \in 1 .. m : a[k] = s[f[k]]
  BY <1>1, <1>3 DEF Through
<1>5. /\ g \in [1 .. n -> P] /\ \A p \in P : \E k \in 1 .. n : g[k] = p
      /\ \A j, k \in 1 .. n : j < k => g[j] < g[k]
      /\ \A k \in 1 .. n : b[k] = s[g[k]]
  BY <1>2, <1>3 DEF Through
<1> DEFINE T == {k \in 0 .. m : k <= n /\ \A j \in 1 .. k : f[j] = g[j]}
<1>6. 0 \in T
  BY <1>3
<1>7. ASSUME NEW k \in 1 .. m, k - 1 \in T
      PROVE  k \in T
  <2>1. k - 1 <= n /\ \A j \in 1 .. k - 1 : f[j] = g[j]
    BY <1>7
  <2>2. f[k] \in P
    BY <1>4
  <2>3. PICK i \in 1 .. n : g[i] = f[k]
    BY <1>5, <2>2
  <2>4. i >= k
    <3>1. SUFFICES ASSUME i < k
                   PROVE  FALSE
      BY <2>3
    <3>2. i \in 1 .. k - 1 /\ i \in 1 .. m
      BY <3>1
    <3>3. f[i] = g[i] /\ f[i] < f[k] /\ f[i] \in Nat
      BY <1>4, <2>1, <3>1, <3>2
    <3>4. QED
      BY <2>3, <3>3
  <2>5. k \in 1 .. n
    BY <1>3, <2>4
  <2>6. g[k] \in P
    BY <1>5, <2>5
  <2>7. PICK j \in 1 .. m : f[j] = g[k]
    BY <1>4, <2>6
  <2>8. j >= k
    <3>1. SUFFICES ASSUME j < k
                   PROVE  FALSE
      BY <2>7
    <3>2. j \in 1 .. k - 1 /\ j \in 1 .. n
      BY <2>5, <3>1
    <3>3. g[j] = f[j] /\ g[j] < g[k] /\ g[j] \in Nat
      BY <1>5, <2>1, <2>5, <3>1, <3>2
    <3>4. QED
      BY <2>7, <3>3
  <2>9. f[k] <= f[j] /\ g[k] <= g[i]
    <3>1. k < j \/ k = j
      BY <2>8
    <3>2. k < i \/ k = i
      BY <2>4
    <3>3. f[k] \in Nat /\ f[j] \in Nat /\ g[k] \in Nat /\ g[i] \in Nat
      BY <1>4, <1>5, <2>5
    <3>4. f[k] <= f[j]
      BY <1>4, <3>1, <3>3
    <3>5. g[k] <= g[i]
      BY <1>5, <2>5, <3>2, <3>3
    <3>6. QED
      BY <3>4, <3>5
  <2>10. f[k] = g[k]
    <3>1. f[k] \in Nat /\ g[k] \in Nat
      BY <2>2, <2>6
    <3>2. QED
      BY <2>3, <2>7, <2>9, <3>1
  <2>11. \A l \in 1 .. k : f[l] = g[l]
    BY <2>1, <2>10
  <2>12. QED
    BY <1>3, <2>5, <2>11
<1>8. m \in T
  <2>1. \A k \in 1 .. m : k - 1 \in T => k \in T
    BY <1>7
  <2> HIDE DEF T
  <2>2. \A k \in 0 .. m : k \in T
    BY <1>3, <1>6, <2>1, EveryPrefix
  <2>3. QED
    BY <1>3, <2>2
<1>9. m = n
  <2>1. SUFFICES ASSUME m < n
                 PROVE  FALSE
    BY <1>3, <1>8
  <2>2. m + 1 \in 1 .. n /\ \A j \in 1 .. m : j \in 1 .. n /\ f[j] = g[j]
    BY <1>3, <1>8, <2>1
  <2>3. g[m + 1] \in P
    BY <1>5, <2>2
  <2>4. PICK j \in 1 .. m : f[j] = g[m + 1]
    BY <1>4, <2>3
  <2>5. g[j] < g[m + 1] /\ g[j] = g[m + 1]
    BY <1>3, <1>5, <2>2, <2>4
  <2>6. g[m + 1] \in Nat
    BY <2>3
  <2>7. QED
    BY <2>5, <2>6
<1>10. \A k \in 1 .. m : a[k] = b[k]
  BY <1>4, <1>5, <1>8, <1>9
<1>11. QED
  BY <1>3, <1>9, <1>10

-----------------------------------------------------------------------------
(* Blocks of a kind.                                                       *)

Blocks == [kind : {"prompt", "note", "text", "thinking", "redacted", "call", "badCall", "result"},
           id : Nat]

KindAt(kind, blocks, places) == {b \in places \cap DOMAIN blocks : blocks[b].kind = kind}

\* The blocks that are picked, in their order.
LEMMA PickedBlocks ==
  ASSUME NEW blocks \in Seq(Blocks), NEW places
  PROVE  /\ Picked(blocks, places) \in Seq(Blocks)
         /\ Embeds(Picked(blocks, places), blocks, places \cap DOMAIN blocks)
BY PickedEmbeds

\* The blocks of a kind among some of the blocks.
LEMMA OfKindPicked ==
  ASSUME NEW blocks \in Seq(Blocks), NEW places, NEW kind
  PROVE  /\ OfKind(kind, Picked(blocks, places)) \in Seq(Blocks)
         /\ Embeds(OfKind(kind, Picked(blocks, places)), blocks, KindAt(kind, blocks, places))
<1> DEFINE some == Picked(blocks, places)
           P == {b \in DOMAIN some : some[b].kind = kind}
           Q == places \cap DOMAIN blocks
<1>1. some \in Seq(Blocks) /\ Embeds(some, blocks, Q)
  BY PickedBlocks
<1>2. Q \in SUBSET Nat
  OBVIOUS
<1> HIDE DEF some, Q
<1>3. OfKind(kind, some) = Picked(some, P)
  BY DEF OfKind
<1>4. Picked(some, P) \in Seq(Blocks) /\ Embeds(Picked(some, P), some, P)
  <2>1. P \cap DOMAIN some = P
    OBVIOUS
  <2> HIDE DEF P
  <2>2. QED
    BY <1>1, <2>1, PickedBlocks
<1>5. PICK at : Through(at, some, blocks, Q)
  BY <1>1 DEF Embeds
<1>6. Embeds(Picked(some, P), blocks, {at[p] : p \in P})
  <2>1. DOMAIN some \subseteq Nat /\ P \subseteq DOMAIN some
    BY <1>1
  <2> HIDE DEF P
  <2>2. QED
    BY <1>2, <1>4, <1>5, <2>1, EmbedsThrough
<1>7. {at[p] : p \in P} = KindAt(kind, blocks, places)
  BY <1>5 DEF Through, KindAt, Q
<1>8. QED
  BY <1>3, <1>4, <1>6, <1>7 DEF some

\* The blocks of a kind are those of the sequence, in their order.
LEMMA OfKindIs ==
  ASSUME NEW blocks \in Seq(Blocks), NEW kind
  PROVE  /\ OfKind(kind, blocks) \in Seq(Blocks)
         /\ Embeds(OfKind(kind, blocks), blocks, KindAt(kind, blocks, DOMAIN blocks))
<1> DEFINE P == {b \in DOMAIN blocks : blocks[b].kind = kind}
<1>1. P \cap DOMAIN blocks = P /\ KindAt(kind, blocks, DOMAIN blocks) = P
  BY DEF KindAt
<1>2. OfKind(kind, blocks) = Picked(blocks, P)
  BY DEF OfKind
<1> HIDE DEF P
<1>3. QED
  BY <1>1, <1>2, PickedBlocks

\* They are the only sequence of them.
LEMMA OfKindOnce ==
  ASSUME NEW blocks \in Seq(Blocks), NEW kind, NEW out \in Seq(Blocks),
         Embeds(out, blocks, KindAt(kind, blocks, DOMAIN blocks))
  PROVE  OfKind(kind, blocks) = out
<1>1. KindAt(kind, blocks, DOMAIN blocks) \in SUBSET Nat
  BY DEF KindAt
<1>2. QED
  BY <1>1, OfKindIs, EmbedsOnce

\* There may be none.
LEMMA NothingEmbedded ==
  ASSUME NEW E, NEW out \in Seq(E), NEW s, Embeds(out, s, {})
  PROVE  out = <<>>
<1>1. PICK at : at \in [DOMAIN out -> {}]
  BY DEF Embeds, Through
<1>2. DOMAIN out = {}
  BY <1>1
<1>3. QED
  BY <1>2

\* A kind that no block is of.
LEMMA NoneOfKind ==
  ASSUME NEW blocks \in Seq(Blocks), NEW kind, \A b \in DOMAIN blocks : blocks[b].kind # kind
  PROVE  OfKind(kind, blocks) = <<>>
<1>1. KindAt(kind, blocks, DOMAIN blocks) = {}
  BY DEF KindAt
<1>2. QED
  BY <1>1, OfKindIs, NothingEmbedded

\* Blocks in front that are not of the kind.
LEMMA OfKindBehind ==
  ASSUME NEW front \in Seq(Blocks), NEW blocks \in Seq(Blocks), NEW kind,
         \A b \in DOMAIN front : front[b].kind # kind
  PROVE  OfKind(kind, front \o blocks) = OfKind(kind, blocks)
<1> DEFINE all == front \o blocks
           P == KindAt(kind, blocks, DOMAIN blocks)
<1>1. PICK m \in Nat, n \in Nat : /\ m = Len(front) /\ n = Len(blocks)
                                  /\ DOMAIN front = 1 .. m /\ DOMAIN blocks = 1 .. n
  OBVIOUS
<1>2. /\ all \in Seq(Blocks) /\ DOMAIN all = 1 .. m + n
      /\ \A b \in 1 .. m : all[b] = front[b]
      /\ \A b \in 1 .. n : all[m + b] = blocks[b]
  BY <1>1
<1> HIDE DEF all
<1> DEFINE at == [b \in 1 .. n |-> m + b]
           Q == m + 1 .. m + n
<1>3. Through(at, blocks, all, Q)
  <2>1. at \in [1 .. n -> Q]
    OBVIOUS
  <2>2. \A q \in Q : \E k \in 1 .. n : at[k] = q
    <3>1. TAKE q \in Q
    <3>2. q - m \in 1 .. n /\ at[q - m] = q
      OBVIOUS
    <3>3. QED
      BY <3>2
  <2>3. \A j, k \in 1 .. n : j < k => at[j] < at[k]
    OBVIOUS
  <2>4. \A k \in 1 .. n : blocks[k] = all[at[k]]
    BY <1>2
  <2>5. QED
    BY <1>1, <2>1, <2>2, <2>3, <2>4 DEF Through
<1>4. Embeds(OfKind(kind, blocks), all, {at[p] : p \in P})
  <2>1. P \subseteq DOMAIN blocks /\ DOMAIN blocks \subseteq Nat /\ Q \in SUBSET Nat
    BY DEF KindAt
  <2>2. Embeds(OfKind(kind, blocks), blocks, P)
    BY OfKindIs
  <2> HIDE DEF P, Q, at
  <2>3. QED
    BY <1>3, <2>1, <2>2, EmbedsThrough
<1>5. {at[p] : p \in P} = KindAt(kind, all, DOMAIN all)
  <2>1. ASSUME NEW q \in KindAt(kind, all, DOMAIN all)
        PROVE  q \in {at[p] : p \in P}
    <3>1. q \in 1 .. m + n /\ all[q].kind = kind
      BY <1>2 DEF KindAt
    <3>2. q \notin 1 .. m
      BY <1>1, <1>2, <3>1
    <3>3. q - m \in 1 .. n /\ all[q] = blocks[q - m]
      BY <1>2, <3>1, <3>2
    <3>4. q - m \in P /\ at[q - m] = q
      BY <1>1, <3>1, <3>3 DEF KindAt
    <3>5. QED
      BY <3>4
  <2>2. ASSUME NEW p \in P
        PROVE  at[p] \in KindAt(kind, all, DOMAIN all)
    <3>1. p \in 1 .. n /\ blocks[p].kind = kind
      BY <1>1 DEF KindAt
    <3>2. at[p] = m + p /\ m + p \in 1 .. m + n
      BY <3>1
    <3>3. QED
      BY <1>2, <3>1, <3>2 DEF KindAt
  <2>3. QED
    BY <2>1, <2>2
<1>6. OfKind(kind, blocks) \in Seq(Blocks)
  BY OfKindIs
<1>7. OfKind(kind, all) = OfKind(kind, blocks)
  BY <1>2, <1>4, <1>5, <1>6, OfKindOnce
<1>8. QED
  BY <1>7 DEF all

\* One more block.
LEMMA OfKindMore ==
  ASSUME NEW blocks \in Seq(Blocks), NEW block \in Blocks, NEW kind
  PROVE  OfKind(kind, Append(blocks, block)) =
            IF block.kind = kind THEN Append(OfKind(kind, blocks), block)
            ELSE OfKind(kind, blocks)
<1> DEFINE all == Append(blocks, block)
           P == KindAt(kind, blocks, DOMAIN blocks)
           out == OfKind(kind, blocks)
<1>1. PICK n \in Nat : n = Len(blocks) /\ DOMAIN blocks = 1 .. n
  OBVIOUS
<1>2. /\ all \in Seq(Blocks) /\ DOMAIN all = 1 .. n + 1 /\ all[n + 1] = block
      /\ \A b \in 1 .. n : all[b] = blocks[b]
  BY <1>1
<1>3. out \in Seq(Blocks) /\ Embeds(out, blocks, P)
  BY OfKindIs
<1>4. P \in SUBSET Nat /\ \A p \in P : p \in 1 .. n /\ p < n + 1
  BY <1>1 DEF KindAt
<1> HIDE DEF all, out
<1>5. Embeds(out, all, P)
  <2>1. PICK at : Through(at, out, blocks, P)
    BY <1>3 DEF Embeds
  <2>2. Through(at, out, all, P)
    BY <1>2, <1>4, <2>1 DEF Through
  <2>3. QED
    BY <2>2 DEF Embeds
<1>6. KindAt(kind, all, DOMAIN all) = IF block.kind = kind THEN P \cup {n + 1} ELSE P
  BY <1>1, <1>2 DEF KindAt
<1>7. CASE block.kind = kind
  <2> HIDE DEF P
  <2>1. /\ Append(out, all[n + 1]) \in Seq(Blocks)
        /\ Embeds(Append(out, all[n + 1]), all, P \cup {n + 1})
    <3>1. n + 1 \in Nat /\ all[n + 1] \in Blocks /\ \A p \in P : p < n + 1
      BY <1>2, <1>4
    <3>2. P \in SUBSET Nat
      BY <1>4
    <3>3. QED
      BY <1>3, <1>5, <3>1, <3>2, EmbedsMore
  <2>2. OfKind(kind, all) = Append(out, all[n + 1])
    BY <1>2, <1>6, <1>7, <2>1, OfKindOnce
  <2>3. QED
    BY <1>2, <1>7, <2>2 DEF all, out
<1>8. CASE block.kind # kind
  <2> HIDE DEF P
  <2>1. OfKind(kind, all) = out
    BY <1>2, <1>3, <1>5, <1>6, <1>8, OfKindOnce
  <2>2. QED
    BY <1>8, <2>1 DEF all, out
<1>9. QED
  BY <1>7, <1>8

-----------------------------------------------------------------------------
(* What the conversion makes, message by message.                          *)

Messages == [role : {"user", "assistant"}, plain : BOOLEAN, blocks : Seq(Blocks),
             reasoning : Seq(Nat)]
ChatMessages == [role : {"user", "assistant", "tool"}, text : Seq(Blocks), calls : Seq(Nat),
                 answers : Nat, reasoning : Seq(Nat)]
States == [chat : Seq(ChatMessages),
           pending : [awaited : SUBSET Nat, blocks : Seq(Blocks), reasoning : Seq(Nat)]]

\* Ids has the number of each block.
LEMMA IdsAre ==
  ASSUME NEW blocks \in Seq(Blocks)
  PROVE  /\ Ids(blocks) \in Seq(Nat) /\ DOMAIN Ids(blocks) = DOMAIN blocks
         /\ Len(Ids(blocks)) = Len(blocks)
         /\ \A i \in DOMAIN blocks : Ids(blocks)[i] = blocks[i].id
<1>1. PICK n \in Nat : n = Len(blocks) /\ DOMAIN blocks = 1 .. n
  OBVIOUS
<1>2. \A i \in 1 .. n : blocks[i].id \in Nat
  <2>1. \A i \in 1 .. n : blocks[i] \in Blocks
    BY <1>1
  <2>2. QED
    BY <2>1 DEF Blocks
<1>3. Ids(blocks) = [i \in 1 .. n |-> blocks[i].id]
  BY <1>1 DEF Ids
<1> DEFINE ids == [i \in 1 .. n |-> blocks[i].id]
<1>4. ids \in Seq(Nat) /\ Len(ids) = n /\ DOMAIN ids = 1 .. n
  BY <1>2
<1>5. QED
  BY <1>1, <1>3, <1>4

\* What an assistant's message without calls becomes.
LEMMA AssistantChatIs ==
  ASSUME NEW mode, NEW blocks \in Seq(Blocks), NEW reasoning \in Seq(Nat)
  PROVE  LET said == AssistantChat(mode, blocks, reasoning)
         IN  /\ said \in ChatMessages /\ said.role = "assistant" /\ said.calls = <<>>
             /\ said.answers = 0 /\ said.text = OfKind("text", blocks)
             /\ said.reasoning = IF mode = "disabled" THEN <<>>
                                 ELSE IF reasoning # <<>> THEN reasoning
                                 ELSE Ids(OfKind("thinking", blocks))
<1>1. OfKind("text", blocks) \in Seq(Blocks) /\ Ids(OfKind("thinking", blocks)) \in Seq(Nat)
  BY OfKindIs, IdsAre
<1>2. <<>> \in Seq(Nat)
  OBVIOUS
<1>3. QED
  BY <1>1, <1>2 DEF AssistantChat, ChatMessage, ChatMessages

\* What a message with calls becomes: no block behind a call is in it.
LEMMA CallChatIs ==
  ASSUME NEW mode, NEW message \in Messages
  PROVE  LET said == CallChat(mode, message)
             before == Picked(message.blocks, BeforeCalls(message.blocks))
         IN  /\ said \in ChatMessages /\ said.role = "assistant" /\ said.answers = 0
             /\ said.calls = Ids(OfKind("call", message.blocks))
             /\ said.text = OfKind("text", before)
             /\ said.reasoning = IF mode = "disabled" THEN <<>>
                                 ELSE IF message.reasoning # <<>> THEN message.reasoning
                                 ELSE Ids(OfKind("thinking", before))
<1> DEFINE before == Picked(message.blocks, BeforeCalls(message.blocks))
           calls == Ids(OfKind("call", message.blocks))
<1>1. message.blocks \in Seq(Blocks) /\ message.reasoning \in Seq(Nat)
  BY DEF Messages
<1>2. before \in Seq(Blocks) /\ calls \in Seq(Nat)
  BY <1>1, PickedBlocks, OfKindIs, IdsAre
<1>3. CallChat(mode, message) = [AssistantChat(mode, before, message.reasoning) EXCEPT !.calls = calls]
  BY DEF CallChat
<1> HIDE DEF before, calls
<1> DEFINE said == AssistantChat(mode, before, message.reasoning)
<1>4. /\ said \in ChatMessages /\ said.role = "assistant" /\ said.calls = <<>>
      /\ said.answers = 0 /\ said.text = OfKind("text", before)
      /\ said.reasoning = IF mode = "disabled" THEN <<>>
                          ELSE IF message.reasoning # <<>> THEN message.reasoning
                          ELSE Ids(OfKind("thinking", before))
  BY <1>1, <1>2, AssistantChatIs
<1> HIDE DEF said
<1>5. /\ [said EXCEPT !.calls = calls] \in ChatMessages
      /\ [said EXCEPT !.calls = calls].role = said.role
      /\ [said EXCEPT !.calls = calls].answers = said.answers
      /\ [said EXCEPT !.calls = calls].text = said.text
      /\ [said EXCEPT !.calls = calls].reasoning = said.reasoning
      /\ [said EXCEPT !.calls = calls].calls = calls
  BY <1>2, <1>4 DEF ChatMessages
<1>6. QED
  BY <1>3, <1>4, <1>5 DEF said, before, calls

\* What is deferred has its types.
LEMMA DeferredIs ==
  ASSUME NEW message \in Messages
  PROVE  /\ DeferredOf(message) \in [awaited : SUBSET Nat, blocks : Seq(Blocks),
                                     reasoning : Seq(Nat)]
         /\ NoneDeferred \in [awaited : SUBSET Nat, blocks : Seq(Blocks), reasoning : Seq(Nat)]
<1>1. message.blocks \in Seq(Blocks) /\ message.reasoning \in Seq(Nat)
  BY DEF Messages
<1>2. /\ Picked(message.blocks, AmongCalls(message.blocks)) \in Seq(Blocks)
      /\ Ids(OfKind("call", message.blocks)) \in Seq(Nat)
  BY <1>1, PickedBlocks, OfKindIs, IdsAre
<1>3. ToSet(Ids(OfKind("call", message.blocks))) \in SUBSET Nat
  BY <1>2 DEF ToSet
<1>4. NoneDeferred \in [awaited : SUBSET Nat, blocks : Seq(Blocks), reasoning : Seq(Nat)]
  BY DEF NoneDeferred
<1>5. QED
  BY <1>1, <1>2, <1>3, <1>4 DEF DeferredOf

\* What is deferred becomes one message at the end, or there is none.
LEMMA JoinedIs ==
  ASSUME NEW mode, NEW state \in States
  PROVE  /\ Joined(mode, state) \in States
         /\ state.pending.blocks = <<>> => Joined(mode, state) = state
         /\ state.pending.blocks # <<>> =>
               /\ Joined(mode, state).chat =
                     Append(state.chat, AssistantChat(mode, state.pending.blocks,
                                                      state.pending.reasoning))
               /\ Joined(mode, state).pending = NoneDeferred
<1>1. /\ state.chat \in Seq(ChatMessages) /\ state.pending.blocks \in Seq(Blocks)
      /\ state.pending.reasoning \in Seq(Nat)
  BY DEF States
<1> DEFINE said == AssistantChat(mode, state.pending.blocks, state.pending.reasoning)
<1>2. said \in ChatMessages
  BY <1>1, AssistantChatIs
<1>3. NoneDeferred \in [awaited : SUBSET Nat, blocks : Seq(Blocks), reasoning : Seq(Nat)]
  BY DEF NoneDeferred
<1>4. Append(state.chat, said) \in Seq(ChatMessages)
  <2> HIDE DEF said
  <2>1. QED
    BY <1>1, <1>2
<1>5. QED
  BY <1>1, <1>3, <1>4 DEF Joined, States

\* A block of a user's message keeps the types.
LEMMA UserBlockIs ==
  ASSUME NEW mode, NEW state \in States, NEW block \in Blocks
  PROVE  /\ UserBlock(mode, state, block) \in States
         /\ ToolChat(block.id) \in ChatMessages /\ UserChat(<<block>>) \in ChatMessages
<1>1. block.id \in Nat /\ <<block>> \in Seq(Blocks)
  BY DEF Blocks
<1>2. ToolChat(block.id) \in ChatMessages /\ UserChat(<<block>>) \in ChatMessages
  BY <1>1 DEF ToolChat, UserChat, ChatMessage, ChatMessages
<1>3. state.chat \in Seq(ChatMessages)
  BY DEF States
<1>4. [state EXCEPT !.chat = Append(@, UserChat(<<block>>))] \in States
  <2>1. Append(state.chat, UserChat(<<block>>)) \in Seq(ChatMessages)
    BY <1>2, <1>3
  <2>2. QED
    BY <2>1 DEF States
<1> DEFINE told == [chat |-> Append(state.chat, ToolChat(block.id)),
                    pending |-> [state.pending EXCEPT !.awaited = @ \ {block.id}]]
<1>5. told \in States
  BY <1>1, <1>2, <1>3 DEF States
<1>6. ResultChat(mode, state, block.id) \in States
  <2>1. Joined(mode, told) \in States
    BY <1>5, JoinedIs
  <2>2. QED
    BY <1>5, <2>1 DEF ResultChat
<1>7. QED
  BY <1>2, <1>4, <1>6 DEF UserBlock

BlockStep(mode) == [p \in States \X Blocks |-> UserBlock(mode, p[1], p[2])]

\* The blocks of a user's message are taken one after the other.
LEMMA UserBlocksFold ==
  ASSUME NEW mode, NEW state \in States, NEW blocks \in Seq(Blocks)
  PROVE  /\ BlockStep(mode) \in [States \X Blocks -> States]
         /\ \E f : /\ Folds(f, BlockStep(mode), state, blocks)
                   /\ UserBlocks(mode, state, blocks) = f[Len(blocks)]
<1>0. PICK n \in Nat : n = Len(blocks)
  OBVIOUS
<1> DEFINE D == 0 .. n
           F(f) == [k \in D |-> IF k = 0 THEN state ELSE UserBlock(mode, f[k - 1], blocks[k])]
           upTo == CHOOSE f : f = F(f)
           G == BlockStep(mode)
<1>1. \A k \in 1 .. n : blocks[k] \in Blocks
  BY <1>0
<1>2. G \in [States \X Blocks -> States]
  BY UserBlockIs DEF BlockStep
<1>3. \A v \in States, b \in Blocks : G[<<v, b>>] = UserBlock(mode, v, b)
  BY DEF BlockStep
<1> HIDE DEF G
<1>4. PICK g \in [0 .. Len(blocks) -> States] : Folds(g, G, state, blocks)
  BY <1>2, FoldExists
<1>5. g[0] = state /\ \A k \in 1 .. n : g[k] = G[<<g[k - 1], blocks[k]>>]
  BY <1>0, <1>4 DEF Folds
<1>6. g = F(g)
  <2>1. ASSUME NEW k \in D
        PROVE  g[k] = F(g)[k]
    <3>1. CASE k = 0
      BY <1>5, <3>1
    <3>2. CASE k # 0
      <4>1. k \in 1 .. n /\ k - 1 \in 0 .. n
        BY <1>0, <3>2
      <4>2. g[k - 1] \in States
        BY <1>0, <1>4, <4>1
      <4>3. g[k] = UserBlock(mode, g[k - 1], blocks[k])
        BY <1>1, <1>3, <1>5, <4>1, <4>2
      <4>4. QED
        BY <3>2, <4>3
    <3>3. QED
      BY <3>1, <3>2
  <2>2. QED
    BY <1>0, <1>4, <2>1
<1>7. upTo = F(upTo)
  BY <1>6
<1>8. UserBlocks(mode, state, blocks) = upTo[n]
  BY <1>0 DEF UserBlocks
<1> HIDE DEF upTo
<1>9. upTo[0] = state /\ \A k \in 1 .. n : upTo[k] = UserBlock(mode, upTo[k - 1], blocks[k])
  <2>1. 0 \in D /\ \A k \in 1 .. n : k \in D /\ k # 0
    BY <1>0
  <2>2. QED
    BY <1>7, <2>1
<1> DEFINE T == {k \in 0 .. n : upTo[k] \in States /\ upTo[k] = g[k]}
<1>10. 0 \in T
  <2>1. upTo[0] = g[0] /\ upTo[0] \in States /\ 0 \in 0 .. n
    BY <1>0, <1>5, <1>9
  <2> HIDE DEF upTo
  <2>2. QED
    BY <2>1
<1>11. ASSUME NEW k \in 1 .. n, k - 1 \in T
       PROVE  k \in T
  <2>1. upTo[k - 1] \in States /\ upTo[k - 1] = g[k - 1]
    BY <1>11
  <2>2. UserBlock(mode, upTo[k - 1], blocks[k]) \in States
    BY <1>1, <2>1, UserBlockIs
  <2>3. upTo[k] = UserBlock(mode, upTo[k - 1], blocks[k])
    BY <1>9
  <2>4. g[k] = UserBlock(mode, upTo[k - 1], blocks[k])
    BY <1>1, <1>3, <1>5, <2>1
  <2>5. QED
    BY <2>2, <2>3, <2>4
<1>12. n \in T
  <2>1. \A k \in 1 .. n : k - 1 \in T => k \in T
    BY <1>11
  <2> HIDE DEF T
  <2>2. \A k \in 0 .. n : k \in T
    BY <1>0, <1>10, <2>1, EveryPrefix
  <2>3. QED
    BY <1>0, <2>2
<1>13. QED
  BY <1>0, <1>2, <1>4, <1>8, <1>12 DEF G

\* A block more of a user's message is one step more.
LEMMA UserBlocksIs ==
  ASSUME NEW mode, NEW state \in States, NEW blocks \in Seq(Blocks), NEW block \in Blocks
  PROVE  /\ UserBlocks(mode, state, blocks) \in States
         /\ UserBlocks(mode, state, <<>>) = state
         /\ UserBlocks(mode, state, Append(blocks, block)) =
               UserBlock(mode, UserBlocks(mode, state, blocks), block)
<1> DEFINE G == BlockStep(mode)
           more == Append(blocks, block)
<1>1. G \in [States \X Blocks -> States] /\ more \in Seq(Blocks) /\ <<>> \in Seq(Blocks)
  <2>1. BlockStep(mode) \in [States \X Blocks -> States]
    BY UserBlocksFold
  <2>2. QED
    BY <2>1
<1> HIDE DEF G, more
<1>2. PICK f : Folds(f, G, state, blocks) /\ UserBlocks(mode, state, blocks) = f[Len(blocks)]
  BY UserBlocksFold DEF G
<1>3. PICK g : Folds(g, G, state, more) /\ UserBlocks(mode, state, more) = g[Len(more)]
  BY <1>1, UserBlocksFold DEF G
<1>4. PICK h : Folds(h, G, state, <<>>) /\ UserBlocks(mode, state, <<>>) = h[Len(<<>>)]
  BY <1>1, UserBlocksFold DEF G
<1>5. f[Len(blocks)] \in States /\ g[Len(more)] = G[<<f[Len(blocks)], block>>]
  <2>1. more = Append(blocks, block)
    BY DEF more
  <2>2. g[Len(more)] = G[<<f[Len(blocks)], block>>]
    <3>1. OneMore(more, blocks, block)
      BY <2>1, AppendIsOneMore
    <3>2. QED
      BY <1>2, <1>3, <3>1, FoldGrows
  <2>3. \A i \in 0 .. Len(blocks) : f[i] \in States
    BY <1>1, <1>2, FoldStays
  <2>4. QED
    BY <2>2, <2>3
<1>6. \A v \in States : G[<<v, block>>] = UserBlock(mode, v, block)
  BY DEF G, BlockStep
<1>7. Len(<<>>) = 0 /\ h[0] = state
  BY <1>4 DEF Folds
<1>8. QED
  BY <1>2, <1>3, <1>4, <1>5, <1>6, <1>7 DEF more

\* A message keeps the types.
LEMMA ConvertedIs ==
  ASSUME NEW mode, NEW state \in States, NEW message \in Messages
  PROVE  Converted(mode, state, message) \in States
<1> DEFINE joined == Joined(mode, state)
           said == AssistantChat(mode, message.blocks, message.reasoning)
<1>1. /\ message.blocks \in Seq(Blocks) /\ message.reasoning \in Seq(Nat)
      /\ message.role \in {"user", "assistant"}
  BY DEF Messages
<1>2. joined \in States /\ said \in ChatMessages
  BY <1>1, JoinedIs, AssistantChatIs
<1>3. CallChat(mode, message) \in ChatMessages
  BY CallChatIs
<1>4. UserChat(message.blocks) \in ChatMessages
  BY <1>1 DEF UserChat, ChatMessage, ChatMessages
<1>5. UserBlocks(mode, state, message.blocks) \in States
  <2>1. PICK b \in Blocks : b = Piece("text", 0)
    BY DEF Piece, Blocks
  <2>2. QED
    BY <1>1, UserBlocksIs
<1>6. DeferredOf(message) \in [awaited : SUBSET Nat, blocks : Seq(Blocks), reasoning : Seq(Nat)]
  BY DeferredIs
<1> HIDE DEF joined, said
<1>7. \A s \in States, m \in ChatMessages :
         s.chat \in Seq(ChatMessages) /\ [s EXCEPT !.chat = Append(@, m)] \in States
  <2>1. TAKE s \in States, m \in ChatMessages
  <2>2. s.chat \in Seq(ChatMessages)
    BY DEF States
  <2>3. Append(s.chat, m) \in Seq(ChatMessages)
    BY <2>2
  <2>4. QED
    BY <2>2, <2>3 DEF States
<1>8. [joined EXCEPT !.chat = Append(@, UserChat(message.blocks))] \in States
  BY <1>2, <1>4, <1>7
<1>9. /\ [joined EXCEPT !.chat = Append(@, said)] \in States
      /\ [state EXCEPT !.chat = Append(@, said)] \in States
  BY <1>2, <1>7
<1>10. [chat |-> Append(joined.chat, CallChat(mode, message)), pending |-> DeferredOf(message)]
          \in States
  <2>1. Append(joined.chat, CallChat(mode, message)) \in Seq(ChatMessages)
    <3>1. joined.chat \in Seq(ChatMessages)
      BY <1>2 DEF States
    <3>2. QED
      BY <1>3, <3>1
  <2>2. QED
    BY <1>6, <2>1 DEF States
<1>11. QED
  BY <1>5, <1>8, <1>9, <1>10 DEF Converted, joined, said

MessageStep(mode) == [p \in States \X Messages |-> Converted(mode, p[1], p[2])]
Unconverted == [chat |-> <<>>, pending |-> NoneDeferred]

\* The messages are converted one after the other.
LEMMA ConversionFold ==
  ASSUME NEW mode, NEW messages \in Seq(Messages)
  PROVE  /\ Unconverted \in States
         /\ MessageStep(mode) \in [States \X Messages -> States]
         /\ \E f : /\ Folds(f, MessageStep(mode), Unconverted, messages)
                   /\ Conversion(mode, messages) = f[Len(messages)]
<1>0. PICK n \in Nat : n = Len(messages)
  OBVIOUS
<1> DEFINE D == 0 .. n
           F(f) == [k \in D |-> IF k = 0 THEN Unconverted
                                ELSE Converted(mode, f[k - 1], messages[k])]
           upTo == CHOOSE f : f = F(f)
           G == MessageStep(mode)
<1>1. \A k \in 1 .. n : messages[k] \in Messages
  BY <1>0
<1>2. G \in [States \X Messages -> States]
  BY ConvertedIs DEF MessageStep
<1>3. \A v \in States, m \in Messages : G[<<v, m>>] = Converted(mode, v, m)
  BY DEF MessageStep
<1>u. Unconverted \in States
  BY DEF Unconverted, NoneDeferred, States
<1> HIDE DEF G
<1>4. PICK g \in [0 .. Len(messages) -> States] : Folds(g, G, Unconverted, messages)
  BY <1>2, <1>u, FoldExists
<1>5. g[0] = Unconverted /\ \A k \in 1 .. n : g[k] = G[<<g[k - 1], messages[k]>>]
  BY <1>0, <1>4 DEF Folds
<1>6. g = F(g)
  <2>1. ASSUME NEW k \in D
        PROVE  g[k] = F(g)[k]
    <3>1. CASE k = 0
      BY <1>5, <3>1
    <3>2. CASE k # 0
      <4>1. k \in 1 .. n /\ k - 1 \in 0 .. n
        BY <1>0, <3>2
      <4>2. g[k - 1] \in States
        BY <1>0, <1>4, <4>1
      <4>3. g[k] = Converted(mode, g[k - 1], messages[k])
        BY <1>1, <1>3, <1>5, <4>1, <4>2
      <4>4. QED
        BY <3>2, <4>3
    <3>3. QED
      BY <3>1, <3>2
  <2>2. QED
    BY <1>0, <1>4, <2>1
<1>7. upTo = F(upTo)
  BY <1>6
<1>8. Conversion(mode, messages) = upTo[n]
  BY <1>0 DEF Conversion, Unconverted
<1> HIDE DEF upTo
<1>9. upTo[0] = Unconverted /\ \A k \in 1 .. n : upTo[k] = Converted(mode, upTo[k - 1], messages[k])
  <2>1. 0 \in D /\ \A k \in 1 .. n : k \in D /\ k # 0
    BY <1>0
  <2>2. QED
    BY <1>7, <2>1
<1> DEFINE T == {k \in 0 .. n : upTo[k] \in States /\ upTo[k] = g[k]}
<1>10. 0 \in T
  <2>1. upTo[0] = g[0] /\ upTo[0] \in States /\ 0 \in 0 .. n
    BY <1>0, <1>5, <1>9, <1>u
  <2> HIDE DEF upTo
  <2>2. QED
    BY <2>1
<1>11. ASSUME NEW k \in 1 .. n, k - 1 \in T
       PROVE  k \in T
  <2>1. upTo[k - 1] \in States /\ upTo[k - 1] = g[k - 1]
    BY <1>11
  <2>2. Converted(mode, upTo[k - 1], messages[k]) \in States
    BY <1>1, <2>1, ConvertedIs
  <2>3. upTo[k] = Converted(mode, upTo[k - 1], messages[k])
    BY <1>9
  <2>4. g[k] = Converted(mode, upTo[k - 1], messages[k])
    BY <1>1, <1>3, <1>5, <2>1
  <2>5. QED
    BY <2>2, <2>3, <2>4
<1>12. n \in T
  <2>1. \A k \in 1 .. n : k - 1 \in T => k \in T
    BY <1>11
  <2> HIDE DEF T
  <2>2. \A k \in 0 .. n : k \in T
    BY <1>0, <1>10, <2>1, EveryPrefix
  <2>3. QED
    BY <1>0, <2>2
<1>13. QED
  BY <1>0, <1>2, <1>4, <1>8, <1>12, <1>u DEF G

\* A message more is one conversion more.
LEMMA ConversionIs ==
  ASSUME NEW mode, NEW messages \in Seq(Messages)
  PROVE  /\ Conversion(mode, messages) \in States
         /\ Conversion(mode, <<>>) = Unconverted
         /\ \A message \in Messages :
               Conversion(mode, Append(messages, message)) =
                  Converted(mode, Conversion(mode, messages), message)
<1> DEFINE G == MessageStep(mode)
<1>1. G \in [States \X Messages -> States] /\ Unconverted \in States /\ <<>> \in Seq(Messages)
  <2>1. MessageStep(mode) \in [States \X Messages -> States] /\ Unconverted \in States
    BY ConversionFold
  <2>2. QED
    BY <2>1
<1> HIDE DEF G
<1>2. PICK f : Folds(f, G, Unconverted, messages) /\ Conversion(mode, messages) = f[Len(messages)]
  BY ConversionFold DEF G
<1>3. PICK h : Folds(h, G, Unconverted, <<>>) /\ Conversion(mode, <<>>) = h[Len(<<>>)]
  BY <1>1, ConversionFold DEF G
<1>4. Len(<<>>) = 0 /\ h[0] = Unconverted
  BY <1>3 DEF Folds
<1>5. f[Len(messages)] \in States
  <2>1. \A i \in 0 .. Len(messages) : f[i] \in States
    BY <1>1, <1>2, FoldStays
  <2>2. QED
    BY <2>1
<1>6. ASSUME NEW message \in Messages
      PROVE  Conversion(mode, Append(messages, message)) =
                Converted(mode, Conversion(mode, messages), message)
  <2> DEFINE more == Append(messages, message)
  <2>1. more \in Seq(Messages)
    OBVIOUS
  <2> HIDE DEF more
  <2>2. PICK g : Folds(g, G, Unconverted, more) /\ Conversion(mode, more) = g[Len(more)]
    BY <2>1, ConversionFold DEF G
  <2>3. g[Len(more)] = G[<<f[Len(messages)], message>>]
    <3>1. more = Append(messages, message)
      BY DEF more
    <3>2. OneMore(more, messages, message)
      BY <3>1, AppendIsOneMore
    <3>3. QED
      BY <1>2, <2>2, <3>2, FoldGrows
  <2>4. G[<<f[Len(messages)], message>>] = Converted(mode, f[Len(messages)], message)
    BY <1>5 DEF G, MessageStep
  <2>5. QED
    BY <1>2, <2>2, <2>3, <2>4 DEF more
<1>7. QED
  BY <1>2, <1>3, <1>4, <1>5, <1>6

-----------------------------------------------------------------------------
(* What a chat tells.                                                      *)

Distinct(history, places) == \A p, q \in places : history[p] = history[q] => p = q

\* new has the spots of chat, and these after them.
AddsSpots(new, chat, spots) ==
    /\ Spots(new) = Spots(chat) \cup spots
    /\ \A r \in Spots(chat) : ToldAt(new, r) = ToldAt(chat, r)
    /\ \A r \in Spots(chat), s \in spots : Earlier(r, s)

\* These spots of a chat tell these places of a history, in their order.
SpotsTell(chat, spots, history, places, at) ==
    /\ at \in [spots -> places]
    /\ \A p \in places : \E s \in spots : at[s] = p
    /\ \A s \in spots : ToldAt(chat, s) = history[at[s]]
    /\ \A r, s \in spots : at[r] < at[s] => Earlier(r, s)
    /\ \A r, s \in spots : at[r] = at[s] => r = s

\* Places that come after others, or may follow them.
ComeNext(history, places, others) ==
    \A p \in places, q \in others : p < q \/ MayFollow(history, q, p)

\* A chat that tells D at new spots behind the others tells K and D.
LEMMA TellsMore ==
  ASSUME NEW chat, NEW new, NEW history, NEW K \in SUBSET Nat, NEW D \in SUBSET Nat,
         NEW S, NEW at,
         Tells(chat, history, K), AddsSpots(new, chat, S),
         SpotsTell(new, S, history, D, at), Distinct(history, K \cup D),
         K \cap D = {}, ComeNext(history, K, D)
  PROVE  Tells(new, history, K \cup D)
<1>1. /\ \A s \in Spots(chat) : \E p \in K : ToldAt(chat, s) = history[p]
      /\ \A p \in K : \E s \in Spots(chat) : ToldAt(chat, s) = history[p]
      /\ \A r, s \in Spots(chat) : ToldAt(chat, r) = ToldAt(chat, s) => r = s
      /\ \A p, q \in K : p < q /\ ~ MayFollow(history, p, q) =>
            \A r, s \in Spots(chat) :
               ToldAt(chat, r) = history[p] /\ ToldAt(chat, s) = history[q] => Earlier(r, s)
  BY DEF Tells
<1>2. /\ Spots(new) = Spots(chat) \cup S
      /\ \A r \in Spots(chat) : ToldAt(new, r) = ToldAt(chat, r)
      /\ \A r \in Spots(chat), s \in S : Earlier(r, s)
  BY DEF AddsSpots
<1>3. /\ at \in [S -> D] /\ \A p \in D : \E s \in S : at[s] = p
      /\ \A s \in S : ToldAt(new, s) = history[at[s]]
      /\ \A r, s \in S : at[r] < at[s] => Earlier(r, s)
      /\ \A r, s \in S : at[r] = at[s] => r = s
  BY DEF SpotsTell
<1>4. \A p, q \in K \cup D : history[p] = history[q] => p = q
  BY DEF Distinct
<1>5. ASSUME NEW r \in Spots(new), NEW p \in K, ToldAt(new, r) = history[p]
      PROVE  r \in Spots(chat) /\ ToldAt(chat, r) = history[p]
  <2>1. CASE r \in S
    <3>1. at[r] \in D /\ history[at[r]] = history[p]
      BY <1>3, <1>5, <2>1
    <3>2. at[r] = p
      BY <1>4, <3>1
    <3>3. QED
      BY <3>1, <3>2
  <2>2. CASE r \in Spots(chat)
    BY <1>2, <1>5, <2>2
  <2>3. QED
    BY <1>2, <2>1, <2>2
<1>6. ASSUME NEW r \in Spots(new), NEW p \in D, ToldAt(new, r) = history[p]
      PROVE  r \in S /\ at[r] = p
  <2>1. CASE r \in S
    <3>1. at[r] \in D /\ history[at[r]] = history[p]
      BY <1>3, <1>6, <2>1
    <3>2. QED
      BY <1>4, <2>1, <3>1
  <2>2. CASE r \in Spots(chat)
    <3>1. PICK k \in K : history[k] = history[p]
      BY <1>1, <1>2, <1>6, <2>2
    <3>2. k = p
      BY <1>4, <3>1
    <3>3. QED
      BY <3>2
  <2>3. QED
    BY <1>2, <2>1, <2>2
<1>7. \A s \in Spots(new) : \E p \in K \cup D : ToldAt(new, s) = history[p]
  <2>1. TAKE s \in Spots(new)
  <2>2. CASE s \in S
    BY <1>3, <2>2
  <2>3. CASE s \in Spots(chat)
    BY <1>1, <1>2, <2>3
  <2>4. QED
    BY <1>2, <2>2, <2>3
<1>8. \A p \in K \cup D : \E s \in Spots(new) : ToldAt(new, s) = history[p]
  <2>1. TAKE p \in K \cup D
  <2>2. CASE p \in K
    BY <1>1, <1>2, <2>2
  <2>3. CASE p \in D
    BY <1>2, <1>3, <2>3
  <2>4. QED
    BY <2>2, <2>3
<1>9. ASSUME NEW r \in Spots(new), NEW s \in Spots(new), ToldAt(new, r) = ToldAt(new, s)
      PROVE  r = s
  <2>1. PICK p \in K \cup D : ToldAt(new, r) = history[p]
    BY <1>7
  <2>2. CASE p \in K
    <3>1. /\ r \in Spots(chat) /\ ToldAt(chat, r) = history[p]
          /\ s \in Spots(chat) /\ ToldAt(chat, s) = history[p]
      BY <1>5, <1>9, <2>1, <2>2
    <3>2. QED
      BY <1>1, <3>1
  <2>3. CASE p \in D
    <3>1. r \in S /\ at[r] = p /\ s \in S /\ at[s] = p
      BY <1>6, <1>9, <2>1, <2>3
    <3>2. QED
      BY <1>3, <3>1
  <2>4. QED
    BY <2>2, <2>3
<1>10. ASSUME NEW p \in K \cup D, NEW q \in K \cup D, p < q, ~ MayFollow(history, p, q),
              NEW r \in Spots(new), NEW s \in Spots(new),
              ToldAt(new, r) = history[p], ToldAt(new, s) = history[q]
       PROVE  Earlier(r, s)
  <2>1. CASE p \in K /\ q \in K
    <3>1. /\ r \in Spots(chat) /\ ToldAt(chat, r) = history[p]
          /\ s \in Spots(chat) /\ ToldAt(chat, s) = history[q]
      BY <1>5, <1>10, <2>1
    <3>2. QED
      BY <1>1, <1>10, <2>1, <3>1
  <2>2. CASE p \in K /\ q \in D
    <3>1. r \in Spots(chat) /\ s \in S
      BY <1>5, <1>6, <1>10, <2>2
    <3>2. QED
      BY <1>2, <3>1
  <2>3. CASE p \in D /\ q \in K
    <3>1. q < p
      BY <1>10, <2>3 DEF ComeNext
    <3>2. p \in Nat /\ q \in Nat
      BY <2>3
    <3>3. QED
      BY <1>10, <3>1, <3>2
  <2>4. CASE p \in D /\ q \in D
    <3>1. r \in S /\ at[r] = p /\ s \in S /\ at[s] = q
      BY <1>6, <1>10, <2>4
    <3>2. QED
      BY <1>3, <1>10, <3>1
  <2>5. QED
    BY <2>1, <2>2, <2>3, <2>4
<1>11. QED
  BY <1>7, <1>8, <1>9, <1>10 DEF Tells

\* What a chat message tells: its text, then its calls, or the result it is.
LEMMA ToldIs ==
  ASSUME NEW message \in ChatMessages
  PROVE  /\ Told(message) \in Seq(Blocks)
         /\ message.calls = <<>> /\ message.role # "tool" => Told(message) = message.text
         /\ message.role # "tool" =>
               Told(message) = message.text \o [c \in DOMAIN message.calls |->
                                                   Piece("call", message.calls[c])]
         /\ message.role = "tool" /\ message.text = <<>> /\ message.calls = <<>> =>
               Told(message) = <<Piece("result", message.answers)>>
<1> DEFINE calls == [c \in DOMAIN message.calls |-> Piece("call", message.calls[c])]
           last == IF message.role = "tool" THEN <<Piece("result", message.answers)>> ELSE <<>>
<1>1. /\ message.text \in Seq(Blocks) /\ message.calls \in Seq(Nat) /\ message.answers \in Nat
  BY DEF ChatMessages
<1>2. \A id \in Nat : Piece("call", id) \in Blocks /\ Piece("result", id) \in Blocks
  BY DEF Piece, Blocks
<1>3. calls \in Seq(Blocks)
  <2>1. PICK n \in Nat : DOMAIN message.calls = 1 .. n
    BY <1>1
  <2>2. \A c \in 1 .. n : message.calls[c] \in Nat
    BY <1>1, <2>1
  <2>3. calls = [c \in 1 .. n |-> Piece("call", message.calls[c])]
    BY <2>1
  <2> HIDE DEF calls
  <2>4. QED
    BY <1>2, <2>2, <2>3
<1>4. last \in Seq(Blocks)
  BY <1>1, <1>2
<1>5. Told(message) = (message.text \o calls) \o last
  BY DEF Told
<1>6. message.role # "tool" => last = <<>>
  OBVIOUS
<1>7. message.calls = <<>> => calls = <<>>
  OBVIOUS
<1>8. message.role = "tool" => last = <<Piece("result", message.answers)>>
  OBVIOUS
<1> HIDE DEF calls, last
<1>9. Told(message) \in Seq(Blocks)
  BY <1>1, <1>3, <1>4, <1>5
<1>10. message.calls = <<>> /\ message.role # "tool" => Told(message) = message.text
  BY <1>1, <1>5, <1>6, <1>7
<1>11. message.role # "tool" => Told(message) = message.text \o calls
  <2>1. message.text \o calls \in Seq(Blocks)
    BY <1>1, <1>3
  <2>2. (message.text \o calls) \o <<>> = message.text \o calls
    BY <2>1, ConcatEmptySeq
  <2>3. QED
    BY <1>5, <1>6, <2>2
<1>12. message.role = "tool" /\ message.text = <<>> /\ message.calls = <<>> =>
          Told(message) = <<Piece("result", message.answers)>>
  <2>1. <<>> \o <<>> = <<>> /\ <<>> \o last = last
    BY <1>4, ConcatEmptySeq
  <2>2. QED
    BY <1>5, <1>7, <1>8, <2>1
<1>13. QED
  BY <1>9, <1>10, <1>11, <1>12 DEF calls

\* One more message, which tells D.
LEMMA MessageTells ==
  ASSUME NEW chat \in Seq(ChatMessages), NEW message \in ChatMessages, NEW history,
         NEW K \in SUBSET Nat, NEW D \in SUBSET Nat,
         Tells(chat, history, K), Embeds(Told(message), history, D),
         Distinct(history, K \cup D), K \cap D = {}, ComeNext(history, K, D)
  PROVE  Tells(Append(chat, message), history, K \cup D)
<1> DEFINE new == Append(chat, message)
           T == DOMAIN Told(message)
<1>1. PICK n \in Nat : n = Len(chat) /\ DOMAIN chat = 1 .. n
  OBVIOUS
<1> DEFINE S == {<<n + 1, t>> : t \in T}
<1>2. /\ DOMAIN new = 1 .. n + 1 /\ new[n + 1] = message
      /\ \A m \in 1 .. n : new[m] = chat[m]
  BY <1>1
<1> HIDE DEF new
<1>3. PICK to : Through(to, Told(message), history, D)
  BY DEF Embeds
<1>4. T \subseteq Nat
  <2>1. Told(message) \in Seq(Blocks)
    BY ToldIs
  <2>2. QED
    BY <2>1
<1>5. \A r \in Spots(chat) : \E m \in 1 .. n : \E t \in DOMAIN Told(chat[m]) : r = <<m, t>>
  BY <1>1 DEF Spots
<1>6. Spots(new) = Spots(chat) \cup S
  <2>1. ASSUME NEW r \in Spots(new)
        PROVE  r \in Spots(chat) \cup S
    <3>1. PICK m, t : m \in 1 .. n + 1 /\ t \in DOMAIN Told(new[m]) /\ r = <<m, t>>
      BY <1>2 DEF Spots
    <3>2. CASE m = n + 1
      BY <1>2, <3>1, <3>2
    <3>3. CASE m # n + 1
      <4>1. m \in 1 .. n /\ t \in DOMAIN Told(chat[m])
        BY <1>2, <3>1, <3>3
      <4>2. r \in Spots(chat)
        BY <1>1, <3>1, <4>1 DEF Spots
      <4>3. QED
        BY <4>2
    <3>4. QED
      BY <3>2, <3>3
  <2>2. ASSUME NEW r \in Spots(chat)
        PROVE  r \in Spots(new)
    <3>1. PICK m, t : m \in 1 .. n /\ t \in DOMAIN Told(chat[m]) /\ r = <<m, t>>
      BY <1>5
    <3>2. m \in DOMAIN new /\ t \in DOMAIN Told(new[m])
      BY <1>2, <3>1
    <3>3. QED
      BY <3>1, <3>2 DEF Spots
  <2>3. ASSUME NEW r \in S
        PROVE  r \in Spots(new)
    <3>1. PICK t \in T : r = <<n + 1, t>>
      OBVIOUS
    <3>2. n + 1 \in DOMAIN new /\ t \in DOMAIN Told(new[n + 1])
      BY <1>2, <3>1
    <3>3. QED
      BY <3>1, <3>2 DEF Spots
  <2> HIDE DEF S
  <2>4. QED
    BY <2>1, <2>2, <2>3
<1>7. AddsSpots(new, chat, S)
  <2>1. ASSUME NEW r \in Spots(chat)
        PROVE  /\ ToldAt(new, r) = ToldAt(chat, r)
               /\ \A s \in S : Earlier(r, s)
    <3>1. PICK m, t : m \in 1 .. n /\ t \in DOMAIN Told(chat[m]) /\ r = <<m, t>>
      BY <1>5
    <3>2. new[m] = chat[m] /\ m < n + 1
      BY <1>2, <3>1
    <3>3. QED
      BY <3>1, <3>2 DEF ToldAt, Earlier
  <2> HIDE DEF S
  <2>2. QED
    BY <1>6, <2>1 DEF AddsSpots
<1> DEFINE at == [s \in S |-> to[s[2]]]
<1>8. SpotsTell(new, S, history, D, at)
  <2>1. /\ to \in [T -> D] /\ \A p \in D : \E t \in T : to[t] = p
        /\ \A t, u \in T : t < u => to[t] < to[u]
        /\ \A t \in T : Told(message)[t] = history[to[t]]
    BY <1>3 DEF Through
  <2>2. \A s \in S : s[1] = n + 1 /\ s[2] \in T /\ s = <<n + 1, s[2]>>
    OBVIOUS
  <2>3. at \in [S -> D]
    BY <2>1, <2>2
  <2>4. ASSUME NEW p \in D
        PROVE  \E s \in S : at[s] = p
    <3>1. PICK t \in T : to[t] = p
      BY <2>1
    <3>2. <<n + 1, t>> \in S /\ at[<<n + 1, t>>] = p
      BY <3>1
    <3>3. QED
      BY <3>2
  <2>5. \A s \in S : ToldAt(new, s) = history[at[s]]
    BY <1>2, <2>1, <2>2 DEF ToldAt
  <2>6. ASSUME NEW r \in S, NEW s \in S
        PROVE  /\ at[r] < at[s] => Earlier(r, s)
               /\ at[r] = at[s] => r = s
    <3>1. /\ r[2] \in T /\ s[2] \in T /\ r[1] = n + 1 /\ s[1] = n + 1
          /\ at[r] = to[r[2]] /\ at[s] = to[s[2]]
      BY <2>2
    <3>2. /\ r[2] \in Nat /\ s[2] \in Nat /\ to[r[2]] \in Nat /\ to[s[2]] \in Nat
      BY <1>4, <2>1, <3>1
    <3>3. /\ r[2] < s[2] => to[r[2]] < to[s[2]]
          /\ s[2] < r[2] => to[s[2]] < to[r[2]]
      BY <2>1, <3>1
    <3>4. to[r[2]] < to[s[2]] => r[2] < s[2]
      BY <3>2, <3>3
    <3>5. to[r[2]] = to[s[2]] => r[2] = s[2]
      BY <3>2, <3>3
    <3>6. QED
      BY <2>2, <3>1, <3>4, <3>5 DEF Earlier
  <2> HIDE DEF S, at
  <2>7. QED
    BY <2>3, <2>4, <2>5, <2>6 DEF SpotsTell
<1> HIDE DEF S, at
<1>9. Tells(new, history, K \cup D)
  BY <1>7, <1>8, TellsMore
<1>10. QED
  BY <1>9 DEF new

\* Its last message tells one piece more, or the same.
LEMMA LastTellsMore ==
  ASSUME NEW front \in Seq(ChatMessages), NEW old \in ChatMessages, NEW message \in ChatMessages,
         NEW history, NEW K \in SUBSET Nat, NEW p \in Nat,
         Tells(Append(front, old), history, K), OneMore(Told(message), Told(old), history[p]),
         Distinct(history, K \cup {p}), \A q \in K : q < p
  PROVE  Tells(Append(front, message), history, K \cup {p})
<1> DEFINE chat == Append(front, old)
           new == Append(front, message)
<1>1. PICK n \in Nat : n = Len(front) /\ DOMAIN front = 1 .. n
  OBVIOUS
<1>2. PICK k \in Nat : /\ k = Len(Told(old)) /\ DOMAIN Told(old) = 1 .. k
                       /\ DOMAIN Told(message) = 1 .. k + 1
                       /\ Told(message)[k + 1] = history[p]
                       /\ \A t \in 1 .. k : Told(message)[t] = Told(old)[t]
  BY ToldIs DEF OneMore
<1>3. /\ DOMAIN chat = 1 .. n + 1 /\ DOMAIN new = 1 .. n + 1
      /\ chat[n + 1] = old /\ new[n + 1] = message
      /\ \A m \in 1 .. n : chat[m] = front[m] /\ new[m] = front[m]
  BY <1>1
<1> HIDE DEF chat, new
<1> DEFINE spot == <<n + 1, k + 1>>
<1>4. \A r \in Spots(chat) : \E m \in 1 .. n + 1 : \E t \in DOMAIN Told(chat[m]) : r = <<m, t>>
  BY <1>3 DEF Spots
<1>5. Spots(new) = Spots(chat) \cup {spot}
  <2>1. ASSUME NEW r \in Spots(new)
        PROVE  r \in Spots(chat) \cup {spot}
    <3>1. PICK m, t : m \in 1 .. n + 1 /\ t \in DOMAIN Told(new[m]) /\ r = <<m, t>>
      BY <1>3 DEF Spots
    <3>2. r = spot \/ t \in DOMAIN Told(chat[m])
      <4>1. CASE m = n + 1
        <5>1. t \in 1 .. k + 1
          BY <1>2, <1>3, <3>1, <4>1
        <5>2. t = k + 1 \/ t \in 1 .. k
          BY <5>1
        <5>3. QED
          BY <1>2, <1>3, <3>1, <4>1, <5>2
      <4>2. CASE m # n + 1
        <5>1. m \in 1 .. n
          BY <3>1, <4>2
        <5>2. QED
          BY <1>3, <3>1, <5>1
      <4>3. QED
        BY <4>1, <4>2
    <3>3. QED
      BY <1>3, <3>1, <3>2 DEF Spots
  <2>2. ASSUME NEW r \in Spots(chat)
        PROVE  r \in Spots(new)
    <3>1. PICK m, t : m \in 1 .. n + 1 /\ t \in DOMAIN Told(chat[m]) /\ r = <<m, t>>
      BY <1>4
    <3>2. t \in DOMAIN Told(new[m])
      <4>1. CASE m = n + 1
        BY <1>2, <1>3, <3>1, <4>1
      <4>2. CASE m # n + 1
        <5>1. m \in 1 .. n
          BY <3>1, <4>2
        <5>2. QED
          BY <1>3, <3>1, <5>1
      <4>3. QED
        BY <4>1, <4>2
    <3>3. QED
      BY <1>3, <3>1, <3>2 DEF Spots
  <2>3. spot \in Spots(new)
    <3>1. n + 1 \in DOMAIN new /\ k + 1 \in DOMAIN Told(new[n + 1])
      BY <1>2, <1>3
    <3>2. QED
      BY <3>1 DEF Spots
  <2> HIDE DEF spot
  <2>4. QED
    BY <2>1, <2>2, <2>3
<1>6. AddsSpots(new, chat, {spot})
  <2>1. ASSUME NEW r \in Spots(chat)
        PROVE  ToldAt(new, r) = ToldAt(chat, r) /\ Earlier(r, spot)
    <3>1. PICK m, t : m \in 1 .. n + 1 /\ t \in DOMAIN Told(chat[m]) /\ r = <<m, t>>
      BY <1>4
    <3>2. CASE m = n + 1
      <4>1. t \in 1 .. k
        BY <1>2, <1>3, <3>1, <3>2
      <4>2. Told(new[m])[t] = Told(chat[m])[t] /\ t < k + 1
        BY <1>2, <1>3, <3>2, <4>1
      <4>3. QED
        BY <3>1, <3>2, <4>2 DEF ToldAt, Earlier
    <3>3. CASE m # n + 1
      <4>1. m \in 1 .. n /\ m < n + 1
        BY <3>1, <3>3
      <4>2. new[m] = chat[m]
        BY <1>3, <4>1
      <4>3. QED
        BY <3>1, <4>1, <4>2 DEF ToldAt, Earlier
    <3>4. QED
      BY <3>2, <3>3
  <2> HIDE DEF spot
  <2>2. QED
    BY <1>5, <2>1 DEF AddsSpots
<1> DEFINE at == [s \in {spot} |-> p]
<1>7. SpotsTell(new, {spot}, history, {p}, at)
  <2>1. ToldAt(new, spot) = history[p]
    BY <1>2, <1>3 DEF ToldAt
  <2> HIDE DEF spot
  <2>2. QED
    BY <2>1 DEF SpotsTell
<1> HIDE DEF spot, at
<1>8. {p} \in SUBSET Nat /\ K \cap {p} = {} /\ ComeNext(history, K, {p})
  BY DEF ComeNext
<1>9. Tells(chat, history, K)
  BY DEF chat
<1>10. Tells(new, history, K \cup {p})
  BY <1>6, <1>7, <1>8, <1>9, TellsMore
<1>11. QED
  BY <1>10 DEF new

\* A last message that tells the same may take the place of another.
LEMMA LastTellsTheSame ==
  ASSUME NEW front \in Seq(ChatMessages), NEW old \in ChatMessages, NEW message \in ChatMessages,
         NEW history, NEW K, Tells(Append(front, old), history, K), Told(message) = Told(old)
  PROVE  Tells(Append(front, message), history, K)
<1> DEFINE chat == Append(front, old)
           new == Append(front, message)
<1>1. PICK n \in Nat : n = Len(front) /\ DOMAIN front = 1 .. n
  OBVIOUS
<1>2. /\ DOMAIN chat = 1 .. n + 1 /\ DOMAIN new = 1 .. n + 1
      /\ \A m \in 1 .. n + 1 : Told(chat[m]) = Told(new[m])
  <2>1. /\ DOMAIN chat = 1 .. n + 1 /\ DOMAIN new = 1 .. n + 1
        /\ chat[n + 1] = old /\ new[n + 1] = message
        /\ \A m \in 1 .. n : chat[m] = new[m]
    BY <1>1
  <2> HIDE DEF chat, new
  <2>2. QED
    BY <2>1
<1> HIDE DEF chat, new
<1>3. Spots(new) = Spots(chat)
  BY <1>2 DEF Spots
<1>4. \A r \in Spots(chat) : ToldAt(new, r) = ToldAt(chat, r)
  <2>1. TAKE r \in Spots(chat)
  <2>2. PICK m, t : m \in 1 .. n + 1 /\ t \in DOMAIN Told(chat[m]) /\ r = <<m, t>>
    BY <1>2 DEF Spots
  <2>3. QED
    BY <1>2, <2>2 DEF ToldAt
<1>5. Tells(chat, history, K)
  BY DEF chat
<1>6. Tells(new, history, K)
  BY <1>3, <1>4, <1>5, SMTT(30) DEF Tells
<1>7. QED
  BY <1>6 DEF new

-----------------------------------------------------------------------------
(* How a history grows.                                                    *)

\* later is history with these pieces at its end.
GrowsBy(later, history, added) ==
    \E n, k \in Nat :
        /\ DOMAIN history = 1 .. n /\ DOMAIN added = 1 .. k /\ DOMAIN later = 1 .. n + k
        /\ n = Len(history) /\ k = Len(added) /\ n + k = Len(later)
        /\ \A p \in 1 .. n : later[p] = history[p]
        /\ \A i \in 1 .. k : later[n + i] = added[i]

\* A history grows by what is joined to it.
LEMMA ConcatGrows ==
  ASSUME NEW E, NEW history \in Seq(E), NEW added \in Seq(E)
  PROVE  GrowsBy(history \o added, history, added)
<1>1. PICK n \in Nat, k \in Nat : n = Len(history) /\ k = Len(added)
  OBVIOUS
<1>2. /\ DOMAIN history = 1 .. n /\ DOMAIN added = 1 .. k
      /\ DOMAIN (history \o added) = 1 .. n + k /\ Len(history \o added) = n + k
      /\ \A p \in 1 .. n : (history \o added)[p] = history[p]
      /\ \A i \in 1 .. k : (history \o added)[n + i] = added[i]
  BY <1>1
<1>3. QED
  BY <1>1, <1>2 DEF GrowsBy

\* A history grows by a piece.
LEMMA AppendGrows ==
  ASSUME NEW E, NEW history \in Seq(E), NEW piece \in E
  PROVE  GrowsBy(Append(history, piece), history, <<piece>>)
<1>1. <<piece>> \in Seq(E) /\ Append(history, piece) = history \o <<piece>>
  BY AppendIsConcat
<1>2. QED
  BY <1>1, ConcatGrows

\* The numbers of the pieces; the calls that are open, and those that are bad.
IsHistory(history, open, bad) ==
    /\ \A p \in DOMAIN history :
          /\ history[p].kind # "result" => history[p].id = p
          /\ history[p].kind = "result" =>
                /\ history[p].id \in 1 .. p - 1 /\ history[p].id \notin open
                /\ history[history[p].id].kind \in {"call", "badCall"}
    /\ Distinct(history, DOMAIN history)
    /\ open \subseteq {p \in DOMAIN history : history[p].kind \in {"call", "badCall"}}
    /\ bad = {p \in DOMAIN history : history[p].kind = "badCall"}

\* Pieces that a history may grow by: numbered by their places, and results of open calls.
Fitting(history, open, added) ==
    /\ \A i \in DOMAIN added :
          /\ added[i].kind # "result" => added[i].id = Len(history) + i
          /\ added[i].kind = "result" => added[i].id \in open
    /\ \A i, j \in DOMAIN added : added[i] = added[j] => i = j

\* The calls that are open when they are added.
OpenAfter(history, open, added, openThen) ==
    \A p \in openThen :
        \/ p \in open /\ \A i \in DOMAIN added : added[i].kind = "result" => added[i].id # p
        \/ \E i \in DOMAIN added : p = Len(history) + i /\ added[i].kind \in {"call", "badCall"}

BadAfter(history, bad, added) ==
    bad \cup {p \in Nat : \E i \in DOMAIN added :
                            p = Len(history) + i /\ added[i].kind = "badCall"}

\* Pieces that fit a history make a history of it.
LEMMA HistoryGrows ==
  ASSUME NEW later, NEW history, NEW added, GrowsBy(later, history, added),
         NEW open, NEW bad, IsHistory(history, open, bad), Fitting(history, open, added),
         NEW openThen, OpenAfter(history, open, added, openThen)
  PROVE  IsHistory(later, openThen, BadAfter(history, bad, added))
<1>1. PICK n \in Nat, k \in Nat :
        /\ DOMAIN history = 1 .. n /\ DOMAIN added = 1 .. k /\ DOMAIN later = 1 .. n + k
        /\ n = Len(history) /\ k = Len(added) /\ n + k = Len(later)
        /\ \A p \in 1 .. n : later[p] = history[p]
        /\ \A i \in 1 .. k : later[n + i] = added[i]
  BY DEF GrowsBy
<1>2. /\ \A p \in 1 .. n :
          /\ history[p].kind # "result" => history[p].id = p
          /\ history[p].kind = "result" =>
                /\ history[p].id \in 1 .. p - 1 /\ history[p].id \notin open
                /\ history[history[p].id].kind \in {"call", "badCall"}
      /\ \A p, q \in 1 .. n : history[p] = history[q] => p = q
      /\ \A p \in open : p \in 1 .. n /\ history[p].kind \in {"call", "badCall"}
      /\ bad = {p \in 1 .. n : history[p].kind = "badCall"}
  BY <1>1 DEF IsHistory, Distinct
<1>3. /\ \A i \in 1 .. k :
          /\ added[i].kind # "result" => added[i].id = n + i
          /\ added[i].kind = "result" => added[i].id \in open
      /\ \A i, j \in 1 .. k : added[i] = added[j] => i = j
  BY <1>1 DEF Fitting
<1>4. \A p \in openThen :
        \/ p \in open /\ \A i \in 1 .. k : added[i].kind = "result" => added[i].id # p
        \/ \E i \in 1 .. k : p = n + i /\ added[i].kind \in {"call", "badCall"}
  BY <1>1 DEF OpenAfter
<1>5. \A p \in 1 .. n + k : p \in 1 .. n \/ (p - n \in 1 .. k /\ p = n + (p - n))
  OBVIOUS
<1>6. ASSUME NEW p \in 1 .. n + k
      PROVE  /\ later[p].kind # "result" => later[p].id = p
             /\ later[p].kind = "result" =>
                /\ later[p].id \in 1 .. p - 1 /\ later[p].id \notin openThen
                /\ later[later[p].id].kind \in {"call", "badCall"}
  <2>1. CASE p \in 1 .. n
    <3>1. later[p] = history[p]
      BY <1>1, <2>1
    <3>2. CASE history[p].kind = "result"
      <4>1. /\ history[p].id \in 1 .. p - 1 /\ history[p].id \notin open
            /\ history[history[p].id].kind \in {"call", "badCall"}
        BY <1>2, <2>1, <3>2
      <4>2. history[p].id \in 1 .. n
        BY <2>1, <4>1
      <4>3. history[p].id \notin openThen
        BY <1>4, <4>1, <4>2
      <4>4. QED
        BY <1>1, <3>1, <3>2, <4>1, <4>2, <4>3
    <3>3. QED
      BY <1>2, <2>1, <3>1, <3>2
  <2>2. CASE p - n \in 1 .. k
    <3>1. later[p] = added[p - n] /\ n + (p - n) = p
      BY <1>1, <2>2
    <3>2. CASE added[p - n].kind = "result"
      <4>1. added[p - n].id \in open
        BY <1>3, <2>2, <3>2
      <4>2. added[p - n].id \in 1 .. n /\ history[added[p - n].id].kind \in {"call", "badCall"}
        BY <1>2, <4>1
      <4>3. added[p - n].id \notin openThen
        BY <1>4, <2>2, <3>2, <4>2
      <4>4. QED
        BY <1>1, <2>2, <3>1, <3>2, <4>2, <4>3
    <3>3. CASE added[p - n].kind # "result"
      BY <1>3, <2>2, <3>1, <3>3
    <3>4. QED
      BY <3>2, <3>3
  <2>3. QED
    BY <1>5, <2>1, <2>2
<1>7. ASSUME NEW p \in 1 .. n + k, NEW q \in 1 .. n + k, later[p] = later[q]
      PROVE  p = q
  <2>1. ASSUME NEW r \in 1 .. n, NEW i \in 1 .. k
        PROVE  later[r] # later[n + i]
    <3>1. SUFFICES ASSUME history[r] = added[i]
                   PROVE  FALSE
      BY <1>1
    <3>2. CASE added[i].kind = "result"
      <4>1. added[i].id \in open /\ history[r].kind = "result"
        BY <1>3, <3>1, <3>2
      <4>2. history[r].id \notin open
        BY <1>2, <4>1
      <4>3. QED
        BY <3>1, <4>1, <4>2
    <3>3. CASE added[i].kind # "result"
      <4>1. added[i].id = n + i /\ history[r].id = r
        BY <1>2, <1>3, <3>1, <3>3
      <4>2. QED
        BY <3>1, <4>1
    <3>4. QED
      BY <3>2, <3>3
  <2>2. CASE p \in 1 .. n /\ q \in 1 .. n
    BY <1>1, <1>2, <1>7, <2>2
  <2>3. CASE p \in 1 .. n /\ q - n \in 1 .. k
    <3>1. later[p] # later[n + (q - n)]
      BY <2>1, <2>3
    <3>2. QED
      BY <1>7, <3>1
  <2>4. CASE p - n \in 1 .. k /\ q \in 1 .. n
    <3>1. later[q] # later[n + (p - n)]
      BY <2>1, <2>4
    <3>2. QED
      BY <1>7, <3>1
  <2>5. CASE p - n \in 1 .. k /\ q - n \in 1 .. k
    <3>1. later[n + (p - n)] = added[p - n] /\ later[n + (q - n)] = added[q - n]
      BY <1>1, <2>5
    <3>2. added[p - n] = added[q - n]
      BY <1>7, <3>1
    <3>3. p - n = q - n
      BY <1>3, <2>5, <3>2
    <3>4. QED
      BY <3>3
  <2>6. QED
    BY <1>5, <2>2, <2>3, <2>4, <2>5
<1>8. ASSUME NEW p \in openThen
      PROVE  p \in 1 .. n + k /\ later[p].kind \in {"call", "badCall"}
  <2>1. CASE p \in open
    BY <1>1, <1>2, <2>1
  <2>2. CASE p \notin open
    <3>1. PICK i \in 1 .. k : p = n + i /\ added[i].kind \in {"call", "badCall"}
      BY <1>4, <2>2
    <3>2. QED
      BY <1>1, <3>1
  <2>3. QED
    BY <2>1, <2>2
<1>9. BadAfter(history, bad, added) = {p \in 1 .. n + k : later[p].kind = "badCall"}
  <2>1. ASSUME NEW p \in 1 .. n + k, later[p].kind = "badCall"
        PROVE  p \in BadAfter(history, bad, added)
    <3>1. CASE p \in 1 .. n
      BY <1>1, <1>2, <2>1, <3>1 DEF BadAfter
    <3>2. CASE p - n \in 1 .. k
      <4>1. later[p] = added[p - n] /\ p = n + (p - n) /\ p \in Nat
        BY <1>1, <3>2
      <4>2. QED
        BY <1>1, <2>1, <3>2, <4>1 DEF BadAfter
    <3>3. QED
      BY <1>5, <3>1, <3>2
  <2>2. ASSUME NEW p \in BadAfter(history, bad, added)
        PROVE  p \in 1 .. n + k /\ later[p].kind = "badCall"
    <3>1. CASE p \in bad
      BY <1>1, <1>2, <3>1
    <3>2. CASE p \notin bad
      <4>1. PICK i \in 1 .. k : p = n + i /\ added[i].kind = "badCall"
        BY <1>1, <3>2 DEF BadAfter
      <4>2. QED
        BY <1>1, <4>1
    <3>3. QED
      BY <3>1, <3>2
  <2>3. QED
    BY <2>1, <2>2
<1>10. QED
  BY <1>1, <1>6, <1>7, <1>8, <1>9 DEF IsHistory, Distinct

\* What was said of a history holds of a later one.
LEMMA SameTurnLater ==
  ASSUME NEW later, NEW history, NEW added, GrowsBy(later, history, added),
         NEW p \in DOMAIN history, NEW q \in DOMAIN history
  PROVE  SameTurn(later, p, q) <=> SameTurn(history, p, q)
<1>1. PICK n \in Nat : DOMAIN history = 1 .. n /\ \A r \in 1 .. n : later[r] = history[r]
  BY DEF GrowsBy
<1>2. \A between \in (p + 1 .. q - 1) \cup (q + 1 .. p - 1) : between \in 1 .. n
  BY <1>1
<1>3. \A between \in (p + 1 .. q - 1) \cup (q + 1 .. p - 1) : later[between] = history[between]
  BY <1>1, <1>2
<1>4. QED
  BY <1>3 DEF SameTurn

\* Whether a call has its result before a piece is the same later.
LEMMA AnsweredLater ==
  ASSUME NEW later, NEW history, NEW added, GrowsBy(later, history, added),
         NEW id, NEW q \in DOMAIN history
  PROVE  AnsweredBefore(later, id, q) <=> AnsweredBefore(history, id, q)
<1>1. PICK n \in Nat : DOMAIN history = 1 .. n /\ \A r \in 1 .. n : later[r] = history[r]
  BY DEF GrowsBy
<1>2. \A r \in 1 .. q - 1 : later[r] = history[r]
  BY <1>1
<1>3. QED
  BY <1>2 DEF AnsweredBefore

\* Whether a note is one in the meantime is the same later.
LEMMA MeantimeLater ==
  ASSUME NEW later, NEW history, NEW added, GrowsBy(later, history, added),
         NEW p \in DOMAIN history, NEW q \in DOMAIN history
  PROVE  MeantimeNote(later, p, q) <=> MeantimeNote(history, p, q)
<1>1. PICK n \in Nat : DOMAIN history = 1 .. n /\ \A r \in 1 .. n : later[r] = history[r]
  BY DEF GrowsBy
<1>2. \A r \in (p + 1 .. q - 1) \cup (1 .. q - 1) :
        r \in DOMAIN history /\ later[r] = history[r]
  BY <1>1
<1>3. \A r \in (p + 1 .. q - 1) \cup (1 .. q - 1) :
        SameTurn(later, p, r) <=> SameTurn(history, p, r)
  BY <1>2, SameTurnLater
<1>4. \A id : AnsweredBefore(later, id, q) <=> AnsweredBefore(history, id, q)
  BY AnsweredLater
<1>5. later[q] = history[q]
  BY <1>1
<1>6. QED
  BY <1>2, <1>3, <1>4, <1>5 DEF MeantimeNote

\* Which of two pieces may follow is the same later.
LEMMA MayFollowLater ==
  ASSUME NEW later, NEW history, NEW added, GrowsBy(later, history, added),
         NEW open, NEW bad, IsHistory(history, open, bad),
         NEW p \in DOMAIN history, NEW q \in DOMAIN history
  PROVE  MayFollow(later, p, q) <=> MayFollow(history, p, q)
<1>1. later[p] = history[p] /\ later[q] = history[q]
  BY DEF GrowsBy
<1>2. SameTurn(later, p, q) <=> SameTurn(history, p, q)
  BY SameTurnLater
<1>3. CASE history[q].kind = "result"
  <2>1. history[q].id \in DOMAIN history
    <3>1. PICK n \in Nat : DOMAIN history = 1 .. n
      BY DEF GrowsBy
    <3>2. history[q].id \in 1 .. q - 1
      BY <1>3 DEF IsHistory
    <3>3. QED
      BY <3>1, <3>2
  <2>2. SameTurn(later, p, history[q].id) <=> SameTurn(history, p, history[q].id)
    BY <2>1, SameTurnLater
  <2>3. QED
    BY <1>1, <1>2, <1>3, <2>2 DEF MayFollow, MeantimeNote
<1>4. CASE history[q].kind # "result"
  BY <1>1, <1>2, <1>4, MeantimeLater DEF MayFollow
<1>5. QED
  BY <1>3, <1>4

\* What a chat tells of a history, it tells of a later one.
LEMMA TellsLater ==
  ASSUME NEW later, NEW history, NEW added, GrowsBy(later, history, added),
         NEW open, NEW bad, IsHistory(history, open, bad),
         NEW chat, NEW K, K \subseteq DOMAIN history, Tells(chat, history, K)
  PROVE  Tells(chat, later, K)
<1>1. \A p \in K : later[p] = history[p]
  BY DEF GrowsBy
<1>2. \A p, q \in K : MayFollow(later, p, q) <=> MayFollow(history, p, q)
  BY MayFollowLater
<1>3. QED
  BY <1>1, <1>2 DEF Tells

\* Pieces stay where they are in a history.
LEMMA EmbedsLater ==
  ASSUME NEW later, NEW history, NEW added, GrowsBy(later, history, added),
         NEW out, NEW D, D \subseteq DOMAIN history, Embeds(out, history, D)
  PROVE  Embeds(out, later, D)
<1>1. \A p \in D : later[p] = history[p]
  BY DEF GrowsBy
<1>2. PICK at : Through(at, out, history, D)
  BY DEF Embeds
<1>3. Through(at, out, later, D)
  BY <1>1, <1>2 DEF Through
<1>4. QED
  BY <1>3 DEF Embeds

\* The places that must be told, too.
ToldOf(history, added) ==
    {p \in Nat : \E i \in DOMAIN added :
        /\ p = Len(history) + i
        /\ \/ added[i].kind \in {"prompt", "note", "text", "call"}
           \/ added[i].kind = "result" /\ history[added[i].id].kind = "call"}

\* What must be told of a later history: what is added, too.
LEMMA MustBeToldLater ==
  ASSUME NEW later, NEW history, NEW added, GrowsBy(later, history, added),
         NEW open, NEW bad, IsHistory(history, open, bad), Fitting(history, open, added)
  PROVE  /\ MustBeTold(later) = MustBeTold(history) \cup ToldOf(history, added)
         /\ MustBeTold(history) \subseteq DOMAIN history
         /\ MustBeTold(later) \subseteq DOMAIN later
         /\ \A p \in DOMAIN history, q \in ToldOf(history, added) :
               p \in Nat /\ q \in Nat /\ p < q /\ q \in DOMAIN later
<1>1. PICK n \in Nat, k \in Nat :
        /\ DOMAIN history = 1 .. n /\ DOMAIN added = 1 .. k /\ DOMAIN later = 1 .. n + k
        /\ n = Len(history)
        /\ \A p \in 1 .. n : later[p] = history[p]
        /\ \A i \in 1 .. k : later[n + i] = added[i]
  BY DEF GrowsBy
<1>2. \A p \in 1 .. n : history[p].kind = "result" =>
         history[p].id \in 1 .. n /\ later[history[p].id] = history[history[p].id]
  BY <1>1 DEF IsHistory
<1>3. \A i \in 1 .. k : added[i].kind = "result" =>
         added[i].id \in 1 .. n /\ later[added[i].id] = history[added[i].id]
  BY <1>1 DEF IsHistory, Fitting
<1>4. ASSUME NEW p \in MustBeTold(later)
      PROVE  p \in MustBeTold(history) \cup ToldOf(history, added)
  <2>1. /\ p \in 1 .. n + k
        /\ \/ later[p].kind \in {"prompt", "note", "text", "call"}
           \/ later[p].kind = "result" /\ later[later[p].id].kind = "call"
    BY <1>1 DEF MustBeTold
  <2>2. CASE p \in 1 .. n
    BY <1>1, <1>2, <2>1, <2>2 DEF MustBeTold
  <2>3. CASE p \notin 1 .. n
    <3>1. p - n \in 1 .. k /\ p = n + (p - n) /\ p \in Nat
      BY <2>1, <2>3
    <3>2. later[p] = added[p - n]
      BY <1>1, <3>1
    <3>3. \/ added[p - n].kind \in {"prompt", "note", "text", "call"}
          \/ added[p - n].kind = "result" /\ history[added[p - n].id].kind = "call"
      BY <1>3, <2>1, <3>1, <3>2
    <3>4. p \in ToldOf(history, added)
      BY <1>1, <3>1, <3>3 DEF ToldOf
    <3>5. QED
      BY <3>4
  <2>4. QED
    BY <2>2, <2>3
<1>5. ASSUME NEW p \in MustBeTold(history)
      PROVE  p \in MustBeTold(later)
  <2>1. /\ p \in 1 .. n
        /\ \/ history[p].kind \in {"prompt", "note", "text", "call"}
           \/ history[p].kind = "result" /\ history[history[p].id].kind = "call"
    BY <1>1 DEF MustBeTold
  <2>2. p \in 1 .. n + k /\ later[p] = history[p]
    BY <1>1, <2>1
  <2>3. QED
    BY <1>1, <1>2, <2>1, <2>2 DEF MustBeTold
<1>6. ASSUME NEW p \in ToldOf(history, added)
      PROVE  p \in MustBeTold(later) /\ p \in n + 1 .. n + k
  <2>1. PICK i \in 1 .. k :
           /\ p = n + i
           /\ \/ added[i].kind \in {"prompt", "note", "text", "call"}
              \/ added[i].kind = "result" /\ history[added[i].id].kind = "call"
    BY <1>1 DEF ToldOf
  <2>2. p \in 1 .. n + k /\ later[p] = added[i] /\ p \in n + 1 .. n + k
    BY <1>1, <2>1
  <2>3. QED
    BY <1>1, <1>3, <2>1, <2>2 DEF MustBeTold
<1>7. MustBeTold(history) \subseteq 1 .. n /\ MustBeTold(later) \subseteq 1 .. n + k
  BY <1>1 DEF MustBeTold
<1>8. MustBeTold(later) = MustBeTold(history) \cup ToldOf(history, added)
  BY <1>4, <1>5, <1>6
<1>9. \A p \in 1 .. n, q \in n + 1 .. n + k : p \in Nat /\ q \in Nat /\ p < q /\ q \in 1 .. n + k
  OBVIOUS
<1>10. QED
  BY <1>1, <1>6, <1>7, <1>8, <1>9

-----------------------------------------------------------------------------
(* What the items of a Responses client make of the request.               *)

HeldReasoning == [texts : Seq(Nat), opaque : Seq(Nat)]

\* Opaque reasoning is redacted blocks.
LEMMA OpaqueIs ==
  ASSUME NEW held \in HeldReasoning
  PROVE  /\ Opaque(held) \in Seq(Blocks)
         /\ \A b \in DOMAIN Opaque(held) : Opaque(held)[b].kind = "redacted"
         /\ held.opaque = <<>> => Opaque(held) = <<>>
         /\ held.texts \in Seq(Nat)
<1>1. held.opaque \in Seq(Nat) /\ held.texts \in Seq(Nat)
  BY DEF HeldReasoning
<1>2. PICK n \in Nat : DOMAIN held.opaque = 1 .. n
  BY <1>1
<1>3. \A i \in 1 .. n : Piece("redacted", held.opaque[i]) \in Blocks
  BY <1>1, <1>2 DEF Piece, Blocks
<1> DEFINE out == [i \in 1 .. n |-> Piece("redacted", held.opaque[i])]
<1>4. Opaque(held) = out
  BY <1>2 DEF Opaque
<1>5. out \in Seq(Blocks)
  BY <1>3
<1>6. \A b \in DOMAIN out : out[b].kind = "redacted"
  BY DEF Piece
<1>7. held.opaque = <<>> => out = <<>>
  BY <1>1, <1>2
<1>8. QED
  BY <1>1, <1>4, <1>5, <1>6, <1>7

\* Of blocks that are calls or opaque there is no text and no thinking.
CallBlocks(blocks) == \A b \in DOMAIN blocks : blocks[b].kind \in {"call", "redacted"}
NoneAmong(blocks) ==
    \A b, c \in DOMAIN blocks : blocks[b].kind # "call" /\ blocks[c].kind = "call" => b < c

\* No block is among the calls if each other one is before them.
LEMMA NoneAmongCalls ==
  ASSUME NEW blocks
  PROVE  AmongCalls(blocks) = {} <=> NoneAmong(blocks)
BY DEF AmongCalls, BeforeCalls, CallsOf, NoneAmong

\* A message with nothing among its calls defers nothing.
LEMMA NothingDeferred ==
  ASSUME NEW message \in Messages, NoneAmong(message.blocks)
  PROVE  DeferredOf(message) = NoneDeferred
<1>1. message.blocks \in Seq(Blocks)
  BY DEF Messages
<1>2. AmongCalls(message.blocks) = {}
  BY NoneAmongCalls
<1>3. /\ Picked(message.blocks, {}) \in Seq(Blocks)
      /\ Embeds(Picked(message.blocks, {}), message.blocks, {} \cap DOMAIN message.blocks)
  BY <1>1, PickedBlocks
<1>4. {} \cap DOMAIN message.blocks = {}
  OBVIOUS
<1>5. Picked(message.blocks, {}) = <<>>
  BY <1>3, <1>4, NothingEmbedded
<1>6. QED
  BY <1>2, <1>5 DEF DeferredOf

\* A message of calls and opaque reasoning says its calls only.
LEMMA CallMessageChat ==
  ASSUME NEW mode, NEW message \in Messages, CallBlocks(message.blocks)
  PROVE  LET said == CallChat(mode, message)
         IN  /\ said \in ChatMessages /\ said.role = "assistant" /\ said.answers = 0
             /\ said.calls = Ids(OfKind("call", message.blocks))
             /\ said.text = <<>>
             /\ said.reasoning = IF mode = "disabled" THEN <<>> ELSE message.reasoning
<1> DEFINE before == Picked(message.blocks, BeforeCalls(message.blocks))
<1>1. message.blocks \in Seq(Blocks) /\ before \in Seq(Blocks) /\ message.reasoning \in Seq(Nat)
  <2>1. message.blocks \in Seq(Blocks) /\ message.reasoning \in Seq(Nat)
    BY DEF Messages
  <2>2. QED
    BY <2>1, PickedBlocks
<1>2. \A b \in DOMAIN before : before[b].kind \in {"call", "redacted"}
  <2>1. Embeds(before, message.blocks, BeforeCalls(message.blocks) \cap DOMAIN message.blocks)
    BY <1>1, PickedBlocks
  <2>2. PICK at : Through(at, before, message.blocks,
                          BeforeCalls(message.blocks) \cap DOMAIN message.blocks)
    BY <2>1 DEF Embeds
  <2>3. QED
    BY <2>2 DEF Through, CallBlocks
<1> HIDE DEF before
<1>3. OfKind("text", before) = <<>> /\ OfKind("thinking", before) = <<>>
  BY <1>1, <1>2, NoneOfKind
<1>4. Ids(<<>>) = <<>>
  BY DEF Ids
<1> DEFINE said == CallChat(mode, message)
<1>5. /\ said \in ChatMessages /\ said.role = "assistant" /\ said.answers = 0
      /\ said.calls = Ids(OfKind("call", message.blocks))
      /\ said.text = OfKind("text", before)
      /\ said.reasoning = IF mode = "disabled" THEN <<>>
                          ELSE IF message.reasoning # <<>> THEN message.reasoning
                          ELSE Ids(OfKind("thinking", before))
  BY CallChatIs DEF before
<1>6. QED
  BY <1>3, <1>4, <1>5

\* Held reasoning is put before the blocks of a message.
LEMMA WithReasoningIs ==
  ASSUME NEW message \in Messages, NEW held \in HeldReasoning
  PROVE  LET with == WithReasoning(message, held)
         IN  /\ with \in Messages /\ with.role = message.role /\ with.plain = message.plain
             /\ with.blocks = Opaque(held) \o message.blocks
             /\ with.reasoning = message.reasoning \o held.texts
             /\ CallBlocks(message.blocks) => CallBlocks(with.blocks)
             /\ NoneAmong(message.blocks) => NoneAmong(with.blocks)
             /\ OfKind("call", with.blocks) = OfKind("call", message.blocks)
<1> DEFINE with == WithReasoning(message, held)
           front == Opaque(held)
           blocks == message.blocks
<1>1. /\ blocks \in Seq(Blocks) /\ message.reasoning \in Seq(Nat)
      /\ front \in Seq(Blocks) /\ held.texts \in Seq(Nat)
      /\ \A b \in DOMAIN front : front[b].kind = "redacted"
  BY OpaqueIs DEF Messages
<1>2. front \o blocks \in Seq(Blocks) /\ message.reasoning \o held.texts \in Seq(Nat)
  BY <1>1
<1>3. with = [message EXCEPT !.reasoning = message.reasoning \o held.texts, !.blocks = front \o blocks]
  BY DEF WithReasoning
<1>4. /\ with \in Messages /\ with.role = message.role /\ with.plain = message.plain
      /\ with.blocks = front \o blocks /\ with.reasoning = message.reasoning \o held.texts
  BY <1>2, <1>3 DEF Messages
<1>5. OfKind("call", front \o blocks) = OfKind("call", blocks)
  BY <1>1, OfKindBehind
<1>6. PICK m \in Nat, n \in Nat :
         /\ DOMAIN front = 1 .. m /\ DOMAIN blocks = 1 .. n
         /\ DOMAIN (front \o blocks) = 1 .. m + n
         /\ \A b \in 1 .. m : (front \o blocks)[b] = front[b]
         /\ \A b \in 1 .. m + n : b > m => (front \o blocks)[b] = blocks[b - m] /\ b - m \in 1 .. n
  <2> HIDE DEF front, blocks
  <2>1. PICK m \in Nat, n \in Nat : m = Len(front) /\ n = Len(blocks)
    BY <1>1
  <2>2. /\ DOMAIN front = 1 .. m /\ DOMAIN blocks = 1 .. n
        /\ DOMAIN (front \o blocks) = 1 .. m + n
        /\ \A b \in 1 .. m : (front \o blocks)[b] = front[b]
    BY <1>1, <2>1
  <2>3. \A b \in 1 .. m + n : b > m => (front \o blocks)[b] = blocks[b - m] /\ b - m \in 1 .. n
    BY <1>1, <2>1
  <2>4. QED
    BY <2>1, <2>2, <2>3
<1> DEFINE all == front \o blocks
<1>7. CallBlocks(blocks) => CallBlocks(all)
  <2>1. HAVE CallBlocks(blocks)
  <2>2. \A b \in 1 .. n : blocks[b].kind \in {"call", "redacted"}
    BY <1>6, <2>1 DEF CallBlocks
  <2> HIDE DEF all, front, blocks
  <2>3. ASSUME NEW b \in 1 .. m + n
        PROVE  all[b].kind \in {"call", "redacted"}
    <3>1. CASE b \in 1 .. m
      BY <1>1, <1>6, <3>1 DEF all
    <3>2. CASE b > m
      BY <1>6, <2>2, <3>2 DEF all
    <3>3. QED
      BY <3>1, <3>2
  <2>4. QED
    BY <1>6, <2>3 DEF CallBlocks, all
<1>8. NoneAmong(blocks) => NoneAmong(all)
  <2>1. HAVE NoneAmong(blocks)
  <2>2. \A b, c \in 1 .. n : blocks[b].kind # "call" /\ blocks[c].kind = "call" => b < c
    BY <1>6, <2>1 DEF NoneAmong
  <2> HIDE DEF all, front, blocks
  <2>3. ASSUME NEW b \in 1 .. m + n, NEW c \in 1 .. m + n,
               all[b].kind # "call", all[c].kind = "call"
        PROVE  b < c
    <3>1. c > m
      <4>1. CASE c \in 1 .. m
        BY <1>1, <1>6, <2>3, <4>1 DEF all
      <4>2. QED
        BY <4>1
    <3>2. CASE b > m
      <4>1. all[b] = blocks[b - m] /\ all[c] = blocks[c - m] /\ b - m \in 1 .. n /\ c - m \in 1 .. n
        BY <1>6, <3>1, <3>2 DEF all
      <4>2. b - m < c - m
        BY <2>2, <2>3, <4>1
      <4>3. QED
        BY <4>2
    <3>3. CASE b <= m
      BY <3>1, <3>3
    <3>4. QED
      BY <3>2, <3>3
  <2>4. QED
    BY <1>6, <2>3 DEF NoneAmong, all
<1>9. QED
  BY <1>4, <1>5, <1>7, <1>8

\* What was held is in the reasoning of what is said.
Keeps(mode, said, texts) == mode # "disabled" => ToSet(texts) \subseteq ToSet(said.reasoning)

\* A chat message that tells nothing.
Remark(said) ==
    said \in ChatMessages /\ Told(said) = <<>> /\ said.calls = <<>> /\ said.answers = 0

Extended(state, said) == [chat |-> Append(state.chat, said), pending |-> NoneDeferred]

\* The update of the chat alone, as a record.
LEMMA ChatChanged ==
  ASSUME NEW state \in States, NEW said
  PROVE  [state EXCEPT !.chat = Append(@, said)] =
            [chat |-> Append(state.chat, said), pending |-> state.pending]
<1>1. PICK c, p : state = [chat |-> c, pending |-> p]
  BY DEF States
<1>2. QED
  BY <1>1, SMTT(30)

\* Flushing says nothing but what is held.
LEMMA FlushedIs ==
  ASSUME NEW mode, NEW asked \in Seq(Messages), NEW held \in HeldReasoning,
         Conversion(mode, asked).pending = NoneDeferred
  PROVE  /\ Flushed(asked, held) \in Seq(Messages)
         /\ held = NoReasoning => Flushed(asked, held) = asked
         /\ held # NoReasoning =>
               /\ Flushed(asked, held) # asked
               /\ \E said : /\ Remark(said) /\ Keeps(mode, said, held.texts)
                            /\ Conversion(mode, Flushed(asked, held)) =
                                  Extended(Conversion(mode, asked), said)
<1> DEFINE state == Conversion(mode, asked)
           blocks == Opaque(held)
           message == RequestMessage("assistant", held.opaque = <<>>, blocks, held.texts)
           said == AssistantChat(mode, blocks, held.texts)
<1>1. /\ blocks \in Seq(Blocks) /\ held.texts \in Seq(Nat)
      /\ \A b \in DOMAIN blocks : blocks[b].kind = "redacted"
  BY OpaqueIs
<1>2. message \in Messages
  BY <1>1 DEF RequestMessage, Messages
<1>3. state \in States /\ Conversion(mode, Append(asked, message)) = Converted(mode, state, message)
  BY <1>2, ConversionIs
<1>4. OfKind("text", blocks) = <<>> /\ OfKind("thinking", blocks) = <<>>
  BY <1>1, NoneOfKind
<1>5. /\ said \in ChatMessages /\ said.role = "assistant" /\ said.calls = <<>>
      /\ said.answers = 0 /\ said.text = <<>>
      /\ said.reasoning = IF mode = "disabled" THEN <<>>
                          ELSE IF held.texts # <<>> THEN held.texts ELSE Ids(<<>>)
  BY <1>1, <1>4, AssistantChatIs
<1>6. CallsOf(blocks) = {}
  BY <1>1 DEF CallsOf
<1>7. state.pending.blocks = <<>>
  BY DEF NoneDeferred
<1> HIDE DEF state, blocks, said
<1>8. Joined(mode, state) = state
  BY <1>3, <1>7, JoinedIs
<1>9. /\ message.role = "assistant" /\ message.blocks = blocks /\ message.reasoning = held.texts
  BY DEF RequestMessage
<1>10. Converted(mode, state, message) = [state EXCEPT !.chat = Append(@, said)]
  <2> HIDE DEF message
  <2>1. message.role # "user"
    BY <1>9
  <2>2. QED
    BY <1>6, <1>8, <1>9, <2>1 DEF Converted, said
<1>11. [state EXCEPT !.chat = Append(@, said)] = Extended(state, said)
  <2>1. state.pending = NoneDeferred
    BY DEF state
  <2>2. [state EXCEPT !.chat = Append(@, said)] =
           [chat |-> Append(state.chat, said), pending |-> state.pending]
    BY <1>3, ChatChanged
  <2>3. QED
    BY <2>1, <2>2 DEF Extended
<1>12. Remark(said)
  <2>1. said.role # "tool"
    BY <1>5
  <2>2. QED
    BY <1>5, <2>1, ToldIs DEF Remark
<1>13. Keeps(mode, said, held.texts)
  BY <1>5 DEF Keeps, ToSet, Ids
<1>14. Append(asked, message) \in Seq(Messages) /\ Append(asked, message) # asked
  <2> HIDE DEF message
  <2>1. Len(Append(asked, message)) = Len(asked) + 1 /\ Len(asked) \in Nat
    OBVIOUS
  <2>2. QED
    BY <1>2, <2>1
<1>15. CASE held = NoReasoning
  BY <1>15 DEF Flushed
<1>16. CASE held # NoReasoning
  <2>1. Flushed(asked, held) = Append(asked, message)
    BY <1>16 DEF Flushed, blocks
  <2>2. QED
    BY <1>3, <1>10, <1>11, <1>12, <1>13, <1>14, <1>16, <2>1 DEF state
<1>17. QED
  BY <1>15, <1>16

\* Nothing is deferred in a state like this.
Undeferred(state) == state \in States /\ state.pending = NoneDeferred

\* These messages become this state, with nothing deferred.
Converts(mode, asked, state) ==
    asked \in Seq(Messages) /\ Conversion(mode, asked) = state /\ Undeferred(state)

\* With nothing deferred, a message is added at the end.
LEMMA UndeferredIs ==
  ASSUME NEW mode, NEW state, Undeferred(state)
  PROVE  /\ Joined(mode, state) = state
         /\ \A said \in ChatMessages :
               /\ [state EXCEPT !.chat = Append(@, said)] = Extended(state, said)
               /\ Undeferred(Extended(state, said))
<1>1. state \in States /\ state.pending.blocks = <<>> /\ state.chat \in Seq(ChatMessages)
  BY DEF Undeferred, NoneDeferred, States
<1>2. Joined(mode, state) = state
  BY <1>1, JoinedIs
<1>3. ASSUME NEW said \in ChatMessages
      PROVE  /\ [state EXCEPT !.chat = Append(@, said)] = Extended(state, said)
             /\ Undeferred(Extended(state, said))
  <2>1. Append(state.chat, said) \in Seq(ChatMessages)
    BY <1>1
  <2>2. NoneDeferred \in [awaited : SUBSET Nat, blocks : Seq(Blocks), reasoning : Seq(Nat)]
    BY DEF NoneDeferred
  <2>3. [state EXCEPT !.chat = Append(@, said)] =
           [chat |-> Append(state.chat, said), pending |-> state.pending]
    BY <1>1, ChatChanged
  <2>4. QED
    BY <2>1, <2>2, <2>3 DEF Undeferred, Extended, States
<1>4. QED
  BY <1>2, <1>3

\* A user's message is one of the types.
LEMMA UserMessageIs ==
  ASSUME NEW plain \in BOOLEAN, NEW blocks \in Seq(Blocks)
  PROVE  LET message == RequestMessage("user", plain, blocks, <<>>)
         IN  /\ message \in Messages /\ message.role = "user" /\ message.plain = plain
             /\ message.blocks = blocks
BY DEF RequestMessage, Messages

\* An assistant's message is one of the types.
LEMMA AssistantMessageIs ==
  ASSUME NEW plain \in BOOLEAN, NEW blocks \in Seq(Blocks), NEW reasoning \in Seq(Nat)
  PROVE  LET message == RequestMessage("assistant", plain, blocks, reasoning)
         IN  /\ message \in Messages /\ message.role = "assistant" /\ message.plain = plain
             /\ message.blocks = blocks /\ message.reasoning = reasoning
BY DEF RequestMessage, Messages

\* One block of a user's list.
LEMMA OneUserBlock ==
  ASSUME NEW mode, NEW state \in States, NEW block \in Blocks
  PROVE  UserBlocks(mode, state, <<block>>) = UserBlock(mode, state, block)
<1>1. <<>> \in Seq(Blocks) /\ Append(<<>>, block) = <<block>>
  OBVIOUS
<1>2. /\ UserBlocks(mode, state, <<>>) = state
      /\ UserBlocks(mode, state, Append(<<>>, block)) =
            UserBlock(mode, UserBlocks(mode, state, <<>>), block)
  BY <1>1, UserBlocksIs
<1>3. QED
  BY <1>1, <1>2

\* A prompt becomes a user's chat message.
LEMMA PromptConverts ==
  ASSUME NEW mode, NEW asked, NEW state, Converts(mode, asked, state),
         NEW prompt \in Blocks, prompt.kind = "prompt", NEW plain \in BOOLEAN
  PROVE  /\ Converts(mode, Append(asked, RequestMessage("user", plain, <<prompt>>, <<>>)),
                     Extended(state, UserChat(<<prompt>>)))
         /\ UserChat(<<prompt>>) \in ChatMessages
<1>0. asked \in Seq(Messages) /\ state = Conversion(mode, asked) /\ Undeferred(state)
  BY DEF Converts
<1> DEFINE message == RequestMessage("user", plain, <<prompt>>, <<>>)
<1>1. <<prompt>> \in Seq(Blocks)
  OBVIOUS
<1>2. /\ message \in Messages /\ message.role = "user" /\ message.plain = plain
      /\ message.blocks = <<prompt>>
  BY <1>1, UserMessageIs
<1> HIDE DEF message
<1>3. Conversion(mode, Append(asked, message)) = Converted(mode, state, message)
  BY <1>0, <1>2, ConversionIs
<1>4. UserChat(<<prompt>>) \in ChatMessages /\ state \in States
  BY <1>0, UserBlockIs DEF Undeferred
<1>5. /\ Joined(mode, state) = state
      /\ [state EXCEPT !.chat = Append(@, UserChat(<<prompt>>))] = Extended(state, UserChat(<<prompt>>))
      /\ Undeferred(Extended(state, UserChat(<<prompt>>)))
  BY <1>0, <1>4, UndeferredIs
<1>6. Converted(mode, state, message) = Extended(state, UserChat(<<prompt>>))
  <2>1. CASE plain
    BY <1>2, <1>5, <2>1 DEF Converted
  <2>2. CASE ~ plain
    <3>1. UserBlocks(mode, state, <<prompt>>) = UserBlock(mode, state, prompt)
      BY <1>4, OneUserBlock
    <3>2. UserBlock(mode, state, prompt) = [state EXCEPT !.chat = Append(@, UserChat(<<prompt>>))]
      BY DEF UserBlock
    <3>3. QED
      BY <1>2, <1>5, <2>2, <3>1, <3>2 DEF Converted
  <2>3. QED
    BY <2>1, <2>2
<1>7. Append(asked, message) \in Seq(Messages)
  BY <1>0, <1>2
<1>8. QED
  BY <1>3, <1>4, <1>5, <1>6, <1>7 DEF message, Converts

\* A result, when nothing is deferred.
LEMMA ResultChatIs ==
  ASSUME NEW mode, NEW state, Undeferred(state), NEW id \in Nat
  PROVE  /\ ResultChat(mode, state, id) = Extended(state, ToolChat(id))
         /\ ToolChat(id) \in ChatMessages
<1>1. Piece("result", id) \in Blocks /\ Piece("result", id).id = id
  BY DEF Piece, Blocks
<1>2. ToolChat(id) \in ChatMessages
  BY <1>1, UserBlockIs DEF Undeferred
<1>3. [state.pending EXCEPT !.awaited = @ \ {id}] = NoneDeferred
  <2>1. [NoneDeferred EXCEPT !.awaited = @ \ {id}] = NoneDeferred
    <3>1. {} \ {id} = {}
      OBVIOUS
    <3>2. [NoneDeferred EXCEPT !.awaited = {}] = NoneDeferred
      <4>1. PICK b, r : NoneDeferred = [awaited |-> {}, blocks |-> b, reasoning |-> r]
        BY DEF NoneDeferred
      <4>2. QED
        BY <4>1
    <3>3. NoneDeferred.awaited = {}
      BY DEF NoneDeferred
    <3>4. QED
      BY <3>1, <3>2, <3>3
  <2>2. QED
    BY <2>1 DEF Undeferred
<1>4. Undeferred(Extended(state, ToolChat(id)))
  BY <1>2, UndeferredIs
<1>5. Joined(mode, Extended(state, ToolChat(id))) = Extended(state, ToolChat(id))
  BY <1>4, UndeferredIs
<1>6. QED
  BY <1>2, <1>3, <1>5 DEF ResultChat, Extended

\* A result becomes a tool's chat message.
LEMMA ResultConverts ==
  ASSUME NEW mode, NEW asked, NEW state, Converts(mode, asked, state), NEW id \in Nat
  PROVE  Converts(mode, Append(asked, RequestMessage("user", FALSE, <<Piece("result", id)>>, <<>>)),
                  Extended(state, ToolChat(id)))
<1>0. asked \in Seq(Messages) /\ state = Conversion(mode, asked) /\ Undeferred(state)
  BY DEF Converts
<1> DEFINE result == Piece("result", id)
           message == RequestMessage("user", FALSE, <<result>>, <<>>)
<1>1. result \in Blocks /\ result.kind = "result" /\ result.id = id /\ state \in States
  BY <1>0 DEF Piece, Blocks, Undeferred
<1> HIDE DEF result
<1>2. /\ message \in Messages /\ message.role = "user" /\ message.plain = FALSE
      /\ message.blocks = <<result>>
  <2>1. <<result>> \in Seq(Blocks)
    BY <1>1
  <2>2. QED
    BY <2>1, UserMessageIs
<1> HIDE DEF message
<1>3. Conversion(mode, Append(asked, message)) = Converted(mode, state, message)
  BY <1>0, <1>2, ConversionIs
<1>4. UserBlocks(mode, state, <<result>>) = ResultChat(mode, state, id)
  <2>1. UserBlocks(mode, state, <<result>>) = UserBlock(mode, state, result)
    BY <1>1, OneUserBlock
  <2>2. QED
    BY <1>1, <2>1 DEF UserBlock
<1>5. ResultChat(mode, state, id) = Extended(state, ToolChat(id)) /\ ToolChat(id) \in ChatMessages
  BY <1>0, ResultChatIs
<1>6. Converted(mode, state, message) = Extended(state, ToolChat(id))
  BY <1>2, <1>4, <1>5 DEF Converted
<1>7. Append(asked, message) \in Seq(Messages)
  BY <1>0, <1>2
<1>8. Undeferred(Extended(state, ToolChat(id)))
  BY <1>0, <1>5, UndeferredIs
<1>9. QED
  BY <1>3, <1>6, <1>7, <1>8 DEF message, result, Converts

\* A message that ends the request, and what it becomes with one more result.
LEMMA LastMessage ==
  ASSUME NEW mode, NEW asked \in Seq(Messages), asked # <<>>
  PROVE  /\ Front(asked) \in Seq(Messages) /\ Last(asked) \in Messages
         /\ asked = Append(Front(asked), Last(asked))
         /\ Conversion(mode, Front(asked)) \in States
         /\ \A message \in Messages :
               /\ Append(Front(asked), message) \in Seq(Messages)
               /\ Conversion(mode, Append(Front(asked), message)) =
                     Converted(mode, Conversion(mode, Front(asked)), message)
         /\ Conversion(mode, asked) = Converted(mode, Conversion(mode, Front(asked)), Last(asked))
<1>1. PICK n \in Nat : n = Len(asked) /\ n > 0
  OBVIOUS
<1>2. Front(asked) = SubSeq(asked, 1, n - 1) /\ Last(asked) = asked[n]
  BY <1>1 DEF Front, Last
<1>3. Front(asked) \in Seq(Messages) /\ Last(asked) \in Messages
  BY <1>1, <1>2
<1>4. asked = Append(Front(asked), Last(asked))
  BY <1>1, <1>2
<1> DEFINE front == Front(asked)
           last == Last(asked)
<1> HIDE DEF front, last
<1>5. /\ Conversion(mode, front) \in States
      /\ \A message \in Messages :
            Conversion(mode, Append(front, message)) =
               Converted(mode, Conversion(mode, front), message)
  BY <1>3, ConversionIs DEF front
<1>6. \A message \in Messages : Append(front, message) \in Seq(Messages)
  BY <1>3 DEF front
<1>7. QED
  BY <1>3, <1>4, <1>5, <1>6 DEF front, last

\* A result that joins those of the last message becomes a message too.
LEMMA NextResultConverts ==
  ASSUME NEW mode, NEW asked, NEW state, Converts(mode, asked, state), asked # <<>>,
         IsResultMessage(Last(asked)), NEW id \in Nat
  PROVE  Converts(mode, Append(Front(asked), [Last(asked) EXCEPT !.blocks =
                                                 Append(@, Piece("result", id))]),
                  Extended(state, ToolChat(id)))
<1>0. asked \in Seq(Messages) /\ state = Conversion(mode, asked) /\ Undeferred(state)
  BY DEF Converts
<1> DEFINE front == Front(asked)
           last == Last(asked)
           result == Piece("result", id)
           next == [last EXCEPT !.blocks = Append(last.blocks, result)]
           before == Conversion(mode, front)
<1>1. /\ front \in Seq(Messages) /\ last \in Messages /\ before \in States
      /\ \A message \in Messages :
            /\ Append(front, message) \in Seq(Messages)
            /\ Conversion(mode, Append(front, message)) = Converted(mode, before, message)
      /\ state = Converted(mode, before, last)
  BY <1>0, LastMessage
<1>2. last.role = "user" /\ ~ last.plain
  BY DEF IsResultMessage
<1>3. result \in Blocks /\ result.kind = "result" /\ result.id = id
  BY DEF Piece, Blocks
<1>4. last.blocks \in Seq(Blocks)
  BY <1>1 DEF Messages
<1>5. Append(Front(asked), [Last(asked) EXCEPT !.blocks = Append(@, Piece("result", id))]) =
         Append(front, next)
  OBVIOUS
<1> HIDE DEF front, last, result, before
<1>6. /\ next \in Messages /\ next.role = "user" /\ ~ next.plain
      /\ next.blocks = Append(last.blocks, result)
  <2>1. Append(last.blocks, result) \in Seq(Blocks)
    BY <1>3, <1>4
  <2>2. QED
    BY <1>1, <1>2, <2>1 DEF Messages
<1> HIDE DEF next
<1>7. state = UserBlocks(mode, before, last.blocks)
  BY <1>1, <1>2 DEF Converted
<1>8. Converted(mode, before, next) = UserBlocks(mode, before, Append(last.blocks, result))
  BY <1>6 DEF Converted
<1>9. UserBlocks(mode, before, Append(last.blocks, result)) = UserBlock(mode, state, result)
  <2>1. UserBlocks(mode, before, Append(last.blocks, result)) =
           UserBlock(mode, UserBlocks(mode, before, last.blocks), result)
    BY <1>1, <1>3, <1>4, UserBlocksIs
  <2>2. QED
    BY <1>7, <2>1
<1>10. ResultChat(mode, state, id) = Extended(state, ToolChat(id)) /\ ToolChat(id) \in ChatMessages
  BY <1>0, ResultChatIs
<1>11. UserBlock(mode, state, result) = Extended(state, ToolChat(id))
  BY <1>3, <1>10 DEF UserBlock
<1>12. Undeferred(Extended(state, ToolChat(id)))
  BY <1>0, <1>10, UndeferredIs
<1>13. Append(front, next) \in Seq(Messages)
       /\ Conversion(mode, Append(front, next)) = Extended(state, ToolChat(id))
  BY <1>1, <1>6, <1>8, <1>9, <1>11
<1>14. QED
  BY <1>5, <1>12, <1>13 DEF Converts

\* What the assistant says is told in a message of its own.
LEMMA TextConverts ==
  ASSUME NEW mode, NEW asked, NEW state, Converts(mode, asked, state),
         NEW held \in HeldReasoning, NEW text \in Blocks, text.kind = "text"
  PROVE  LET message == RequestMessage("assistant", FALSE, Append(Opaque(held), text), held.texts)
         IN  /\ ~ IsCallMessage(message)
             /\ \E said \in ChatMessages :
                   /\ Told(said) = <<text>> /\ said.calls = <<>> /\ said.answers = 0
                   /\ Keeps(mode, said, held.texts)
                   /\ Converts(mode, Append(asked, message), Extended(state, said))
<1> DEFINE opaque == Opaque(held)
           blocks == Append(opaque, text)
           message == RequestMessage("assistant", FALSE, blocks, held.texts)
           said == AssistantChat(mode, blocks, held.texts)
<1>0. asked \in Seq(Messages) /\ state = Conversion(mode, asked) /\ Undeferred(state)
  BY DEF Converts
<1>1. /\ opaque \in Seq(Blocks) /\ held.texts \in Seq(Nat)
      /\ \A b \in DOMAIN opaque : opaque[b].kind = "redacted"
  BY OpaqueIs
<1> HIDE DEF opaque
<1>2. /\ blocks \in Seq(Blocks)
      /\ \A b \in DOMAIN blocks : blocks[b].kind \in {"redacted", "text"}
      /\ \E b \in DOMAIN blocks : blocks[b].kind = "text"
  <2>1. PICK n \in Nat : n = Len(opaque) /\ DOMAIN opaque = 1 .. n
    BY <1>1
  <2>2. /\ blocks \in Seq(Blocks) /\ DOMAIN blocks = 1 .. n + 1 /\ blocks[n + 1] = text
        /\ \A b \in 1 .. n : blocks[b] = opaque[b]
    BY <1>1, <2>1
  <2> HIDE DEF blocks
  <2>3. \A b \in 1 .. n + 1 : b \in 1 .. n \/ b = n + 1
    BY <2>1
  <2>4. n + 1 \in DOMAIN blocks
    BY <2>1, <2>2
  <2>5. QED
    BY <1>1, <2>1, <2>2, <2>3, <2>4
<1>3. OfKind("text", blocks) = <<text>>
  <2>1. OfKind("text", opaque) = <<>>
    BY <1>1, NoneOfKind
  <2>2. OfKind("text", blocks) = Append(OfKind("text", opaque), text)
    BY <1>1, OfKindMore
  <2>3. Append(<<>>, text) = <<text>>
    OBVIOUS
  <2> HIDE DEF blocks
  <2>4. QED
    BY <2>1, <2>2, <2>3
<1> HIDE DEF blocks
<1>4. OfKind("thinking", blocks) = <<>>
  BY <1>2, NoneOfKind
<1>5. /\ message \in Messages /\ message.role = "assistant" /\ message.plain = FALSE
      /\ message.blocks = blocks /\ message.reasoning = held.texts
  BY <1>1, <1>2 DEF RequestMessage, Messages
<1> HIDE DEF message
<1>6. CallsOf(blocks) = {} /\ ~ IsCallMessage(message)
  BY <1>2, <1>5 DEF CallsOf, IsCallMessage
<1>8. /\ said \in ChatMessages /\ said.role = "assistant" /\ said.calls = <<>>
      /\ said.answers = 0 /\ said.text = <<text>>
      /\ said.reasoning = IF mode = "disabled" THEN <<>>
                          ELSE IF held.texts # <<>> THEN held.texts ELSE Ids(<<>>)
  BY <1>1, <1>2, <1>3, <1>4, AssistantChatIs
<1> HIDE DEF said
<1>9. Told(said) = <<text>>
  <2>1. said.role # "tool"
    BY <1>8
  <2>2. QED
    BY <1>8, <2>1, ToldIs
<1>10. Keeps(mode, said, held.texts)
  BY <1>8 DEF Keeps, ToSet, Ids
<1>11. Conversion(mode, Append(asked, message)) = Converted(mode, state, message)
  BY <1>0, <1>5, ConversionIs
<1>12. Converted(mode, state, message) = [state EXCEPT !.chat = Append(@, said)]
  <2>1. message.role # "user"
    BY <1>5
  <2>2. Joined(mode, state) = state
    BY <1>0, UndeferredIs
  <2>3. QED
    BY <1>5, <1>6, <2>1, <2>2 DEF Converted, said
<1>13. /\ [state EXCEPT !.chat = Append(@, said)] = Extended(state, said)
       /\ Undeferred(Extended(state, said))
  BY <1>0, <1>8, UndeferredIs
<1>14. Append(asked, message) \in Seq(Messages)
  BY <1>0, <1>5
<1>15. Converts(mode, Append(asked, message), Extended(state, said))
  BY <1>11, <1>12, <1>13, <1>14 DEF Converts
<1>16. QED
  BY <1>6, <1>8, <1>9, <1>10, <1>15 DEF message, blocks, opaque

\* A message of calls that nothing but opaque blocks come before.
CallsOnly(message) == message \in Messages /\ IsCallMessage(message) /\ NoneAmong(message.blocks)

\* A message of calls becomes one chat message, and defers nothing.
LEMMA CallsOnlyConvert ==
  ASSUME NEW mode, NEW before \in States, NEW message, CallsOnly(message)
  PROVE  /\ Converted(mode, before, message) =
               [chat |-> Append(Joined(mode, before).chat, CallChat(mode, message)),
                pending |-> NoneDeferred]
         /\ Joined(mode, before).chat \in Seq(ChatMessages)
         /\ LET said == CallChat(mode, message)
            IN  /\ said \in ChatMessages /\ said.role = "assistant" /\ said.answers = 0
                /\ said.calls = Ids(OfKind("call", message.blocks)) /\ said.calls # <<>>
                /\ said.text = <<>>
                /\ said.reasoning = IF mode = "disabled" THEN <<>> ELSE message.reasoning
<1>1. message \in Messages /\ IsCallMessage(message) /\ NoneAmong(message.blocks)
  BY DEF CallsOnly
<1>2. /\ message.role = "assistant" /\ ~ message.plain /\ CallBlocks(message.blocks)
      /\ \E b \in DOMAIN message.blocks : message.blocks[b].kind = "call"
  BY <1>1 DEF IsCallMessage, CallBlocks
<1>3. CallsOf(message.blocks) # {}
  BY <1>2 DEF CallsOf
<1>4. DeferredOf(message) = NoneDeferred
  BY <1>1, NothingDeferred
<1>5. Joined(mode, before) \in States
  BY JoinedIs
<1>6. message.role # "user"
  BY <1>2
<1>7. Converted(mode, before, message) =
         [chat |-> Append(Joined(mode, before).chat, CallChat(mode, message)),
          pending |-> NoneDeferred]
  BY <1>2, <1>3, <1>4, <1>6 DEF Converted
<1> DEFINE said == CallChat(mode, message)
<1>8. /\ said \in ChatMessages /\ said.role = "assistant" /\ said.answers = 0
      /\ said.calls = Ids(OfKind("call", message.blocks))
      /\ said.text = <<>>
      /\ said.reasoning = IF mode = "disabled" THEN <<>> ELSE message.reasoning
  BY <1>1, <1>2, CallMessageChat
<1>9. said.calls # <<>>
  <2>1. message.blocks \in Seq(Blocks)
    BY <1>1 DEF Messages
  <2>2. PICK b \in DOMAIN message.blocks : message.blocks[b].kind = "call"
    BY <1>2
  <2>3. /\ OfKind("call", message.blocks) \in Seq(Blocks)
        /\ Embeds(OfKind("call", message.blocks), message.blocks,
                  KindAt("call", message.blocks, DOMAIN message.blocks))
    BY <2>1, OfKindIs
  <2>4. b \in KindAt("call", message.blocks, DOMAIN message.blocks)
    BY <2>2 DEF KindAt
  <2>5. \E k \in DOMAIN OfKind("call", message.blocks) : TRUE
    BY <2>3, <2>4 DEF Embeds, Through
  <2>6. DOMAIN said.calls = DOMAIN OfKind("call", message.blocks)
    BY <1>8, <2>3, IdsAre
  <2> HIDE DEF said
  <2>7. QED
    BY <2>5, <2>6
<1>10. Joined(mode, before).chat \in Seq(ChatMessages)
  BY <1>5 DEF States
<1>11. QED
  BY <1>7, <1>8, <1>9, <1>10

\* A chat message of calls tells them.
LEMMA ToldCalls ==
  ASSUME NEW said \in ChatMessages, said.role = "assistant", said.text = <<>>
  PROVE  /\ Told(said) = [c \in DOMAIN said.calls |-> Piece("call", said.calls[c])]
         /\ Told(said) \in Seq(Blocks)
<1> DEFINE calls == [c \in DOMAIN said.calls |-> Piece("call", said.calls[c])]
<1>1. said.role # "tool"
  OBVIOUS
<1>2. Told(said) \in Seq(Blocks) /\ Told(said) = <<>> \o calls
  BY <1>1, ToldIs
<1>3. calls \in Seq(Blocks)
  <2>1. said.calls \in Seq(Nat)
    BY DEF ChatMessages
  <2>2. PICK n \in Nat : DOMAIN said.calls = 1 .. n
    BY <2>1
  <2>3. \A c \in 1 .. n : Piece("call", said.calls[c]) \in Blocks
    BY <2>1, <2>2 DEF Piece, Blocks
  <2>4. calls = [c \in 1 .. n |-> Piece("call", said.calls[c])]
    BY <2>2
  <2> HIDE DEF calls
  <2>5. QED
    BY <2>3, <2>4
<1> HIDE DEF calls
<1>4. QED
  BY <1>2, <1>3, ConcatEmptySeq DEF calls

\* A chat that continues another keeps its messages; only the last one of them may get
\* more calls, if it has some, and more reasoning.
Continues(new, chat) ==
    \E n, k \in Nat :
        /\ DOMAIN chat = 1 .. n /\ DOMAIN new = 1 .. n + k
        /\ n = Len(chat) /\ n + k = Len(new)
        /\ \A i \in 1 .. n :
              /\ new[i].answers = chat[i].answers
              /\ ToSet(chat[i].calls) \subseteq ToSet(new[i].calls)
              /\ ToSet(chat[i].reasoning) \subseteq ToSet(new[i].reasoning)
              /\ new[i].calls # <<>> => chat[i].calls # <<>>
              /\ i < n => new[i].calls = chat[i].calls

\* A chat continues itself.
LEMMA ContinuesItself ==
  ASSUME NEW chat \in Seq(ChatMessages)
  PROVE  Continues(chat, chat)
<1>1. PICK n \in Nat : DOMAIN chat = 1 .. n /\ n = Len(chat)
  OBVIOUS
<1>2. 0 \in Nat /\ n + 0 = n
  BY <1>1
<1>3. \A i \in 1 .. n :
         /\ chat[i].answers = chat[i].answers
         /\ ToSet(chat[i].calls) \subseteq ToSet(chat[i].calls)
         /\ ToSet(chat[i].reasoning) \subseteq ToSet(chat[i].reasoning)
         /\ chat[i].calls # <<>> => chat[i].calls # <<>>
         /\ i < n => chat[i].calls = chat[i].calls
  OBVIOUS
<1>4. QED
  BY <1>1, <1>2, <1>3, Zenon DEF Continues

\* A chat with one message more continues it.
LEMMA ContinuesAppended ==
  ASSUME NEW chat \in Seq(ChatMessages), NEW said \in ChatMessages
  PROVE  Continues(Append(chat, said), chat)
<1>1. PICK n \in Nat : DOMAIN chat = 1 .. n /\ n = Len(chat)
  OBVIOUS
<1> DEFINE new == Append(chat, said)
<1>2. DOMAIN new = 1 .. n + 1 /\ Len(new) = n + 1 /\ \A i \in 1 .. n : new[i] = chat[i]
  BY <1>1
<1> HIDE DEF new
<1>3. \A i \in 1 .. n :
         /\ new[i].answers = chat[i].answers
         /\ ToSet(chat[i].calls) \subseteq ToSet(new[i].calls)
         /\ ToSet(chat[i].reasoning) \subseteq ToSet(new[i].reasoning)
         /\ new[i].calls # <<>> => chat[i].calls # <<>>
         /\ i < n => new[i].calls = chat[i].calls
  BY <1>2
<1>4. 1 \in Nat
  OBVIOUS
<1>5. Continues(new, chat)
  BY <1>1, <1>2, <1>3, <1>4, Zenon DEF Continues
<1>6. QED
  BY <1>5 DEF new

\* Continuing is transitive.
LEMMA ContinuesThrough ==
  ASSUME NEW a, NEW b, NEW c, Continues(a, b), Continues(b, c)
  PROVE  Continues(a, c)
<1>1. PICK n, k \in Nat :
        /\ DOMAIN c = 1 .. n /\ DOMAIN b = 1 .. n + k /\ n = Len(c) /\ n + k = Len(b)
        /\ \A i \in 1 .. n :
              /\ b[i].answers = c[i].answers
              /\ ToSet(c[i].calls) \subseteq ToSet(b[i].calls)
              /\ ToSet(c[i].reasoning) \subseteq ToSet(b[i].reasoning)
              /\ b[i].calls # <<>> => c[i].calls # <<>>
              /\ i < n => b[i].calls = c[i].calls
  BY Zenon DEF Continues
<1>2. PICK m, l \in Nat :
        /\ DOMAIN b = 1 .. m /\ DOMAIN a = 1 .. m + l /\ m = Len(b) /\ m + l = Len(a)
        /\ \A i \in 1 .. m :
              /\ a[i].answers = b[i].answers
              /\ ToSet(b[i].calls) \subseteq ToSet(a[i].calls)
              /\ ToSet(b[i].reasoning) \subseteq ToSet(a[i].reasoning)
              /\ a[i].calls # <<>> => b[i].calls # <<>>
              /\ i < m => a[i].calls = b[i].calls
  BY Zenon DEF Continues
<1>3. m = n + k /\ k + l \in Nat /\ m + l = n + (k + l)
  BY <1>1, <1>2, SMTT(30)
<1>4. ASSUME NEW i \in 1 .. n
      PROVE  /\ a[i].answers = c[i].answers
             /\ ToSet(c[i].calls) \subseteq ToSet(a[i].calls)
             /\ ToSet(c[i].reasoning) \subseteq ToSet(a[i].reasoning)
             /\ a[i].calls # <<>> => c[i].calls # <<>>
             /\ i < n => a[i].calls = c[i].calls
  <2>1. i \in 1 .. m /\ (i < n => i < m)
    BY <1>1, <1>2, <1>3
  <2>2. /\ a[i].answers = b[i].answers
        /\ ToSet(b[i].calls) \subseteq ToSet(a[i].calls)
        /\ ToSet(b[i].reasoning) \subseteq ToSet(a[i].reasoning)
        /\ a[i].calls # <<>> => b[i].calls # <<>>
        /\ i < m => a[i].calls = b[i].calls
    BY <1>2, <2>1
  <2>3. QED
    BY <1>1, <2>1, <2>2
<1>5. DOMAIN a = 1 .. n + (k + l) /\ n + (k + l) = Len(a)
  BY <1>2, <1>3
<1>6. DOMAIN c = 1 .. n /\ n = Len(c)
  BY <1>1
<1>7. QED
  BY <1>3, <1>4, <1>5, <1>6, Zenon DEF Continues

\* The last message of a chat gets calls and reasoning.
LEMMA ContinuesLast ==
  ASSUME NEW front \in Seq(ChatMessages), NEW old \in ChatMessages, NEW said \in ChatMessages,
         said.answers = old.answers, ToSet(old.calls) \subseteq ToSet(said.calls),
         ToSet(old.reasoning) \subseteq ToSet(said.reasoning), old.calls # <<>>
  PROVE  Continues(Append(front, said), Append(front, old))
<1>1. PICK n \in Nat : DOMAIN front = 1 .. n /\ n = Len(front)
  OBVIOUS
<1> DEFINE new == Append(front, said)
           chat == Append(front, old)
<1>2. /\ DOMAIN new = 1 .. n + 1 /\ Len(new) = n + 1 /\ new[n + 1] = said
      /\ DOMAIN chat = 1 .. n + 1 /\ Len(chat) = n + 1 /\ chat[n + 1] = old
      /\ \A i \in 1 .. n : new[i] = chat[i]
  BY <1>1
<1> HIDE DEF new, chat
<1>3. ASSUME NEW i \in 1 .. n + 1
      PROVE  /\ new[i].answers = chat[i].answers
             /\ ToSet(chat[i].calls) \subseteq ToSet(new[i].calls)
             /\ ToSet(chat[i].reasoning) \subseteq ToSet(new[i].reasoning)
             /\ new[i].calls # <<>> => chat[i].calls # <<>>
             /\ i < n + 1 => new[i].calls = chat[i].calls
  <2>1. CASE i = n + 1
    <3>1. new[i] = said /\ chat[i] = old
      BY <1>2, <2>1
    <3>2. ~ (i < n + 1)
      BY <1>1, <2>1
    <3>3. QED
      BY <3>1, <3>2, Zenon
  <2>2. CASE i # n + 1
    <3>1. i \in 1 .. n
      BY <1>1, <2>2
    <3>2. QED
      BY <1>2, <3>1
  <2>3. QED
    BY <2>1, <2>2
<1>4. n + 1 \in Nat /\ 0 \in Nat /\ n + 1 + 0 = n + 1
  BY <1>1
<1>5. Continues(new, chat)
  BY <1>2, <1>3, <1>4, Zenon DEF Continues
<1>6. QED
  BY <1>5 DEF new, chat

-----------------------------------------------------------------------------
(* One piece more: whether a provider is told of it.                       *)

IsTold(history, piece) ==
    \/ piece.kind \in {"prompt", "note", "text", "call"}
    \/ piece.kind = "result" /\ history[piece.id].kind = "call"

\* A history with one piece more, and what is open and bad in it then.
NextHistory(later, openThen, badThen, history, open, piece) ==
    /\ history \in Seq(Blocks) /\ piece \in Blocks /\ later = Append(history, piece)
    /\ Fitting(history, open, <<piece>>) /\ OpenAfter(history, open, <<piece>>, openThen)
    /\ \E bad : IsHistory(history, open, bad)
    /\ IsHistory(later, openThen, badThen)

\* A history with a piece more: its length and its pieces.
LEMMA NextHistoryIs ==
  ASSUME NEW later, NEW openThen, NEW badThen, NEW history, NEW open, NEW piece,
         NextHistory(later, openThen, badThen, history, open, piece)
  PROVE  /\ DOMAIN history = 1 .. Len(history) /\ DOMAIN later = 1 .. Len(history) + 1
         /\ Len(history) \in Nat /\ Len(later) = Len(history) + 1
         /\ later[Len(history) + 1] = piece
         /\ \A p \in DOMAIN history : later[p] = history[p]
<1>1. history \in Seq(Blocks) /\ piece \in Blocks /\ later = Append(history, piece)
  BY DEF NextHistory
<1>2. PICK n \in Nat : n = Len(history) /\ DOMAIN history = 1 .. n
  BY <1>1
<1>3. /\ DOMAIN later = 1 .. n + 1 /\ later[n + 1] = piece /\ Len(later) = n + 1
      /\ \A p \in 1 .. n : later[p] = history[p]
  BY <1>1, <1>2
<1>4. QED
  BY <1>2, <1>3

\* What must be told of a history with a piece more.
LEMMA OnePieceMore ==
  ASSUME NEW later, NEW openThen, NEW badThen, NEW history, NEW open, NEW piece,
         NextHistory(later, openThen, badThen, history, open, piece)
  PROVE  /\ GrowsBy(later, history, <<piece>>)
         /\ MustBeTold(later) = IF IsTold(history, piece)
                                THEN MustBeTold(history) \cup {Len(history) + 1}
                                ELSE MustBeTold(history)
         /\ MustBeTold(history) \subseteq DOMAIN history
         /\ MustBeTold(later) \subseteq DOMAIN later
         /\ DOMAIN history = 1 .. Len(history) /\ DOMAIN later = 1 .. Len(history) + 1
         /\ Len(history) \in Nat /\ Len(later) = Len(history) + 1
         /\ later[Len(history) + 1] = piece
         /\ \A p \in DOMAIN history : later[p] = history[p]
         /\ Distinct(later, DOMAIN later)
<1>1. /\ history \in Seq(Blocks) /\ piece \in Blocks /\ later = Append(history, piece)
      /\ Fitting(history, open, <<piece>>) /\ IsHistory(later, openThen, badThen)
  BY DEF NextHistory
<1>2. PICK bad : IsHistory(history, open, bad)
  BY DEF NextHistory
<1>3. GrowsBy(later, history, <<piece>>)
  BY <1>1, AppendGrows
<1>4. /\ MustBeTold(later) = MustBeTold(history) \cup ToldOf(history, <<piece>>)
      /\ MustBeTold(history) \subseteq DOMAIN history
      /\ MustBeTold(later) \subseteq DOMAIN later
  BY <1>1, <1>2, <1>3, MustBeToldLater
<1>5. PICK n \in Nat : n = Len(history) /\ DOMAIN history = 1 .. n
  BY <1>1
<1>6. /\ DOMAIN later = 1 .. n + 1 /\ later[n + 1] = piece /\ Len(later) = n + 1
      /\ \A p \in 1 .. n : later[p] = history[p]
  BY <1>1, <1>5
<1>7. ToldOf(history, <<piece>>) = IF IsTold(history, piece) THEN {n + 1} ELSE {}
  <2>1. DOMAIN <<piece>> = {1} /\ <<piece>>[1] = piece /\ n + 1 \in Nat
    BY <1>5
  <2>2. \A p : p \in ToldOf(history, <<piece>>) <=>
                 p \in Nat /\ p = n + 1 /\ IsTold(history, piece)
    BY <1>5, <2>1 DEF ToldOf, IsTold
  <2>3. CASE IsTold(history, piece)
    <3>1. \A p : p \in ToldOf(history, <<piece>>) <=> p = n + 1
      BY <2>1, <2>2, <2>3
    <3>2. QED
      BY <2>3, <3>1
  <2>4. CASE ~ IsTold(history, piece)
    <3>1. \A p : p \notin ToldOf(history, <<piece>>)
      BY <2>2, <2>4
    <3>2. QED
      BY <2>4, <3>1
  <2>5. QED
    BY <2>3, <2>4
<1>8. Distinct(later, DOMAIN later)
  BY <1>1 DEF IsHistory
<1>9. MustBeTold(later) = IF IsTold(history, piece)
                          THEN MustBeTold(history) \cup {Len(history) + 1}
                          ELSE MustBeTold(history)
  <2>1. CASE IsTold(history, piece)
    BY <1>4, <1>5, <1>7, <2>1
  <2>2. CASE ~ IsTold(history, piece)
    BY <1>4, <1>7, <2>2
  <2>3. QED
    BY <2>1, <2>2
<1>10. QED
  BY <1>3, <1>4, <1>5, <1>6, <1>8, <1>9

\* A piece that is not told leaves the chat as it is.
LEMMA UntoldPiece ==
  ASSUME NEW later, NEW openThen, NEW badThen, NEW history, NEW open, NEW piece,
         NextHistory(later, openThen, badThen, history, open, piece),
         ~ IsTold(history, piece),
         NEW chat, Tells(chat, history, MustBeTold(history))
  PROVE  Tells(chat, later, MustBeTold(later))
<1>1. /\ GrowsBy(later, history, <<piece>>) /\ MustBeTold(later) = MustBeTold(history)
      /\ MustBeTold(history) \subseteq DOMAIN history
  BY OnePieceMore
<1>2. PICK bad : IsHistory(history, open, bad)
  BY DEF NextHistory
<1>3. Tells(chat, later, MustBeTold(history))
  BY <1>1, <1>2, TellsLater
<1>4. QED
  BY <1>1, <1>3

\* A message tells of the piece.
LEMMA PieceTold ==
  ASSUME NEW later, NEW openThen, NEW badThen, NEW history, NEW open, NEW piece,
         NextHistory(later, openThen, badThen, history, open, piece),
         IsTold(history, piece),
         NEW chat \in Seq(ChatMessages), Tells(chat, history, MustBeTold(history)),
         NEW said \in ChatMessages, Told(said) = <<piece>>
  PROVE  Tells(Append(chat, said), later, MustBeTold(later))
<1> DEFINE n == Len(history)
           K == MustBeTold(history)
<1>1. /\ GrowsBy(later, history, <<piece>>) /\ MustBeTold(later) = K \cup {n + 1}
      /\ K \subseteq DOMAIN history /\ MustBeTold(later) \subseteq DOMAIN later
      /\ DOMAIN history = 1 .. n /\ DOMAIN later = 1 .. n + 1 /\ n \in Nat
      /\ later[n + 1] = piece /\ Distinct(later, DOMAIN later)
  BY OnePieceMore
<1>2. PICK bad : IsHistory(history, open, bad)
  BY DEF NextHistory
<1>3. Tells(chat, later, K)
  BY <1>1, <1>2, TellsLater
<1> HIDE DEF n, K
<1>4. Embeds(Told(said), later, {n + 1})
  <2> DEFINE at == [k \in {1} |-> n + 1]
  <2>1. DOMAIN <<piece>> = {1} /\ <<piece>>[1] = piece
    OBVIOUS
  <2>2. Through(at, <<piece>>, later, {n + 1})
    BY <1>1, <2>1 DEF Through
  <2> HIDE DEF at
  <2>3. QED
    BY <2>2 DEF Embeds
<1>5. K \in SUBSET Nat /\ {n + 1} \in SUBSET Nat /\ K \cap {n + 1} = {}
  BY <1>1
<1>6. Distinct(later, K \cup {n + 1})
  BY <1>1 DEF Distinct
<1>7. ComeNext(later, K, {n + 1})
  BY <1>1 DEF ComeNext
<1>8. Tells(Append(chat, said), later, K \cup {n + 1})
  BY <1>3, <1>4, <1>5, <1>6, <1>7, MessageTells
<1>9. QED
  BY <1>1, <1>8

\* The last message tells of the piece too.
LEMMA PieceToldLast ==
  ASSUME NEW later, NEW openThen, NEW badThen, NEW history, NEW open, NEW piece,
         NextHistory(later, openThen, badThen, history, open, piece),
         IsTold(history, piece),
         NEW front \in Seq(ChatMessages), NEW old \in ChatMessages, NEW said \in ChatMessages,
         Tells(Append(front, old), history, MustBeTold(history)),
         OneMore(Told(said), Told(old), piece)
  PROVE  Tells(Append(front, said), later, MustBeTold(later))
<1> DEFINE n == Len(history)
           K == MustBeTold(history)
<1>1. /\ GrowsBy(later, history, <<piece>>) /\ MustBeTold(later) = K \cup {n + 1}
      /\ K \subseteq DOMAIN history /\ MustBeTold(later) \subseteq DOMAIN later
      /\ DOMAIN history = 1 .. n /\ DOMAIN later = 1 .. n + 1 /\ n \in Nat
      /\ later[n + 1] = piece /\ Distinct(later, DOMAIN later)
  BY OnePieceMore
<1>2. PICK bad : IsHistory(history, open, bad)
  BY DEF NextHistory
<1>3. Tells(Append(front, old), later, K)
  BY <1>1, <1>2, TellsLater
<1> HIDE DEF n, K
<1>4. OneMore(Told(said), Told(old), later[n + 1])
  BY <1>1
<1>5. K \in SUBSET Nat /\ n + 1 \in Nat /\ \A q \in K : q < n + 1
  BY <1>1
<1>6. Distinct(later, K \cup {n + 1})
  BY <1>1 DEF Distinct
<1>7. Tells(Append(front, said), later, K \cup {n + 1})
  BY <1>3, <1>4, <1>5, <1>6, LastTellsMore
<1>8. QED
  BY <1>1, <1>7

\* A remark tells nothing.
LEMMA RemarkTells ==
  ASSUME NEW chat \in Seq(ChatMessages), NEW said, Remark(said), NEW history,
         NEW K \in SUBSET Nat, Tells(chat, history, K), Distinct(history, K)
  PROVE  Tells(Append(chat, said), history, K)
<1>1. said \in ChatMessages /\ Told(said) = <<>>
  BY DEF Remark
<1>2. Embeds(Told(said), history, {})
  <2> DEFINE at == [k \in {} |-> 0]
  <2>1. DOMAIN <<>> = {}
    OBVIOUS
  <2>2. Through(at, <<>>, history, {})
    BY <2>1 DEF Through
  <2> HIDE DEF at
  <2>3. QED
    BY <1>1, <2>2 DEF Embeds
<1>3. {} \in SUBSET Nat /\ K \cap {} = {} /\ K \cup {} = K
  OBVIOUS
<1>4. ComeNext(history, K, {})
  BY DEF ComeNext
<1>5. Distinct(history, K \cup {})
  BY <1>3
<1>6. Tells(Append(chat, said), history, K \cup {})
  BY <1>1, <1>2, <1>3, <1>4, <1>5, MessageTells
<1>7. QED
  BY <1>3, <1>6

-----------------------------------------------------------------------------
(* A request with one more item: what is flushed before it.                *)

\* When reasoning is replayed, these pieces of it are.
Replayed(mode, chat, texts) ==
    mode # "disabled" =>
        \A p \in ToSet(texts) : \E m \in DOMAIN chat : p \in ToSet(chat[m].reasoning)

Flushes(mode, new, chat, held) ==
    \/ held = NoReasoning /\ new = chat
    \/ held # NoReasoning /\ \E said : /\ Remark(said) /\ Keeps(mode, said, held.texts)
                                       /\ new = Append(chat, said)

\* Flushing keeps what has been converted, and says what was held.
LEMMA FlushedConverts ==
  ASSUME NEW mode, NEW asked, NEW state, Converts(mode, asked, state), NEW held \in HeldReasoning
  PROVE  \E next : /\ Converts(mode, Flushed(asked, held), next)
                   /\ Flushes(mode, next.chat, state.chat, held)
                   /\ Flushed(asked, held) = asked <=> held = NoReasoning
<1>1. asked \in Seq(Messages) /\ Conversion(mode, asked) = state /\ Undeferred(state)
  BY DEF Converts
<1>2. Conversion(mode, asked).pending = NoneDeferred
  BY <1>1 DEF Undeferred
<1>3. /\ Flushed(asked, held) \in Seq(Messages)
      /\ held = NoReasoning => Flushed(asked, held) = asked
      /\ held # NoReasoning =>
            /\ Flushed(asked, held) # asked
            /\ \E said : /\ Remark(said) /\ Keeps(mode, said, held.texts)
                         /\ Conversion(mode, Flushed(asked, held)) =
                               Extended(Conversion(mode, asked), said)
  BY <1>1, <1>2, FlushedIs
<1>4. CASE held = NoReasoning
  <2>1. Converts(mode, Flushed(asked, held), state)
    BY <1>1, <1>3, <1>4 DEF Converts
  <2>2. Flushes(mode, state.chat, state.chat, held)
    BY <1>4 DEF Flushes
  <2>3. QED
    BY <1>3, <1>4, <2>1, <2>2
<1>5. CASE held # NoReasoning
  <2>1. PICK said : /\ Remark(said) /\ Keeps(mode, said, held.texts)
                    /\ Conversion(mode, Flushed(asked, held)) = Extended(state, said)
    BY <1>1, <1>3, <1>5
  <2>2. Undeferred(Extended(state, said))
    BY <1>1, <2>1, UndeferredIs DEF Remark
  <2>3. Converts(mode, Flushed(asked, held), Extended(state, said))
    BY <1>3, <2>1, <2>2 DEF Converts
  <2>4. Flushes(mode, Extended(state, said).chat, state.chat, held)
    BY <1>5, <2>1 DEF Flushes, Extended
  <2>5. QED
    BY <1>3, <1>5, <2>3, <2>4
<1>6. QED
  BY <1>4, <1>5

\* Reasoning that a message keeps is replayed by the chat it ends.
LEMMA SaidIsReplayed ==
  ASSUME NEW mode, NEW chat \in Seq(ChatMessages), NEW said \in ChatMessages, NEW texts,
         Keeps(mode, said, texts)
  PROVE  Replayed(mode, Append(chat, said), texts)
<1>1. PICK n \in Nat : n = Len(chat)
  OBVIOUS
<1> DEFINE new == Append(chat, said)
<1>2. n + 1 \in DOMAIN new /\ new[n + 1] = said
  BY <1>1
<1> HIDE DEF new
<1>3. Replayed(mode, new, texts)
  BY <1>2 DEF Replayed, Keeps
<1>4. QED
  BY <1>3 DEF new

\* What is replayed stays so.
LEMMA ReplayedOn ==
  ASSUME NEW mode, NEW chat, NEW new, Continues(new, chat), NEW texts, Replayed(mode, chat, texts)
  PROVE  Replayed(mode, new, texts)
<1>1. PICK n, k \in Nat :
        /\ DOMAIN chat = 1 .. n /\ DOMAIN new = 1 .. n + k
        /\ \A i \in 1 .. n : ToSet(chat[i].reasoning) \subseteq ToSet(new[i].reasoning)
  BY DEF Continues
<1>2. \A i \in 1 .. n : i \in 1 .. n + k
  BY <1>1
<1>3. QED
  BY <1>1, <1>2 DEF Replayed

\* A flush adds at most a remark.
LEMMA FlushesIs ==
  ASSUME NEW mode, NEW chat \in Seq(ChatMessages), NEW new, NEW held,
         Flushes(mode, new, chat, held)
  PROVE  /\ new \in Seq(ChatMessages) /\ Continues(new, chat)
         /\ held = NoReasoning => new = chat
         /\ Replayed(mode, new, held.texts)
         /\ \A m \in DOMAIN new : new[m].calls # <<>> => m \in DOMAIN chat
         /\ \A history, K : K \in SUBSET Nat /\ Distinct(history, K) /\ Tells(chat, history, K) =>
               Tells(new, history, K)
<1>1. CASE held = NoReasoning
  <2>1. new = chat
    BY <1>1 DEF Flushes
  <2>2. Replayed(mode, new, held.texts)
    <3>1. held.texts = <<>>
      BY <1>1 DEF NoReasoning
    <3>2. ToSet(<<>>) = {}
      BY DEF ToSet
    <3>3. QED
      BY <3>1, <3>2 DEF Replayed
  <2>3. Continues(chat, chat)
    BY ContinuesItself
  <2>4. QED
    BY <2>1, <2>2, <2>3
<1>2. CASE held # NoReasoning
  <2>1. PICK said : /\ Remark(said) /\ Keeps(mode, said, held.texts)
                    /\ new = Append(chat, said)
    BY <1>2 DEF Flushes
  <2>2. said \in ChatMessages /\ said.calls = <<>>
    BY <2>1 DEF Remark
  <2>3. new \in Seq(ChatMessages)
    BY <2>1, <2>2
  <2>4. Continues(new, chat)
    BY <2>1, <2>2, ContinuesAppended
  <2>5. Replayed(mode, new, held.texts)
    BY <2>1, <2>2, SaidIsReplayed
  <2>6. ASSUME NEW m \in DOMAIN new, new[m].calls # <<>>
        PROVE  m \in DOMAIN chat
    <3>1. PICK n \in Nat : n = Len(chat) /\ DOMAIN chat = 1 .. n
      OBVIOUS
    <3>2. new[n + 1] = said /\ DOMAIN new = 1 .. n + 1
      BY <2>1, <2>2, <3>1
    <3>3. m # n + 1
      BY <2>2, <2>6, <3>2
    <3>4. QED
      BY <2>6, <3>1, <3>2, <3>3
  <2>7. ASSUME NEW history, NEW K, K \in SUBSET Nat, Distinct(history, K),
               Tells(chat, history, K)
        PROVE  Tells(new, history, K)
    BY <2>1, <2>7, RemarkTells
  <2>8. QED
    BY <1>2, <2>3, <2>4, <2>5, <2>6, <2>7
<1>3. QED
  BY <1>1, <1>2

-----------------------------------------------------------------------------
(* A call joins a message.                                                 *)

\* A call that joins a message of calls makes one of it.
LEMMA CallJoins ==
  ASSUME NEW message \in Messages, message.role = "assistant", ~ message.plain,
         CallBlocks(message.blocks), NoneAmong(message.blocks),
         NEW held \in HeldReasoning, NEW id \in Nat
  PROVE  LET more == [WithReasoning(message, held) EXCEPT !.blocks = Append(@, Piece("call", id))]
         IN  /\ CallsOnly(more) /\ more.reasoning = message.reasoning \o held.texts
             /\ OfKind("call", more.blocks) =
                   Append(OfKind("call", message.blocks), Piece("call", id))
<1> DEFINE with == WithReasoning(message, held)
           call == Piece("call", id)
           blocks == with.blocks
           more == [with EXCEPT !.blocks = Append(blocks, call)]
<1>1. /\ with \in Messages /\ with.role = "assistant" /\ ~ with.plain
      /\ with.reasoning = message.reasoning \o held.texts
      /\ CallBlocks(blocks) /\ NoneAmong(blocks)
      /\ OfKind("call", blocks) = OfKind("call", message.blocks)
  <2>1. /\ with \in Messages /\ with.role = message.role /\ with.plain = message.plain
        /\ with.reasoning = message.reasoning \o held.texts
        /\ CallBlocks(message.blocks) => CallBlocks(with.blocks)
        /\ NoneAmong(message.blocks) => NoneAmong(with.blocks)
        /\ OfKind("call", with.blocks) = OfKind("call", message.blocks)
    BY WithReasoningIs
  <2> HIDE DEF with
  <2>2. QED
    BY <2>1
<1>2. call \in Blocks /\ call.kind = "call"
  BY DEF Piece, Blocks
<1>3. blocks \in Seq(Blocks)
  BY <1>1 DEF Messages
<1>4. Append(blocks, call) \in Seq(Blocks)
  BY <1>2, <1>3
<1>5. /\ more \in Messages /\ more.role = "assistant" /\ ~ more.plain
      /\ more.blocks = Append(blocks, call)
      /\ more.reasoning = message.reasoning \o held.texts
  <2> HIDE DEF with, call
  <2>1. QED
    BY <1>1, <1>4 DEF Messages
<1>6. OfKind("call", Append(blocks, call)) = Append(OfKind("call", message.blocks), call)
  BY <1>1, <1>2, <1>3, OfKindMore
<1>7. PICK n \in Nat : /\ DOMAIN blocks = 1 .. n
                       /\ DOMAIN Append(blocks, call) = 1 .. n + 1
                       /\ Append(blocks, call)[n + 1] = call
                       /\ \A b \in 1 .. n : Append(blocks, call)[b] = blocks[b]
  <2> HIDE DEF blocks, call
  <2>1. PICK n \in Nat : n = Len(blocks)
    BY <1>3
  <2>2. QED
    BY <1>2, <1>3, <2>1
<1> DEFINE all == Append(blocks, call)
<1> HIDE DEF blocks, call, all, more
<1>8. \A b \in 1 .. n + 1 : b \in 1 .. n \/ b = n + 1
  BY <1>7
<1>9. CallBlocks(all)
  BY <1>1, <1>2, <1>7, <1>8 DEF CallBlocks, all
<1>10. NoneAmong(all)
  <2>1. ASSUME NEW b \in 1 .. n + 1, NEW c \in 1 .. n + 1, all[b].kind # "call", all[c].kind = "call"
        PROVE  b < c
    <3>1. b \in 1 .. n /\ all[b] = blocks[b]
      BY <1>2, <1>7, <1>8, <2>1 DEF all
    <3>2. CASE c = n + 1
      BY <3>1, <3>2
    <3>3. CASE c \in 1 .. n
      BY <1>1, <1>7, <2>1, <3>1, <3>3 DEF all, NoneAmong
    <3>4. QED
      BY <1>8, <3>2, <3>3
  <2>2. QED
    BY <1>7, <2>1 DEF NoneAmong, all
<1>11. IsCallMessage(more)
  <2>1. n + 1 \in DOMAIN all /\ all[n + 1].kind = "call"
    BY <1>2, <1>7 DEF all
  <2>2. QED
    BY <1>5, <1>9, <2>1 DEF IsCallMessage, CallBlocks, all
<1>12. CallsOnly(more)
  BY <1>5, <1>10, <1>11 DEF CallsOnly, all
<1>13. QED
  BY <1>5, <1>6, <1>12 DEF more, all, blocks, call

\* What a message of calls says.
SaysCalls(said, ids, mode, reasoning) ==
    /\ said \in ChatMessages /\ said.role = "assistant" /\ said.text = <<>>
    /\ said.answers = 0 /\ said.calls = ids /\ ids # <<>>
    /\ said.reasoning = IF mode = "disabled" THEN <<>> ELSE reasoning

\* A call that follows no other is said in a message of its own.
LEMMA NewCallConverts ==
  ASSUME NEW mode, NEW asked, NEW state, Converts(mode, asked, state),
         NEW held \in HeldReasoning, NEW id \in Nat
  PROVE  LET message == [WithReasoning(RequestMessage("assistant", FALSE, <<>>, <<>>), held)
                            EXCEPT !.blocks = Append(@, Piece("call", id))]
         IN  /\ CallsOnly(message)
             /\ \E said : /\ SaysCalls(said, <<id>>, mode, held.texts)
                          /\ Converts(mode, Append(asked, message), Extended(state, said))
<1> DEFINE empty == RequestMessage("assistant", FALSE, <<>>, <<>>)
           message == [WithReasoning(empty, held) EXCEPT !.blocks = Append(@, Piece("call", id))]
           said == CallChat(mode, message)
<1>1. asked \in Seq(Messages) /\ Conversion(mode, asked) = state /\ Undeferred(state)
  BY DEF Converts
<1>2. /\ empty \in Messages /\ empty.role = "assistant" /\ ~ empty.plain
      /\ empty.blocks = <<>> /\ empty.reasoning = <<>>
  BY DEF RequestMessage, Messages
<1>3. CallBlocks(<<>>) /\ NoneAmong(<<>>)
  BY DEF CallBlocks, NoneAmong
<1>4. /\ CallsOnly(message) /\ message.reasoning = <<>> \o held.texts
      /\ OfKind("call", message.blocks) = Append(OfKind("call", <<>>), Piece("call", id))
  <2> HIDE DEF empty
  <2>1. QED
    BY <1>2, <1>3, CallJoins
<1> HIDE DEF message
<1>5. Piece("call", id) \in Blocks /\ Piece("call", id).id = id
  BY DEF Piece, Blocks
<1>6. OfKind("call", <<>>) = <<>>
  <2>1. <<>> \in Seq(Blocks) /\ DOMAIN <<>> = {}
    OBVIOUS
  <2>2. QED
    BY <2>1, NoneOfKind
<1>7. OfKind("call", message.blocks) = <<Piece("call", id)>>
  <2> DEFINE call == Piece("call", id)
  <2> HIDE DEF call
  <2>1. Append(<<>>, call) = <<call>>
    OBVIOUS
  <2>2. QED
    BY <1>4, <1>6, <2>1 DEF call
<1>8. Ids(<<Piece("call", id)>>) = <<id>>
  <2> DEFINE call == Piece("call", id)
             ids == Ids(<<call>>)
  <2>1. <<call>> \in Seq(Blocks) /\ DOMAIN <<call>> = {1} /\ <<call>>[1] = call /\ call.id = id
    BY <1>5
  <2> HIDE DEF call
  <2>2. ids \in Seq(Nat) /\ DOMAIN ids = {1} /\ ids[1] = id
    BY <2>1, IdsAre
  <2> HIDE DEF ids
  <2>3. Len(ids) = 1
    BY <2>2
  <2>4. ids = <<id>>
    BY <2>2, <2>3
  <2>5. QED
    BY <2>4 DEF ids, call
<1>9. held.texts \in Seq(Nat)
  BY DEF HeldReasoning
<1>10. message.reasoning = held.texts
  BY <1>4, <1>9, ConcatEmptySeq
<1>11. /\ Converted(mode, state, message) =
            [chat |-> Append(Joined(mode, state).chat, said), pending |-> NoneDeferred]
       /\ said \in ChatMessages /\ said.role = "assistant" /\ said.answers = 0
       /\ said.calls = Ids(OfKind("call", message.blocks)) /\ said.calls # <<>>
       /\ said.text = <<>>
       /\ said.reasoning = IF mode = "disabled" THEN <<>> ELSE message.reasoning
  BY <1>1, <1>4, CallsOnlyConvert DEF Undeferred
<1> HIDE DEF said
<1>12. Joined(mode, state) = state /\ Undeferred(Extended(state, said))
  BY <1>1, <1>11, UndeferredIs
<1>13. Converted(mode, state, message) = Extended(state, said)
  BY <1>11, <1>12 DEF Extended
<1>14. message \in Messages
  BY <1>4 DEF CallsOnly
<1>15. Conversion(mode, Append(asked, message)) = Converted(mode, state, message)
  BY <1>1, <1>14, ConversionIs
<1>16. Append(asked, message) \in Seq(Messages)
  BY <1>1, <1>14
<1>17. Converts(mode, Append(asked, message), Extended(state, said))
  BY <1>12, <1>13, <1>15, <1>16 DEF Converts
<1>18. SaysCalls(said, <<id>>, mode, held.texts)
  BY <1>7, <1>8, <1>10, <1>11 DEF SaysCalls
<1>19. QED
  BY <1>4, <1>17, <1>18 DEF message, empty

\* The last message of calls changes: what it said before and what it says then.
LastConverts(mode, asked, message, state, front, old, said) ==
    /\ front \in Seq(ChatMessages) /\ state.chat = Append(front, old)
    /\ Converts(mode, Append(Front(asked), message),
                [chat |-> Append(front, said), pending |-> NoneDeferred])

\* A message of calls that takes the place of the last one.
LEMMA LastCallsConvert ==
  ASSUME NEW mode, NEW asked, NEW state, Converts(mode, asked, state), asked # <<>>,
         CallsOnly(Last(asked)), NEW message, CallsOnly(message)
  PROVE  LET last == Last(asked)
         IN  \E front, old, said :
                /\ LastConverts(mode, asked, message, state, front, old, said)
                /\ SaysCalls(old, Ids(OfKind("call", last.blocks)), mode, last.reasoning)
                /\ SaysCalls(said, Ids(OfKind("call", message.blocks)), mode, message.reasoning)
<1> DEFINE last == Last(asked)
           before == Conversion(mode, Front(asked))
           front == Joined(mode, before).chat
           old == CallChat(mode, last)
           said == CallChat(mode, message)
<1>1. asked \in Seq(Messages) /\ Conversion(mode, asked) = state
  BY DEF Converts
<1>2. message \in Messages
  BY DEF CallsOnly
<1>3. /\ before \in States
      /\ Append(Front(asked), message) \in Seq(Messages)
      /\ Conversion(mode, Append(Front(asked), message)) = Converted(mode, before, message)
      /\ state = Converted(mode, before, last)
  BY <1>1, <1>2, LastMessage
<1>4. CallsOnly(last)
  OBVIOUS
<1> HIDE DEF last, before
<1>5. /\ Converted(mode, before, last) =
            [chat |-> Append(front, old), pending |-> NoneDeferred]
      /\ front \in Seq(ChatMessages)
      /\ old \in ChatMessages /\ old.role = "assistant" /\ old.answers = 0
      /\ old.calls = Ids(OfKind("call", last.blocks)) /\ old.calls # <<>>
      /\ old.text = <<>>
      /\ old.reasoning = IF mode = "disabled" THEN <<>> ELSE last.reasoning
  BY <1>3, <1>4, CallsOnlyConvert
<1>6. /\ Converted(mode, before, message) =
            [chat |-> Append(front, said), pending |-> NoneDeferred]
      /\ said \in ChatMessages /\ said.role = "assistant" /\ said.answers = 0
      /\ said.calls = Ids(OfKind("call", message.blocks)) /\ said.calls # <<>>
      /\ said.text = <<>>
      /\ said.reasoning = IF mode = "disabled" THEN <<>> ELSE message.reasoning
  BY <1>3, CallsOnlyConvert
<1> HIDE DEF front, old, said
<1>7. /\ SaysCalls(old, Ids(OfKind("call", last.blocks)), mode, last.reasoning)
      /\ SaysCalls(said, Ids(OfKind("call", message.blocks)), mode, message.reasoning)
  BY <1>5, <1>6 DEF SaysCalls
<1>8. Undeferred([chat |-> Append(front, said), pending |-> NoneDeferred])
  <2>1. Append(front, said) \in Seq(ChatMessages)
    BY <1>5, <1>6
  <2>2. NoneDeferred \in [awaited : SUBSET Nat, blocks : Seq(Blocks), reasoning : Seq(Nat)]
    BY DEF NoneDeferred
  <2>3. QED
    BY <2>1, <2>2 DEF Undeferred, States
<1>9. LastConverts(mode, asked, message, state, front, old, said)
  BY <1>3, <1>5, <1>6, <1>8 DEF LastConverts, Converts
<1>10. QED
  BY <1>7, <1>9 DEF last

\* One message of calls says more than another.
SaysMore(said, old) ==
    /\ old \in ChatMessages /\ said \in ChatMessages
    /\ said.answers = old.answers /\ old.answers = 0
    /\ ToSet(old.calls) \subseteq ToSet(said.calls) /\ old.calls # <<>> /\ said.calls # <<>>
    /\ ToSet(old.reasoning) \subseteq ToSet(said.reasoning)

\* The members of two sequences are in their concatenation.
LEMMA ToSetConcat ==
  ASSUME NEW E, NEW a \in Seq(E), NEW b \in Seq(E)
  PROVE  ToSet(a) \subseteq ToSet(a \o b) /\ ToSet(b) \subseteq ToSet(a \o b)
<1>1. PICK m, n \in Nat : m = Len(a) /\ n = Len(b) /\ DOMAIN a = 1 .. m /\ DOMAIN b = 1 .. n
  OBVIOUS
<1> DEFINE c == a \o b
<1>2. /\ DOMAIN c = 1 .. m + n
      /\ \A i \in 1 .. m : c[i] = a[i]
      /\ \A i \in 1 .. n : c[m + i] = b[i]
  BY <1>1
<1> HIDE DEF c
<1>3. ASSUME NEW i \in 1 .. m
      PROVE  a[i] \in ToSet(c)
  BY <1>1, <1>2, <1>3 DEF ToSet
<1>4. ASSUME NEW i \in 1 .. n
      PROVE  b[i] \in ToSet(c)
  <2>1. m + i \in 1 .. m + n
    BY <1>1, <1>4
  <2>2. QED
    BY <1>2, <2>1 DEF ToSet
<1>5. QED
  BY <1>1, <1>3, <1>4 DEF ToSet, c

\* A message of calls with the reasoning that was held: its calls are the same.
LEMMA CallsAreReasoned ==
  ASSUME NEW mode, NEW asked, NEW state, Converts(mode, asked, state), asked # <<>>,
         CallsOnly(Last(asked)), NEW held \in HeldReasoning
  PROVE  \E front, old, said :
            /\ LastConverts(mode, asked, WithReasoning(Last(asked), held), state, front, old, said)
            /\ SaysMore(said, old) /\ Told(said) = Told(old) /\ said.calls = old.calls
            /\ Keeps(mode, said, held.texts)
<1> DEFINE last == Last(asked)
           message == WithReasoning(last, held)
<1>1. /\ last \in Messages /\ IsCallMessage(last) /\ NoneAmong(last.blocks)
      /\ last.role = "assistant" /\ ~ last.plain /\ CallBlocks(last.blocks)
      /\ \E b \in DOMAIN last.blocks : last.blocks[b].kind = "call"
  BY DEF CallsOnly, IsCallMessage, CallBlocks
<1> HIDE DEF last
<1>2. /\ message \in Messages /\ message.role = last.role /\ message.plain = last.plain
      /\ message.blocks = Opaque(held) \o last.blocks
      /\ message.reasoning = last.reasoning \o held.texts
      /\ CallBlocks(last.blocks) => CallBlocks(message.blocks)
      /\ NoneAmong(last.blocks) => NoneAmong(message.blocks)
      /\ OfKind("call", message.blocks) = OfKind("call", last.blocks)
  BY <1>1, WithReasoningIs
<1> HIDE DEF message
<1>3. \E b \in DOMAIN message.blocks : message.blocks[b].kind = "call"
  <2>1. Opaque(held) \in Seq(Blocks) /\ last.blocks \in Seq(Blocks)
    BY <1>1, OpaqueIs DEF Messages
  <2>2. PICK b \in DOMAIN last.blocks : last.blocks[b].kind = "call"
    BY <1>1
  <2> DEFINE front == Opaque(held)
             blocks == last.blocks
  <2>3. b + Len(front) \in DOMAIN (front \o blocks) /\ (front \o blocks)[b + Len(front)] = blocks[b]
    <3> HIDE DEF front, blocks
    <3>1. QED
      BY <2>1, <2>2 DEF front, blocks
  <2>4. QED
    BY <1>2, <2>2, <2>3
<1>4. CallsOnly(message)
  BY <1>1, <1>2, <1>3 DEF CallsOnly, IsCallMessage, CallBlocks
<1>5. PICK front, old, said :
         /\ LastConverts(mode, asked, message, state, front, old, said)
         /\ SaysCalls(old, Ids(OfKind("call", last.blocks)), mode, last.reasoning)
         /\ SaysCalls(said, Ids(OfKind("call", message.blocks)), mode, message.reasoning)
  BY <1>4, LastCallsConvert DEF last
<1>6. last.reasoning \in Seq(Nat) /\ held.texts \in Seq(Nat)
  BY <1>1 DEF Messages, HeldReasoning
<1>7. /\ ToSet(last.reasoning) \subseteq ToSet(message.reasoning)
      /\ ToSet(held.texts) \subseteq ToSet(message.reasoning)
  BY <1>2, <1>6, ToSetConcat
<1>8. /\ old \in ChatMessages /\ said \in ChatMessages
      /\ old.role = "assistant" /\ old.text = <<>> /\ old.answers = 0 /\ old.calls # <<>>
      /\ said.role = "assistant" /\ said.text = <<>> /\ said.answers = 0
      /\ said.calls = old.calls
      /\ said.reasoning = IF mode = "disabled" THEN <<>> ELSE message.reasoning
      /\ old.reasoning = IF mode = "disabled" THEN <<>> ELSE last.reasoning
  BY <1>2, <1>5 DEF SaysCalls
<1>9. Told(said) = Told(old)
  BY <1>8, ToldCalls
<1>10. Keeps(mode, said, held.texts) /\ ToSet(old.reasoning) \subseteq ToSet(said.reasoning)
  BY <1>7, <1>8 DEF Keeps
<1>11. SaysMore(said, old)
  BY <1>8, <1>10 DEF SaysMore
<1>12. QED
  BY <1>5, <1>8, <1>9, <1>10, <1>11 DEF message, last

\* A call that follows others is said with them.
LEMMA NextCallConverts ==
  ASSUME NEW mode, NEW asked, NEW state, Converts(mode, asked, state), asked # <<>>,
         CallsOnly(Last(asked)), NEW held \in HeldReasoning, NEW id \in Nat
  PROVE  LET message == [WithReasoning(Last(asked), held) EXCEPT !.blocks = Append(@, Piece("call", id))]
         IN  /\ CallsOnly(message)
             /\ \E front, old, said :
                   /\ LastConverts(mode, asked, message, state, front, old, said)
                   /\ SaysMore(said, old) /\ OneMore(Told(said), Told(old), Piece("call", id))
                   /\ ToSet(said.calls) = ToSet(old.calls) \cup {id}
                   /\ Keeps(mode, said, held.texts)
<1> DEFINE last == Last(asked)
           message == [WithReasoning(last, held) EXCEPT !.blocks = Append(@, Piece("call", id))]
           ids == Ids(OfKind("call", last.blocks))
<1>1. /\ last \in Messages /\ NoneAmong(last.blocks) /\ CallsOnly(last)
      /\ last.role = "assistant" /\ ~ last.plain /\ CallBlocks(last.blocks)
  BY DEF CallsOnly, IsCallMessage, CallBlocks
<1> HIDE DEF last
<1>2. /\ CallsOnly(message) /\ message.reasoning = last.reasoning \o held.texts
      /\ OfKind("call", message.blocks) = Append(OfKind("call", last.blocks), Piece("call", id))
  BY <1>1, CallJoins
<1> HIDE DEF message
<1>3. PICK front, old, said :
         /\ LastConverts(mode, asked, message, state, front, old, said)
         /\ SaysCalls(old, ids, mode, last.reasoning)
         /\ SaysCalls(said, Ids(OfKind("call", message.blocks)), mode, message.reasoning)
  BY <1>2, LastCallsConvert DEF last
<1>4. last.reasoning \in Seq(Nat) /\ held.texts \in Seq(Nat) /\ last.blocks \in Seq(Blocks)
  BY <1>1 DEF Messages, HeldReasoning
<1>5. /\ ToSet(last.reasoning) \subseteq ToSet(message.reasoning)
      /\ ToSet(held.texts) \subseteq ToSet(message.reasoning)
  BY <1>2, <1>4, ToSetConcat
<1>6. Piece("call", id) \in Blocks /\ Piece("call", id).id = id
  BY DEF Piece, Blocks
<1>7. /\ ids \in Seq(Nat) /\ Ids(OfKind("call", message.blocks)) = Append(ids, id)
  <2> DEFINE blocks == OfKind("call", last.blocks)
             call == Piece("call", id)
  <2>1. blocks \in Seq(Blocks) /\ call \in Blocks /\ call.id = id
    BY <1>4, <1>6, OfKindIs
  <2> HIDE DEF blocks, call
  <2>2. PICK n \in Nat : n = Len(blocks) /\ DOMAIN blocks = 1 .. n
    BY <2>1
  <2>3. /\ Append(blocks, call) \in Seq(Blocks) /\ DOMAIN Append(blocks, call) = 1 .. n + 1
        /\ Append(blocks, call)[n + 1] = call /\ Len(Append(blocks, call)) = n + 1
        /\ \A i \in 1 .. n : Append(blocks, call)[i] = blocks[i]
    BY <2>1, <2>2
  <2> DEFINE a == Ids(blocks)
             b == Ids(Append(blocks, call))
  <2>4. /\ a \in Seq(Nat) /\ DOMAIN a = 1 .. n /\ Len(a) = n
        /\ \A i \in 1 .. n : a[i] = blocks[i].id
    BY <2>1, <2>2, IdsAre
  <2>5. /\ b \in Seq(Nat) /\ DOMAIN b = 1 .. n + 1 /\ Len(b) = n + 1
        /\ \A i \in 1 .. n + 1 : b[i] = Append(blocks, call)[i].id
    BY <2>3, IdsAre
  <2> HIDE DEF a, b
  <2>6. b[n + 1] = id /\ \A i \in 1 .. n : b[i] = a[i]
    <3>1. n + 1 \in 1 .. n + 1
      BY <2>2
    <3>2. b[n + 1] = Append(blocks, call)[n + 1].id
      BY <2>5, <3>1
    <3>3. ASSUME NEW i \in 1 .. n
          PROVE  b[i] = a[i]
      <4>1. i \in 1 .. n + 1
        BY <2>2
      <4>2. b[i] = Append(blocks, call)[i].id
        BY <2>5, <4>1
      <4>3. Append(blocks, call)[i] = blocks[i] /\ a[i] = blocks[i].id
        BY <2>3, <2>4
      <4>4. QED
        BY <4>2, <4>3
    <3>4. QED
      BY <2>1, <2>3, <3>2, <3>3
  <2>7. b = Append(a, id)
    BY <2>2, <2>4, <2>5, <2>6
  <2>8. QED
    BY <1>2, <2>4, <2>7 DEF a, b, blocks, call
<1> HIDE DEF ids
<1>8. /\ old \in ChatMessages /\ said \in ChatMessages
      /\ old.role = "assistant" /\ old.text = <<>> /\ old.answers = 0 /\ old.calls # <<>>
      /\ said.role = "assistant" /\ said.text = <<>> /\ said.answers = 0
      /\ old.calls = ids /\ said.calls = Append(ids, id) /\ said.calls # <<>>
      /\ said.reasoning = IF mode = "disabled" THEN <<>> ELSE message.reasoning
      /\ old.reasoning = IF mode = "disabled" THEN <<>> ELSE last.reasoning
  BY <1>3, <1>7 DEF SaysCalls
<1>9. PICK n \in Nat : /\ n = Len(ids) /\ DOMAIN ids = 1 .. n /\ DOMAIN Append(ids, id) = 1 .. n + 1
                       /\ Append(ids, id)[n + 1] = id
                       /\ \A i \in 1 .. n : Append(ids, id)[i] = ids[i]
  BY <1>7
<1>10. ToSet(Append(ids, id)) = ToSet(ids) \cup {id}
  <2> DEFINE more == Append(ids, id)
  <2> HIDE DEF more
  <2>1. /\ DOMAIN more = 1 .. n + 1 /\ more[n + 1] = id
        /\ \A i \in 1 .. n : more[i] = ids[i]
    BY <1>9 DEF more
  <2>2. \A i \in 1 .. n + 1 : i \in 1 .. n \/ i = n + 1
    BY <1>9
  <2>3. ToSet(more) \subseteq ToSet(ids) \cup {id}
    BY <1>9, <2>1, <2>2 DEF ToSet
  <2>4. \A i \in 1 .. n : i \in 1 .. n + 1
    BY <1>9
  <2>5. n + 1 \in 1 .. n + 1
    BY <1>9
  <2>6. ToSet(ids) \subseteq ToSet(more) /\ id \in ToSet(more)
    BY <1>9, <2>1, <2>4, <2>5 DEF ToSet
  <2>7. QED
    BY <2>3, <2>6 DEF more
<1>11. OneMore(Told(said), Told(old), Piece("call", id))
  <2>1. /\ Told(said) = [c \in DOMAIN said.calls |-> Piece("call", said.calls[c])]
        /\ Told(said) \in Seq(Blocks)
    BY <1>8, ToldCalls
  <2>2. /\ Told(old) = [c \in DOMAIN old.calls |-> Piece("call", old.calls[c])]
        /\ Told(old) \in Seq(Blocks)
    BY <1>8, ToldCalls
  <2>3. DOMAIN Told(said) = 1 .. n + 1 /\ DOMAIN Told(old) = 1 .. n
    BY <1>8, <1>9, <2>1, <2>2
  <2>4. Len(Told(said)) = n + 1 /\ Len(Told(old)) = n
    BY <1>9, <2>1, <2>2, <2>3
  <2>5. Told(said)[n + 1] = Piece("call", id)
    BY <1>8, <1>9, <2>1
  <2>6. \A i \in 1 .. n : Told(said)[i] = Told(old)[i]
    BY <1>8, <1>9, <2>1, <2>2
  <2>7. QED
    BY <2>4, <2>5, <2>6, Zenon DEF OneMore
<1>12. Keeps(mode, said, held.texts) /\ ToSet(old.reasoning) \subseteq ToSet(said.reasoning)
  BY <1>5, <1>8 DEF Keeps
<1>13. SaysMore(said, old) /\ ToSet(said.calls) = ToSet(old.calls) \cup {id}
  BY <1>8, <1>10, <1>12 DEF SaysMore
<1>14. QED
  BY <1>2, <1>3, <1>11, <1>12, <1>13 DEF message, last

-----------------------------------------------------------------------------
(* The history of a Responses client, one piece more.                      *)

\* Each item makes a next history.
LEMMA HistoryGoesOn ==
  ASSUME NEW history \in Seq(Blocks), NEW piece \in Blocks, NEW open, NEW bad,
         IsHistory(history, open, bad),
         piece.kind # "result" => piece.id = Len(history) + 1,
         piece.kind = "result" => piece.id \in open,
         NEW openThen, openThen \subseteq open \cup {Len(history) + 1},
         Len(history) + 1 \in openThen => piece.kind \in {"call", "badCall"},
         piece.kind = "result" => piece.id \notin openThen,
         NEW badThen, badThen = IF piece.kind = "badCall" THEN bad \cup {Len(history) + 1} ELSE bad
  PROVE  NextHistory(Append(history, piece), openThen, badThen, history, open, piece)
<1> DEFINE n == Len(history)
           later == Append(history, piece)
<1>1. DOMAIN <<piece>> = {1} /\ <<piece>>[1] = piece /\ n \in Nat /\ DOMAIN history = 1 .. n
  OBVIOUS
<1>2. Fitting(history, open, <<piece>>)
  BY <1>1 DEF Fitting
<1>3. open \subseteq 1 .. n
  BY <1>1 DEF IsHistory
<1>4. OpenAfter(history, open, <<piece>>, openThen)
  <2>1. ASSUME NEW p \in openThen
        PROVE  \/ p \in open /\ \A i \in DOMAIN <<piece>> : <<piece>>[i].kind = "result" => <<piece>>[i].id # p
               \/ \E i \in DOMAIN <<piece>> : p = n + i /\ <<piece>>[i].kind \in {"call", "badCall"}
    <3>1. CASE p = n + 1
      <4>1. piece.kind \in {"call", "badCall"}
        BY <2>1, <3>1
      <4>2. 1 \in DOMAIN <<piece>> /\ p = n + 1 /\ <<piece>>[1].kind \in {"call", "badCall"}
        BY <1>1, <3>1, <4>1
      <4>3. QED
        BY <4>2
    <3>2. CASE p \in open
      <4>1. piece.kind = "result" => piece.id # p
        BY <2>1
      <4>2. \A i \in DOMAIN <<piece>> : <<piece>>[i].kind = "result" => <<piece>>[i].id # p
        BY <1>1, <4>1
      <4>3. QED
        BY <3>2, <4>2
    <3>3. QED
      BY <2>1, <3>1, <3>2
  <2>2. QED
    BY <2>1 DEF OpenAfter
<1>5. BadAfter(history, bad, <<piece>>) = badThen
  <2> DEFINE new == {p \in Nat : \E i \in DOMAIN <<piece>> : p = n + i /\ <<piece>>[i].kind = "badCall"}
  <2>1. new = IF piece.kind = "badCall" THEN {n + 1} ELSE {}
    <3>1. \A p : p \in new <=> p = n + 1 /\ piece.kind = "badCall"
      BY <1>1
    <3> HIDE DEF new
    <3>2. QED
      BY <3>1
  <2>2. BadAfter(history, bad, <<piece>>) = bad \cup new
    BY DEF BadAfter
  <2> HIDE DEF new
  <2>3. QED
    BY <2>1, <2>2
<1>6. GrowsBy(later, history, <<piece>>)
  BY AppendGrows
<1>7. IsHistory(later, openThen, badThen)
  BY <1>2, <1>4, <1>5, <1>6, HistoryGrows
<1>8. QED
  BY <1>2, <1>4, <1>7 DEF NextHistory

\* While a call is open, its turn goes on: no prompt, and nothing after a result but results.
OneTurn(history, open) ==
    \A c \in open, q \in DOMAIN history : q > c =>
        /\ history[q].kind \notin {"prompt", "note"}
        /\ history[q].kind = "result" =>
              \A r \in DOMAIN history : r > q => history[r].kind = "result"

Answers(history, open) == open # {} /\ history[Len(history)].kind = "result"

\* After an open call and before the results there is no prompt and no result.
LEMMA TurnGoesOn ==
  ASSUME NEW history \in Seq(Blocks), NEW open \in SUBSET DOMAIN history, OneTurn(history, open),
         ~ Answers(history, open), NEW c \in open, NEW q \in DOMAIN history, q > c
  PROVE  history[q].kind \notin {"prompt", "note", "result"}
<1>1. PICK n \in Nat : n = Len(history) /\ DOMAIN history = 1 .. n
  OBVIOUS
<1>2. history[n].kind # "result"
  BY <1>1 DEF Answers
<1>3. /\ history[q].kind \notin {"prompt", "note"}
      /\ history[q].kind = "result" =>
              \A r \in DOMAIN history : r > q => history[r].kind = "result"
  BY DEF OneTurn
<1>4. SUFFICES ASSUME history[q].kind = "result" PROVE FALSE
  BY <1>3
<1>5. q # n
  BY <1>2, <1>4
<1>6. n > q /\ n \in DOMAIN history
  BY <1>1, <1>5
<1>7. QED
  BY <1>2, <1>3, <1>4, <1>6

\* The open calls stay those of one turn.
LEMMA OneTurnGoesOn ==
  ASSUME NEW later, NEW openThen, NEW badThen, NEW history, NEW open, NEW piece,
         NextHistory(later, openThen, badThen, history, open, piece),
         OneTurn(history, open), openThen \subseteq open \cup {Len(history) + 1},
         piece.kind \in {"prompt", "note"} => openThen = {},
         piece.kind # "result" => ~ Answers(history, open)
  PROVE  OneTurn(later, openThen)
<1> DEFINE n == Len(history)
<1>1. /\ DOMAIN history = 1 .. n /\ DOMAIN later = 1 .. n + 1 /\ n \in Nat
      /\ later[n + 1] = piece /\ \A p \in DOMAIN history : later[p] = history[p]
  BY NextHistoryIs
<1>2. history \in Seq(Blocks) /\ open \in SUBSET DOMAIN history
  BY DEF NextHistory, IsHistory
<1>3. ASSUME NEW c \in openThen, NEW q \in DOMAIN later, q > c
      PROVE  /\ later[q].kind \notin {"prompt", "note"}
             /\ later[q].kind = "result" =>
                   \A r \in DOMAIN later : r > q => later[r].kind = "result"
  <2>1. c \in open
    <3>1. c # n + 1
      BY <1>1, <1>3
    <3>2. QED
      BY <3>1
  <2>2. CASE q = n + 1
    <3>1. later[q].kind \notin {"prompt", "note"}
      BY <1>1, <1>3, <2>2
    <3>2. \A r \in DOMAIN later : ~ (r > q)
      BY <1>1, <2>2
    <3>3. QED
      BY <3>1, <3>2
  <2>3. CASE q # n + 1
    <3>1. q \in DOMAIN history /\ later[q] = history[q]
      BY <1>1, <2>3
    <3>2. /\ history[q].kind \notin {"prompt", "note"}
          /\ history[q].kind = "result" =>
                \A r \in DOMAIN history : r > q => history[r].kind = "result"
      BY <1>3, <2>1, <3>1 DEF OneTurn
    <3>3. ASSUME history[q].kind = "result", NEW r \in DOMAIN later, r > q
          PROVE  later[r].kind = "result"
      <4>1. CASE r = n + 1
        <5>1. Answers(history, open)
          BY <1>2, <1>3, <2>1, <3>1, <3>3, TurnGoesOn
        <5>2. QED
          BY <1>1, <4>1, <5>1
      <4>2. CASE r # n + 1
        BY <1>1, <3>2, <3>3, <4>2
      <4>3. QED
        BY <4>1, <4>2
    <3>4. QED
      BY <3>1, <3>2, <3>3
  <2>4. QED
    BY <2>2, <2>3
<1>4. QED
  BY <1>3 DEF OneTurn

-----------------------------------------------------------------------------
(* Calls and their results.                                                *)

\* The members of a sequence are finitely many.
LEMMA ToSetIsFinite ==
  ASSUME NEW E, NEW s \in Seq(E)
  PROVE  /\ IsFiniteSet(ToSet(s)) /\ Cardinality(ToSet(s)) \in Nat
         /\ s # <<>> => Cardinality(ToSet(s)) > 0
<1>1. PICK n \in Nat : n = Len(s) /\ DOMAIN s = 1 .. n
  OBVIOUS
<1>2. s \in Surjection(1 .. n, ToSet(s))
  <2>1. s \in [1 .. n -> ToSet(s)]
    BY <1>1 DEF ToSet
  <2>2. \A t \in ToSet(s) : \E i \in 1 .. n : s[i] = t
    BY <1>1 DEF ToSet
  <2>3. QED
    BY <2>1, <2>2 DEF Surjection
<1>3. IsFiniteSet(1 .. n)
  BY FS_Interval
<1>4. IsFiniteSet(ToSet(s))
  BY <1>2, <1>3, FS_Surjection
<1>5. Cardinality(ToSet(s)) \in Nat
  BY <1>4, FS_CardinalityType
<1>6. s # <<>> => ToSet(s) # {}
  BY <1>1 DEF ToSet
<1>7. Cardinality(ToSet(s)) = 0 <=> ToSet(s) = {}
  BY <1>4, FS_EmptySet
<1>8. QED
  BY <1>4, <1>5, <1>6, <1>7

\* The members of a concatenation, by their places.
LEMMA ConcatIs ==
  ASSUME NEW E, NEW a \in Seq(E), NEW b \in Seq(E)
  PROVE  /\ a \o b \in Seq(E) /\ Len(a \o b) = Len(a) + Len(b)
         /\ DOMAIN (a \o b) = 1 .. Len(a) + Len(b)
         /\ Len(a) \in Nat /\ Len(b) \in Nat
         /\ \A i \in 1 .. Len(a) : (a \o b)[i] = a[i]
         /\ \A i \in 1 .. Len(b) : (a \o b)[Len(a) + i] = b[i]
OBVIOUS

\* The calls of a chat are calls of the history.
LEMMA CallsAreTold ==
  ASSUME NEW chat \in Seq(ChatMessages), NEW history, NEW open, NEW bad,
         IsHistory(history, open, bad), NEW K, K \subseteq DOMAIN history,
         Tells(chat, history, K), NEW m \in DOMAIN chat, NEW c \in ToSet(chat[m].calls)
  PROVE  c \in DOMAIN history /\ history[c].kind = "call" /\ c \in Nat /\ c \notin bad
<1> DEFINE message == chat[m]
           text == message.text
           calls == [i \in DOMAIN message.calls |-> Piece("call", message.calls[i])]
           answer == IF message.role = "tool" THEN <<Piece("result", message.answers)>> ELSE <<>>
<1>1. message \in ChatMessages
  OBVIOUS
<1>2. text \in Seq(Blocks) /\ message.calls \in Seq(Nat) /\ message.answers \in Nat
  BY <1>1 DEF ChatMessages
<1>3. PICK i \in DOMAIN message.calls : c = message.calls[i]
  BY DEF ToSet
<1>4. PICK n \in Nat : n = Len(message.calls) /\ DOMAIN message.calls = 1 .. n
  BY <1>2
<1> HIDE DEF message
<1>5. \A j \in 1 .. n : Piece("call", message.calls[j]) \in Blocks
  BY <1>2, <1>4, SMTT(30) DEF Piece, Blocks
<1>6. calls \in Seq(Blocks) /\ DOMAIN calls = 1 .. n /\ Len(calls) = n
  <2>1. calls = [j \in 1 .. n |-> Piece("call", message.calls[j])]
    BY <1>4
  <2> HIDE DEF calls
  <2>2. QED
    BY <1>4, <1>5, <2>1
<1>7. calls[i] = Piece("call", c)
  BY <1>3
<1>8. answer \in Seq(Blocks)
  <2>1. Piece("result", message.answers) \in Blocks
    BY <1>2 DEF Piece, Blocks
  <2> DEFINE result == Piece("result", message.answers)
  <2>2. <<result>> \in Seq(Blocks) /\ <<>> \in Seq(Blocks)
    <3> HIDE DEF result
    <3>1. QED
      BY <2>1 DEF result
  <2>3. QED
    BY <2>2
<1>9. Told(message) = text \o calls \o answer
  BY DEF Told
<1> HIDE DEF text, calls, answer
<1>10. PICK k \in Nat : k = Len(text)
  BY <1>2
<1>11. /\ k + i \in DOMAIN (text \o calls \o answer)
       /\ (text \o calls \o answer)[k + i] = calls[i]
  <2>1. i \in 1 .. n
    BY <1>3, <1>4
  <2>2. text \o calls \in Seq(Blocks) /\ Len(text \o calls) = k + n
    BY <1>2, <1>6, <1>10, ConcatIs
  <2>3. k + i \in 1 .. k + n /\ (text \o calls)[k + i] = calls[i]
    <3>1. k + i \in 1 .. k + n
      BY <2>1
    <3>2. \A x \in 1 .. Len(calls) : (text \o calls)[Len(text) + x] = calls[x]
      BY <1>2, <1>6, ConcatIs
    <3>3. i \in 1 .. Len(calls) /\ Len(text) + i = k + i
      BY <1>6, <1>10, <2>1
    <3>4. QED
      BY <3>1, <3>2, <3>3
  <2>4. PICK l \in Nat : l = Len(answer)
    BY <1>8
  <2>5. DOMAIN (text \o calls \o answer) = 1 .. k + n + l
    <3>1. DOMAIN (text \o calls \o answer) = 1 .. Len(text \o calls) + Len(answer)
      BY <1>8, <2>2, ConcatIs
    <3>2. QED
      BY <2>2, <2>4, <3>1
  <2>6. (text \o calls \o answer)[k + i] = (text \o calls)[k + i]
    BY <1>8, <2>2, <2>3
  <2>7. k + i \in 1 .. k + n + l
    BY <2>1, <2>4
  <2>8. QED
    BY <2>3, <2>5, <2>6, <2>7
<1>12. <<m, k + i>> \in Spots(chat)
  <2>1. k + i \in DOMAIN Told(chat[m])
    BY <1>9, <1>11 DEF message
  <2>2. QED
    BY <2>1 DEF Spots
<1>13. ToldAt(chat, <<m, k + i>>) = Piece("call", c)
  <2>1. ToldAt(chat, <<m, k + i>>) = Told(chat[m])[k + i]
    BY DEF ToldAt
  <2>2. QED
    BY <1>7, <1>9, <1>11, <2>1 DEF message
<1>14. PICK p \in K : ToldAt(chat, <<m, k + i>>) = history[p]
  BY <1>12, Zenon DEF Tells
<1>15. history[p].kind = "call" /\ history[p].id = c
  BY <1>13, <1>14 DEF Piece
<1>16. p = c /\ p \in DOMAIN history
  BY <1>14, <1>15 DEF IsHistory
<1>17. c \notin bad
  BY <1>15, <1>16 DEF IsHistory
<1>18. c \in Nat
  BY <1>2, <1>3 DEF message
<1>19. QED
  BY <1>15, <1>16, <1>17, <1>18

\* The client gave up one of these calls.
GivenUp(calls, history, open) ==
    \E c \in calls : c \in DOMAIN history /\ c \notin open /\ c \notin AnsweredCalls(history)

Settled(who, chat, m, history, open) ==
    \/ GivenUp(ToSet(chat[m].calls), history, open)
    \/ who = "responses" /\ TextAfter(history, ToSet(chat[m].calls))
    \/ TalkedOver(history, ToSet(chat[m].calls))
    \/ ResultsFollow(chat, m)

\* A text behind a call stays behind it.
LEMMA TextAfterLater ==
  ASSUME NEW later, NEW history, NEW added, GrowsBy(later, history, added),
         NEW calls, NEW more, calls \subseteq more, calls \subseteq DOMAIN history,
         TextAfter(history, calls)
  PROVE  TextAfter(later, more)
<1>1. PICK id \in calls : \E p, q \in DOMAIN history :
        /\ p < q /\ history[p].kind = "call" /\ history[q].kind = "text"
        /\ SameTurn(history, p, q) /\ SameTurn(history, p, id)
  BY DEF TextAfter
<1>2. PICK p, q \in DOMAIN history :
        /\ p < q /\ history[p].kind = "call" /\ history[q].kind = "text"
        /\ SameTurn(history, p, q) /\ SameTurn(history, p, id)
  BY <1>1
<1>3. SameTurn(later, p, q) /\ SameTurn(later, p, id)
  BY <1>1, <1>2, SameTurnLater
<1>4. p \in DOMAIN later /\ q \in DOMAIN later /\ later[p] = history[p] /\ later[q] = history[q]
  BY <1>2 DEF GrowsBy
<1>5. QED
  BY <1>1, <1>2, <1>3, <1>4 DEF TextAfter

\* What was said before a result stays before it.
LEMMA TalkedOverLater ==
  ASSUME NEW later, NEW history, NEW added, GrowsBy(later, history, added),
         NEW calls, NEW more, calls \subseteq more, TalkedOver(history, calls)
  PROVE  TalkedOver(later, more)
<1>1. PICK id \in calls, q \in DOMAIN history :
        id < q /\ history[q].kind \in {"prompt", "note"} /\ ~ AnsweredBefore(history, id, q)
  BY DEF TalkedOver
<1>2. q \in DOMAIN later /\ later[q] = history[q]
  BY <1>1 DEF GrowsBy
<1>3. ~ AnsweredBefore(later, id, q)
  BY <1>1, AnsweredLater
<1>4. QED
  BY <1>1, <1>2, <1>3 DEF TalkedOver

\* A call that was given up gets no result later.
LEMMA GivenUpLater ==
  ASSUME NEW later, NEW history, NEW added, GrowsBy(later, history, added),
         NEW open, NEW openThen, Fitting(history, open, added),
         OpenAfter(history, open, added, openThen),
         NEW calls, NEW more, calls \subseteq more, GivenUp(calls, history, open)
  PROVE  GivenUp(more, later, openThen)
<1>1. PICK c \in calls : c \in DOMAIN history /\ c \notin open /\ c \notin AnsweredCalls(history)
  BY DEF GivenUp
<1>2. PICK n, k \in Nat :
        /\ DOMAIN history = 1 .. n /\ DOMAIN added = 1 .. k /\ DOMAIN later = 1 .. n + k
        /\ n = Len(history)
        /\ \A p \in 1 .. n : later[p] = history[p]
        /\ \A i \in 1 .. k : later[n + i] = added[i]
  BY DEF GrowsBy
<1>3. c \in DOMAIN later
  BY <1>1, <1>2
<1>4. c \notin openThen
  <2>1. \A i \in DOMAIN added : c # n + i
    BY <1>1, <1>2
  <2>2. QED
    BY <1>1, <1>2, <2>1 DEF OpenAfter
<1>5. c \notin AnsweredCalls(later)
  <2>1. ASSUME NEW p \in DOMAIN later, later[p].kind = "result", later[p].id = c
        PROVE  FALSE
    <3>1. CASE p \in 1 .. n
      <4>1. history[p].kind = "result" /\ history[p].id = c /\ p \in DOMAIN history
        BY <1>2, <2>1, <3>1
      <4>2. c \in AnsweredCalls(history)
        BY <4>1 DEF AnsweredCalls
      <4>3. QED
        BY <1>1, <4>2
    <3>2. CASE p \notin 1 .. n
      <4>1. p - n \in 1 .. k /\ p = n + (p - n)
        BY <1>2, <3>2
      <4>2. later[p] = added[p - n]
        BY <1>2, <4>1
      <4>3. added[p - n].id \in open
        BY <1>2, <2>1, <4>1, <4>2 DEF Fitting
      <4>4. QED
        BY <1>1, <2>1, <4>2, <4>3
    <3>3. QED
      BY <3>1, <3>2
  <2>2. QED
    BY <2>1 DEF AnsweredCalls
<1>6. QED
  BY <1>1, <1>3, <1>4, <1>5 DEF GivenUp

\* Results that follow a message follow it in every chat that continues.
LEMMA ResultsFollowLater ==
  ASSUME NEW chat \in Seq(ChatMessages), NEW new, Continues(new, chat),
         NEW m \in DOMAIN chat, chat[m].calls # <<>>, ResultsFollow(chat, m)
  PROVE  ResultsFollow(new, m)
<1>1. PICK n, k \in Nat :
        /\ DOMAIN chat = 1 .. n /\ n = Len(chat) /\ n + k = Len(new)
        /\ \A i \in 1 .. n :
              /\ new[i].answers = chat[i].answers
              /\ i < n => new[i].calls = chat[i].calls
  BY DEF Continues
<1> DEFINE calls == ToSet(chat[m].calls)
           c == Cardinality(calls)
<1>2. chat[m].calls \in Seq(Nat)
  <2>1. chat[m] \in ChatMessages
    OBVIOUS
  <2>2. QED
    BY <2>1 DEF ChatMessages
<1>3. c \in Nat /\ c > 0
  BY <1>2, ToSetIsFinite
<1>4. m + c <= n /\ {chat[m + a].answers : a \in 1 .. c} = calls
  BY <1>1 DEF ResultsFollow
<1> HIDE DEF c, calls
<1>5. m \in Nat /\ m < n
  BY <1>1, <1>3, <1>4
<1>6. new[m].calls = chat[m].calls
  BY <1>1, <1>5
<1>7. \A a \in 1 .. c : new[m + a].answers = chat[m + a].answers
  <2>1. TAKE a \in 1 .. c
  <2>2. m + a \in 1 .. n
    BY <1>3, <1>4, <1>5
  <2>3. QED
    BY <1>1, <2>2
<1>8. {new[m + a].answers : a \in 1 .. c} = calls
  BY <1>4, <1>7
<1>9. m + c <= n + k
  BY <1>1, <1>3, <1>4, <1>5
<1>10. ToSet(new[m].calls) = calls /\ Cardinality(ToSet(new[m].calls)) = c
  BY <1>6 DEF calls, c
<1>11. QED
  BY <1>1, <1>8, <1>9, <1>10 DEF ResultsFollow

\* What is settled stays so.
LEMMA SettledLater ==
  ASSUME NEW later, NEW history, NEW added, GrowsBy(later, history, added),
         NEW open, NEW bad, IsHistory(history, open, bad), Fitting(history, open, added),
         NEW openThen, OpenAfter(history, open, added, openThen),
         NEW chat \in Seq(ChatMessages), NEW K, K \subseteq DOMAIN history, Tells(chat, history, K),
         NEW new, Continues(new, chat), NEW who,
         NEW m \in DOMAIN chat, chat[m].calls # <<>>, Settled(who, chat, m, history, open)
  PROVE  Settled(who, new, m, later, openThen)
<1> DEFINE calls == ToSet(chat[m].calls)
           more == ToSet(new[m].calls)
<1>1. calls \subseteq more
  BY DEF Continues
<1>2. calls \subseteq DOMAIN history
  BY CallsAreTold
<1> HIDE DEF calls, more
<1>3. CASE GivenUp(calls, history, open)
  <2>1. GivenUp(more, later, openThen)
    BY <1>1, <1>3, GivenUpLater
  <2>2. QED
    BY <2>1 DEF Settled, more
<1>4. CASE who = "responses" /\ TextAfter(history, calls)
  <2>1. TextAfter(later, more)
    BY <1>1, <1>2, <1>4, TextAfterLater
  <2>2. QED
    BY <1>4, <2>1 DEF Settled, more
<1>5. CASE TalkedOver(history, calls)
  <2>1. TalkedOver(later, more)
    BY <1>1, <1>5, TalkedOverLater
  <2>2. QED
    BY <2>1 DEF Settled, more
<1>6. CASE ResultsFollow(chat, m)
  BY <1>6, ResultsFollowLater DEF Settled
<1>7. QED
  BY <1>3, <1>4, <1>5, <1>6 DEF Settled, calls

\* A message of calls waits for their results: those it has follow it at once, one
\* after another.
Waits(who, chat, m, history, open, bad, held, ends) ==
    LET calls == ToSet(chat[m].calls)
    IN  /\ calls \cap open # {}
        /\ open \ bad \subseteq calls
        /\ {chat[k].answers : k \in m + 1 .. Len(chat)} = calls \ open
        /\ Len(chat) - m + Cardinality(calls \cap open) = Cardinality(calls)
        /\ Len(chat) > m => held = NoReasoning /\ history[Len(history)].kind = "result"
        /\ Len(chat) = m /\ who = "responses" => ends

CallsFollow(who, chat, history, open, bad, held, ends) ==
    \A m \in DOMAIN chat : chat[m].calls # <<>> =>
        \/ Settled(who, chat, m, history, open)
        \/ Waits(who, chat, m, history, open, bad, held, ends)

\* Before the first result the message is the last one.
LEMMA WaitsAtEnd ==
  ASSUME NEW who, NEW chat \in Seq(ChatMessages), NEW m \in DOMAIN chat, NEW history,
         NEW open, NEW bad, NEW held, NEW ends,
         Waits(who, chat, m, history, open, bad, held, ends), ~ Answers(history, open)
  PROVE  /\ m = Len(chat) /\ ToSet(chat[m].calls) \subseteq open
         /\ who = "responses" => ends
<1> DEFINE calls == ToSet(chat[m].calls)
<1>1. PICK n \in Nat : n = Len(chat) /\ DOMAIN chat = 1 .. n
  OBVIOUS
<1>2. /\ calls \cap open # {}
      /\ {chat[k].answers : k \in m + 1 .. n} = calls \ open
      /\ n > m => history[Len(history)].kind = "result"
      /\ n = m /\ who = "responses" => ends
  BY <1>1 DEF Waits
<1> HIDE DEF calls
<1>3. open # {}
  BY <1>2
<1>4. ~ (n > m)
  BY <1>2, <1>3 DEF Answers
<1>5. n = m
  BY <1>1, <1>4
<1>6. calls \subseteq open
  <2>1. m + 1 .. n = {}
    BY <1>1, <1>5
  <2>2. {chat[k].answers : k \in {}} = {}
    OBVIOUS
  <2>3. QED
    BY <1>2, <2>1, <2>2
<1>7. QED
  BY <1>1, <1>2, <1>5, <1>6 DEF calls

\* A piece that is no result and not told, or the result of a call left out.
LEMMA WaitsOn ==
  ASSUME NEW who, NEW chat \in Seq(ChatMessages), NEW m \in DOMAIN chat, NEW history,
         NEW open, NEW bad, NEW held, NEW ends,
         Waits(who, chat, m, history, open, bad, held, ends),
         NEW later, NEW openThen, NEW badThen, NEW heldThen,
         openThen \ badThen \subseteq open \ bad,
         ToSet(chat[m].calls) \cap openThen = ToSet(chat[m].calls) \cap open,
         \/ ~ Answers(history, open)
         \/ later[Len(later)].kind = "result" /\ heldThen = held
  PROVE  Waits(who, chat, m, later, openThen, badThen, heldThen, ends)
<1> DEFINE calls == ToSet(chat[m].calls)
<1>1. /\ calls \cap open # {}
      /\ open \ bad \subseteq calls
      /\ {chat[k].answers : k \in m + 1 .. Len(chat)} = calls \ open
      /\ Len(chat) - m + Cardinality(calls \cap open) = Cardinality(calls)
      /\ Len(chat) > m => held = NoReasoning /\ history[Len(history)].kind = "result"
      /\ Len(chat) = m /\ who = "responses" => ends
  BY DEF Waits
<1>2. calls \cap openThen = calls \cap open
  OBVIOUS
<1> HIDE DEF calls
<1>3. calls \ openThen = calls \ open
  BY <1>2
<1>4. Len(chat) > m => heldThen = NoReasoning /\ later[Len(later)].kind = "result"
  <2>1. CASE ~ Answers(history, open)
    <3>1. m = Len(chat) /\ m \in Nat
      BY <2>1, WaitsAtEnd
    <3>2. QED
      BY <3>1
  <2>2. CASE later[Len(later)].kind = "result" /\ heldThen = held
    BY <1>1, <2>2
  <2>3. QED
    BY <2>1, <2>2
<1>5. openThen \ badThen \subseteq calls
  BY <1>1
<1>6. /\ calls \cap openThen # {}
      /\ {chat[k].answers : k \in m + 1 .. Len(chat)} = calls \ openThen
      /\ Len(chat) - m + Cardinality(calls \cap openThen) = Cardinality(calls)
  BY <1>1, <1>2, <1>3
<1>7. QED
  BY <1>1, <1>4, <1>5, <1>6 DEF Waits, calls

\* A text after the calls.
LEMMA TextSettles ==
  ASSUME NEW later, NEW openThen, NEW badThen, NEW history, NEW open, NEW piece,
         NextHistory(later, openThen, badThen, history, open, piece),
         OneTurn(history, open), ~ Answers(history, open),
         piece.kind = "text", NEW calls, NEW c \in calls, c \in open,
         history[c].kind = "call"
  PROVE  TextAfter(later, calls)
<1> DEFINE n == Len(history)
<1>1. /\ DOMAIN history = 1 .. n /\ DOMAIN later = 1 .. n + 1 /\ n \in Nat
      /\ later[n + 1] = piece /\ \A p \in DOMAIN history : later[p] = history[p]
  BY NextHistoryIs
<1>2. history \in Seq(Blocks) /\ open \in SUBSET DOMAIN history
  BY DEF NextHistory, IsHistory
<1> HIDE DEF n
<1>3. c \in 1 .. n /\ c < n + 1 /\ later[c].kind = "call" /\ later[n + 1].kind = "text"
  BY <1>1, <1>2
<1>4. SameTurn(later, c, n + 1)
  <2>1. ASSUME NEW q \in (c + 1 .. (n + 1) - 1) \cup ((n + 1) + 1 .. c - 1)
        PROVE  later[q].kind \notin {"prompt", "note", "result"}
    <3>1. q \in DOMAIN history /\ q > c
      BY <1>1, <1>3
    <3>2. history[q].kind \notin {"prompt", "note", "result"}
      BY <1>2, <3>1, TurnGoesOn
    <3>3. QED
      BY <1>1, <3>1, <3>2
  <2>2. QED
    BY <2>1 DEF SameTurn
<1>5. SameTurn(later, c, c)
  <2>1. \A q \in (c + 1 .. c - 1) \cup (c + 1 .. c - 1) : FALSE
    BY <1>1, <1>3
  <2>2. QED
    BY <2>1 DEF SameTurn
<1>6. c \in DOMAIN later /\ n + 1 \in DOMAIN later
  BY <1>1, <1>3
<1>7. QED
  BY <1>3, <1>4, <1>5, <1>6 DEF TextAfter

\* The result of one of the calls that are waited for.
LEMMA ResultAnswers ==
  ASSUME NEW who, NEW chat \in Seq(ChatMessages), NEW m \in DOMAIN chat, NEW history,
         NEW open, NEW bad, NEW held, NEW ends,
         Waits(who, chat, m, history, open, bad, held, ends), IsFiniteSet(open),
         NEW id \in open, id \notin bad, ToolChat(id) \in ChatMessages,
         NEW base \in Seq(ChatMessages), Continues(base, chat),
         Len(base) = Len(chat), base[m].calls = chat[m].calls,
         NEW later, later[Len(later)].kind = "result", NEW endsThen
  PROVE  \/ ResultsFollow(Append(base, ToolChat(id)), m)
         \/ Waits(who, Append(base, ToolChat(id)), m, later, open \ {id}, bad, NoReasoning, endsThen)
<1> DEFINE openThen == open \ {id}
           new == Append(base, ToolChat(id))
           calls == ToSet(chat[m].calls)
           left == Cardinality(calls \cap open)
           c == Cardinality(calls)
<1>1. PICK n \in Nat : n = Len(chat) /\ DOMAIN chat = 1 .. n /\ n = Len(base) /\ DOMAIN base = 1 .. n
  OBVIOUS
<1>2. /\ \A k \in 1 .. n : base[k].answers = chat[k].answers
  BY <1>1 DEF Continues
<1>3. ToolChat(id).answers = id
  BY DEF ToolChat, ChatMessage
<1>4. /\ Len(new) = n + 1 /\ new[n + 1] = ToolChat(id) /\ \A k \in 1 .. n : new[k] = base[k]
  BY <1>1, SMTT(30)
<1>5. m \in 1 .. n /\ new[m].calls = chat[m].calls
  BY <1>1, <1>4
<1> HIDE DEF new
<1>6. /\ calls \cap open # {} /\ open \ bad \subseteq calls
      /\ {chat[k].answers : k \in m + 1 .. n} = calls \ open
      /\ n - m + left = c
  BY <1>1 DEF Waits
<1>7. IsFiniteSet(calls) /\ c \in Nat
  <2>1. chat[m] \in ChatMessages
    OBVIOUS
  <2>2. chat[m].calls \in Seq(Nat)
    BY <2>1 DEF ChatMessages
  <2>3. QED
    BY <2>2, ToSetIsFinite
<1> HIDE DEF calls, c
<1>8. id \in calls
  BY <1>6
<1>9. /\ IsFiniteSet(calls \cap open) /\ left \in Nat
  BY <1>7, FS_Subset, FS_CardinalityType
<1>10. calls \cap openThen = (calls \cap open) \ {id} /\ calls \ openThen = (calls \ open) \cup {id}
  BY <1>8
<1>11. Cardinality(calls \cap openThen) = left - 1 /\ IsFiniteSet(calls \cap openThen)
  <2> DEFINE both == calls \cap open
  <2>1. id \in both /\ IsFiniteSet(both)
    BY <1>8, <1>9
  <2>2. IsFiniteSet(both \ {id}) /\ Cardinality(both \ {id}) = Cardinality(both) - 1
    <3> HIDE DEF both
    <3>1. QED
      BY <2>1, FS_RemoveElement
  <2>3. QED
    BY <1>10, <2>2
<1>12. {new[k].answers : k \in m + 1 .. n + 1} = calls \ openThen
  <2>1. \A k \in m + 1 .. n : new[k].answers = chat[k].answers /\ k \in m + 1 .. n + 1
    <3>1. TAKE k \in m + 1 .. n
    <3>2. k \in 1 .. n /\ k \in m + 1 .. n + 1
      BY <1>1, <1>5
    <3>3. QED
      BY <1>2, <1>4, <3>2
  <2>2. n + 1 \in m + 1 .. n + 1 /\ new[n + 1].answers = id
    BY <1>1, <1>3, <1>4, <1>5
  <2>3. \A k \in m + 1 .. n + 1 : k \in m + 1 .. n \/ k = n + 1
    BY <1>1, <1>5
  <2>4. {new[k].answers : k \in m + 1 .. n + 1} = {chat[k].answers : k \in m + 1 .. n} \cup {id}
    BY <2>1, <2>2, <2>3
  <2>5. QED
    BY <1>6, <1>10, <2>4
<1>13. ToSet(new[m].calls) = calls
  BY <1>5 DEF calls
<1> HIDE DEF left
<1>14. (n + 1) - m + (left - 1) = c
  <2>1. n \in Nat /\ m \in Nat /\ left \in Nat /\ c \in Nat /\ n - m + left = c
    BY <1>1, <1>5, <1>6, <1>7, <1>9 DEF left
  <2>2. QED
    BY <2>1
<1>15. CASE calls \cap openThen = {}
  <2>1. left - 1 = 0
    BY <1>11, <1>15, FS_EmptySet
  <2>2. m + c = n + 1
    BY <1>1, <1>5, <1>7, <1>9, <1>14, <2>1
  <2>3. {new[m + a].answers : a \in 1 .. c} = {new[k].answers : k \in m + 1 .. n + 1}
    <3>1. \A a \in 1 .. c : m + a \in m + 1 .. n + 1
      BY <1>5, <1>7, <2>2
    <3>2. \A k \in m + 1 .. n + 1 : k - m \in 1 .. c /\ k = m + (k - m)
      BY <1>5, <1>7, <2>2, SMTT(30)
    <3>3. {new[m + a].answers : a \in 1 .. c} \subseteq {new[k].answers : k \in m + 1 .. n + 1}
      BY <3>1
    <3>4. ASSUME NEW k \in m + 1 .. n + 1
          PROVE  new[k].answers \in {new[m + a].answers : a \in 1 .. c}
      BY <3>2
    <3>5. QED
      BY <3>3, <3>4
  <2>4. calls \ openThen = calls
    BY <1>15
  <2>5. ResultsFollow(new, m)
    <3>1. m + Cardinality(ToSet(new[m].calls)) <= Len(new)
      BY <1>1, <1>4, <1>13, <2>2 DEF c
    <3>2. {new[m + a].answers : a \in 1 .. Cardinality(ToSet(new[m].calls))} = ToSet(new[m].calls)
      BY <1>12, <1>13, <2>3, <2>4 DEF c
    <3>3. QED
      BY <3>1, <3>2 DEF ResultsFollow
  <2>6. QED
    BY <2>5 DEF new
<1>16. CASE calls \cap openThen # {}
  <2>1. openThen \ bad \subseteq calls
    BY <1>6
  <2>2. ~ (Len(new) = m)
    BY <1>1, <1>4, <1>5
  <2>3. Len(new) - m + Cardinality(calls \cap openThen) = Cardinality(calls)
    BY <1>4, <1>11, <1>14 DEF c
  <2>4. {new[k].answers : k \in m + 1 .. Len(new)} = calls \ openThen
    BY <1>4, <1>12
  <2>5. Waits(who, new, m, later, openThen, bad, NoReasoning, endsThen)
    BY <1>13, <1>16, <2>1, <2>2, <2>3, <2>4 DEF Waits
  <2>6. QED
    BY <2>5 DEF new
<1>17. QED
  BY <1>15, <1>16 DEF new

\* What is settled stays so; the rest is for the action to show.
LEMMA CallsFollowLater ==
  ASSUME NEW later, NEW history, NEW added, GrowsBy(later, history, added),
         NEW open, NEW was, IsHistory(history, open, was), Fitting(history, open, added),
         NEW openThen, OpenAfter(history, open, added, openThen),
         NEW chat \in Seq(ChatMessages), NEW K, K \subseteq DOMAIN history, Tells(chat, history, K),
         NEW new, Continues(new, chat), NEW who, NEW bad, NEW held, NEW ends,
         CallsFollow(who, chat, history, open, bad, held, ends),
         NEW badThen, NEW heldThen, NEW endsThen,
         \A m \in DOMAIN new :
            /\ new[m].calls # <<>>
            /\ m \in DOMAIN chat => /\ chat[m].calls # <<>>
                                    /\ Waits(who, chat, m, history, open, bad, held, ends)
            => \/ Settled(who, new, m, later, openThen)
               \/ Waits(who, new, m, later, openThen, badThen, heldThen, endsThen)
  PROVE  CallsFollow(who, new, later, openThen, badThen, heldThen, endsThen)
<1>1. ASSUME NEW m \in DOMAIN new, new[m].calls # <<>>
      PROVE  \/ Settled(who, new, m, later, openThen)
             \/ Waits(who, new, m, later, openThen, badThen, heldThen, endsThen)
  <2>1. CASE m \in DOMAIN chat
    <3>1. chat[m].calls # <<>>
      BY <1>1, <2>1 DEF Continues
    <3>2. CASE Settled(who, chat, m, history, open)
      <4>1. Settled(who, new, m, later, openThen)
        BY <2>1, <3>1, <3>2, SettledLater
      <4>2. QED
        BY <4>1
    <3>3. CASE Waits(who, chat, m, history, open, bad, held, ends)
      BY <1>1, <3>1, <3>3
    <3>4. QED
      BY <2>1, <3>1, <3>2, <3>3 DEF CallsFollow
  <2>2. CASE m \notin DOMAIN chat
    BY <1>1, <2>2
  <2>3. QED
    BY <2>1, <2>2
<1>2. QED
  BY <1>1 DEF CallsFollow

\* One piece more.
LEMMA CallsFollowOn ==
  ASSUME NEW later, NEW openThen, NEW badThen, NEW history, NEW open, NEW piece,
         NextHistory(later, openThen, badThen, history, open, piece),
         NEW chat \in Seq(ChatMessages), Tells(chat, history, MustBeTold(history)),
         NEW new, Continues(new, chat), NEW who, NEW bad, NEW held, NEW ends,
         CallsFollow(who, chat, history, open, bad, held, ends), NEW heldThen, NEW endsThen,
         \A m \in DOMAIN new :
            /\ new[m].calls # <<>>
            /\ m \in DOMAIN chat => /\ chat[m].calls # <<>>
                                    /\ Waits(who, chat, m, history, open, bad, held, ends)
            => \/ Settled(who, new, m, later, openThen)
               \/ Waits(who, new, m, later, openThen, badThen, heldThen, endsThen)
  PROVE  CallsFollow(who, new, later, openThen, badThen, heldThen, endsThen)
<1>1. GrowsBy(later, history, <<piece>>) /\ MustBeTold(history) \subseteq DOMAIN history
  BY OnePieceMore
<1>2. PICK was : IsHistory(history, open, was)
  BY DEF NextHistory
<1>3. Fitting(history, open, <<piece>>) /\ OpenAfter(history, open, <<piece>>, openThen)
  BY DEF NextHistory
<1>4. QED
  BY <1>1, <1>2, <1>3, CallsFollowLater

\* Reasoning of the history is held or replayed.
Thought(mode, chat, history, held) ==
    mode # "disabled" =>
        \A p \in DOMAIN history : history[p].kind = "thinking" =>
            \/ p \in ToSet(held.texts)
            \/ \E m \in DOMAIN chat : p \in ToSet(chat[m].reasoning)

\* A piece more, and what was held is held or replayed.
LEMMA ThoughtOn ==
  ASSUME NEW later, NEW openThen, NEW badThen, NEW history, NEW open, NEW piece,
         NextHistory(later, openThen, badThen, history, open, piece),
         NEW mode, NEW chat, NEW new, Continues(new, chat), NEW held, NEW heldThen,
         Thought(mode, chat, history, held),
         piece.kind = "thinking" => Len(history) + 1 \in ToSet(heldThen.texts),
         \/ ToSet(held.texts) \subseteq ToSet(heldThen.texts)
         \/ Replayed(mode, new, held.texts)
  PROVE  Thought(mode, new, later, heldThen)
<1> DEFINE n == Len(history)
<1>1. /\ DOMAIN history = 1 .. n /\ DOMAIN later = 1 .. n + 1 /\ n \in Nat
      /\ later[n + 1] = piece /\ \A p \in DOMAIN history : later[p] = history[p]
  BY NextHistoryIs
<1>2. PICK i, k \in Nat :
        /\ DOMAIN chat = 1 .. i /\ DOMAIN new = 1 .. i + k
        /\ \A m \in 1 .. i : ToSet(chat[m].reasoning) \subseteq ToSet(new[m].reasoning)
  BY DEF Continues
<1>3. \A m \in 1 .. i : m \in 1 .. i + k
  BY <1>2
<1>4. ASSUME mode # "disabled", NEW p \in DOMAIN later, later[p].kind = "thinking"
      PROVE  \/ p \in ToSet(heldThen.texts)
             \/ \E m \in DOMAIN new : p \in ToSet(new[m].reasoning)
  <2>1. CASE p = n + 1
    BY <1>1, <1>4, <2>1
  <2>2. CASE p # n + 1
    <3>1. p \in DOMAIN history /\ history[p].kind = "thinking"
      BY <1>1, <1>4, <2>2
    <3>2. CASE p \in ToSet(held.texts)
      BY <1>4, <3>2 DEF Replayed
    <3>3. CASE \E m \in DOMAIN chat : p \in ToSet(chat[m].reasoning)
      BY <1>2, <1>3, <3>3
    <3>4. QED
      BY <1>4, <3>1, <3>2, <3>3 DEF Thought
  <2>3. QED
    BY <2>1, <2>2
<1>5. QED
  BY <1>4 DEF Thought

-----------------------------------------------------------------------------
(* What holds of the conversation of a Responses client.                   *)

\* The last call that was not left out can still be joined, or a text has come between.
CallsHeld ==
    /\ openCalls \ quarantined # {}
    /\ pieces[Len(pieces)].kind # "result"
    => \/ EndsWith(IsCallMessage)
       \/ \E p \in openCalls \ quarantined, q \in DOMAIN pieces : p < q /\ pieces[q].kind = "text"

Responses(state) ==
    /\ Converts(replay, request, state)
    /\ pieces \in Seq(Blocks) /\ heldReasoning \in HeldReasoning
    /\ IsHistory(pieces, openCalls, quarantined)
    /\ OneTurn(pieces, openCalls)
    /\ EndsWith(IsCallMessage) => CallsOnly(Last(request))
    /\ CallsHeld
    /\ Tells(state.chat, pieces, MustBeTold(pieces))
    /\ Thought(replay, state.chat, pieces, heldReasoning)
    /\ CallsFollow(client, state.chat, pieces, openCalls, quarantined, heldReasoning,
                   EndsWith(IsCallMessage))

\* A request ends with what was appended.
LEMMA EndsWithAppended ==
  ASSUME NEW asked, asked \in Seq(Messages), NEW message \in Messages
  PROVE  /\ Append(asked, message) # <<>> /\ Last(Append(asked, message)) = message
BY DEF Last

\* A prompt and a result, as chat messages, tell themselves.
LEMMA ChatTexts ==
  ASSUME NEW id \in Nat, NEW kind, Piece(kind, id) \in Blocks
  PROVE  /\ UserChat(<<Piece(kind, id)>>) \in ChatMessages
         /\ Told(UserChat(<<Piece(kind, id)>>)) = <<Piece(kind, id)>>
         /\ UserChat(<<Piece(kind, id)>>).calls = <<>>
         /\ UserChat(<<Piece(kind, id)>>).reasoning = <<>>
         /\ ToolChat(id) \in ChatMessages /\ Told(ToolChat(id)) = <<Piece("result", id)>>
         /\ ToolChat(id).calls = <<>> /\ ToolChat(id).reasoning = <<>>
<1> DEFINE piece == Piece(kind, id)
<1> HIDE DEF piece
<1>1. piece \in Blocks
  BY DEF piece
<1>2. <<piece>> \in Seq(Blocks) /\ <<>> \in Seq(Blocks) /\ <<>> \in Seq(Nat) /\ 0 \in Nat
  BY <1>1
<1> DEFINE user == UserChat(<<piece>>)
           tool == ToolChat(id)
<1>3. /\ user \in ChatMessages /\ user.role = "user" /\ user.text = <<piece>>
      /\ user.calls = <<>> /\ user.reasoning = <<>>
  BY <1>2 DEF UserChat, ChatMessage, ChatMessages
<1>4. /\ tool \in ChatMessages /\ tool.role = "tool" /\ tool.text = <<>>
      /\ tool.calls = <<>> /\ tool.reasoning = <<>> /\ tool.answers = id
  BY <1>2 DEF ToolChat, ChatMessage, ChatMessages
<1> HIDE DEF user, tool
<1>5. Told(user) = <<piece>>
  <2>1. user.role # "tool"
    BY <1>3
  <2>2. QED
    BY <1>3, <2>1, ToldIs
<1>6. Told(tool) = <<Piece("result", id)>>
  BY <1>4, ToldIs
<1>7. QED
  BY <1>3, <1>4, <1>5, <1>6 DEF user, tool, piece

\* An item that leaves the messages as they are.
LEMMA MessagesStay ==
  ASSUME NEW state, Responses(state), NEW piece,
         NextHistory(pieces', openCalls', quarantined', pieces, openCalls, piece),
         ~ IsTold(pieces, piece), piece.kind \notin {"prompt", "note"}, UNCHANGED <<client, replay, request>>,
         heldReasoning' \in HeldReasoning,
         ToSet(heldReasoning.texts) \subseteq ToSet(heldReasoning'.texts),
         piece.kind = "thinking" => Len(pieces) + 1 \in ToSet(heldReasoning'.texts),
         openCalls' \subseteq openCalls \cup {Len(pieces) + 1},
         openCalls' \ quarantined' = openCalls \ quarantined,
         \/ piece.kind # "result" /\ ~ Answers(pieces, openCalls)
         \/ piece.kind = "result" /\ heldReasoning' = heldReasoning
  PROVE  Responses(state)'
<1> DEFINE ends == EndsWith(IsCallMessage)
<1>1. /\ Converts(replay, request, state) /\ pieces \in Seq(Blocks)
      /\ IsHistory(pieces, openCalls, quarantined)
      /\ OneTurn(pieces, openCalls)
      /\ ends => CallsOnly(Last(request))
      /\ CallsHeld
      /\ Tells(state.chat, pieces, MustBeTold(pieces))
      /\ Thought(replay, state.chat, pieces, heldReasoning)
      /\ CallsFollow(client, state.chat, pieces, openCalls, quarantined, heldReasoning, ends)
  BY DEF Responses
<1>2. ends' = ends /\ Last(request)' = Last(request)
  BY DEF EndsWith, Last
<1>3. state.chat \in Seq(ChatMessages)
  BY <1>1 DEF Converts, Undeferred, States
<1>4. /\ DOMAIN pieces = 1 .. Len(pieces) /\ DOMAIN pieces' = 1 .. Len(pieces) + 1
      /\ Len(pieces) \in Nat /\ Len(pieces') = Len(pieces) + 1
      /\ pieces'[Len(pieces) + 1] = piece
      /\ \A p \in DOMAIN pieces : pieces'[p] = pieces[p]
  BY NextHistoryIs
<1>5. pieces' \in Seq(Blocks) /\ IsHistory(pieces', openCalls', quarantined')
  BY DEF NextHistory
<1>6. OneTurn(pieces', openCalls')
  BY <1>1, OneTurnGoesOn
<1>7. Tells(state.chat, pieces', MustBeTold(pieces'))
  BY <1>1, UntoldPiece
<1>8. Continues(state.chat, state.chat)
  BY <1>3, ContinuesItself
<1>9. Thought(replay, state.chat, pieces', heldReasoning')
  BY <1>1, <1>8, ThoughtOn
<1>10. CallsHeld'
  <2> SUFFICES ASSUME openCalls' \ quarantined' # {}, pieces'[Len(pieces')].kind # "result"
               PROVE  \/ ends'
                      \/ \E p \in openCalls' \ quarantined', q \in DOMAIN pieces' :
                            p < q /\ pieces'[q].kind = "text"
    BY DEF CallsHeld
  <2>1. piece.kind # "result"
    BY <1>4
  <2>2. openCalls \ quarantined # {} /\ openCalls # {}
    OBVIOUS
  <2>3. pieces[Len(pieces)].kind # "result"
    BY <2>1, <2>2 DEF Answers
  <2>4. CASE ends
    BY <1>2, <2>4
  <2>5. CASE ~ ends
    <3>1. PICK p \in openCalls \ quarantined, q \in DOMAIN pieces : p < q /\ pieces[q].kind = "text"
      BY <1>1, <2>2, <2>3, <2>5 DEF CallsHeld
    <3>2. q \in DOMAIN pieces' /\ pieces'[q].kind = "text"
      BY <1>4, <3>1
    <3>3. QED
      BY <3>1, <3>2
  <2>6. QED
    BY <2>4, <2>5
<1>11. ASSUME NEW m \in DOMAIN state.chat,
              Waits(client, state.chat, m, pieces, openCalls, quarantined, heldReasoning, ends)
       PROVE  Waits(client, state.chat, m, pieces', openCalls', quarantined', heldReasoning', ends)
  <2> DEFINE calls == ToSet(state.chat[m].calls)
  <2>1. ASSUME NEW c \in calls
        PROVE  c \notin quarantined /\ c \notin quarantined'
    <3>1. MustBeTold(pieces) \subseteq DOMAIN pieces
      BY DEF MustBeTold
    <3>2. c \in DOMAIN pieces /\ pieces[c].kind = "call" /\ c \notin quarantined
      BY <1>1, <1>3, <2>1, <3>1, CallsAreTold
    <3>3. pieces'[c].kind = "call"
      BY <1>4, <3>2
    <3>4. QED
      BY <1>5, <3>2, <3>3 DEF IsHistory
  <2>2. calls \cap openCalls' = calls \cap openCalls
    BY <2>1
  <2>3. openCalls' \ quarantined' \subseteq openCalls \ quarantined
    OBVIOUS
  <2>4. \/ ~ Answers(pieces, openCalls)
        \/ pieces'[Len(pieces')].kind = "result" /\ heldReasoning' = heldReasoning
    BY <1>4
  <2>5. QED
    BY <1>3, <1>11, <2>2, <2>3, <2>4, WaitsOn
<1>12. CallsFollow(client, state.chat, pieces', openCalls', quarantined', heldReasoning', ends)
  BY <1>1, <1>3, <1>8, <1>11, CallsFollowOn
<1> HIDE DEF ends
<1>13. QED
  BY <1>1, <1>2, <1>5, <1>6, <1>7, <1>9, <1>10, <1>12 DEF Responses, ends

\* Whether results are being given, of the history.
LEMMA AnsweringIs == Answering <=> Answers(pieces, openCalls)
BY DEF Answering, Answers, Last

\* A reasoning item is held.
LEMMA ReasoningItemKeeps ==
  ASSUME NEW state, Responses(state), ReasoningItem, UNCHANGED <<client, replay>>
  PROVE  Responses(state)'
<1>1. PICK kind \in {"thinking", "redacted"} :
         /\ pieces' = Append(pieces, Piece(kind, Fresh))
         /\ heldReasoning' =
               IF kind = "thinking" THEN [heldReasoning EXCEPT !.texts = Append(@, Fresh)]
               ELSE [heldReasoning EXCEPT !.opaque = Append(@, Fresh)]
  BY DEF ReasoningItem
<1>2. /\ ~ Answers(pieces, openCalls) /\ openCalls' = openCalls /\ request' = request
      /\ quarantined' = quarantined
  BY AnsweringIs DEF ReasoningItem
<1> DEFINE piece == Piece(kind, Fresh)
<1>3. /\ pieces \in Seq(Blocks) /\ heldReasoning \in HeldReasoning
      /\ IsHistory(pieces, openCalls, quarantined)
  BY DEF Responses
<1>4. Fresh = Len(pieces) + 1 /\ Fresh \in Nat
  BY <1>3 DEF Fresh
<1>5. piece \in Blocks /\ piece.kind = kind /\ piece.id = Len(pieces) + 1
  BY <1>4 DEF Piece, Blocks
<1>6. /\ piece.kind # "result" /\ piece.kind # "badCall" /\ piece.kind \notin {"call", "badCall"}
      /\ piece.kind \notin {"prompt", "note"}
  BY <1>5
<1> HIDE DEF piece
<1>7. pieces' = Append(pieces, piece)
  BY <1>1 DEF piece
<1>8. Len(pieces) + 1 \notin openCalls
  BY <1>3 DEF IsHistory
<1>9. NextHistory(pieces', openCalls', quarantined', pieces, openCalls, piece)
  <2>1. NextHistory(Append(pieces, piece), openCalls, quarantined, pieces, openCalls, piece)
    BY <1>3, <1>5, <1>6, <1>8, HistoryGoesOn
  <2>2. QED
    BY <1>2, <1>7, <2>1
<1>10. ~ IsTold(pieces, piece)
  BY <1>5, <1>6 DEF IsTold
<1>11. /\ heldReasoning' \in HeldReasoning
       /\ ToSet(heldReasoning.texts) \subseteq ToSet(heldReasoning'.texts)
       /\ piece.kind = "thinking" => Len(pieces) + 1 \in ToSet(heldReasoning'.texts)
  <2>1. PICK texts \in Seq(Nat), opaque \in Seq(Nat) :
           heldReasoning = [texts |-> texts, opaque |-> opaque]
    BY <1>3 DEF HeldReasoning
  <2>2. CASE kind = "thinking"
    <3>1. heldReasoning' = [texts |-> Append(texts, Fresh), opaque |-> opaque]
      BY <1>1, <2>1, <2>2
    <3>2. Append(texts, Fresh) \in Seq(Nat)
      BY <1>4
    <3>3. PICK n \in Nat : n = Len(texts) /\ DOMAIN texts = 1 .. n
      BY <2>1
    <3> DEFINE more == Append(texts, Fresh)
    <3>4. DOMAIN more = 1 .. n + 1 /\ more[n + 1] = Fresh /\ \A i \in 1 .. n : more[i] = texts[i]
      BY <1>4, <3>3
    <3> HIDE DEF more
    <3>5. n + 1 \in 1 .. n + 1 /\ \A i \in 1 .. n : i \in 1 .. n + 1
      BY <3>3
    <3>6. ToSet(texts) \subseteq ToSet(more) /\ Fresh \in ToSet(more)
      BY <3>3, <3>4, <3>5 DEF ToSet
    <3>7. heldReasoning'.texts = more /\ heldReasoning.texts = texts
      BY <2>1, <3>1 DEF more
    <3>8. heldReasoning' \in HeldReasoning
      BY <2>1, <3>1, <3>2 DEF HeldReasoning
    <3>9. QED
      BY <1>4, <3>6, <3>7, <3>8
  <2>3. CASE kind # "thinking"
    <3>1. heldReasoning' = [texts |-> texts, opaque |-> Append(opaque, Fresh)]
      BY <1>1, <2>1, <2>3
    <3>2. Append(opaque, Fresh) \in Seq(Nat)
      BY <1>4
    <3>3. heldReasoning' \in HeldReasoning /\ heldReasoning'.texts = heldReasoning.texts
      BY <2>1, <3>1, <3>2 DEF HeldReasoning
    <3>4. QED
      BY <1>5, <2>3, <3>3
  <2>4. QED
    BY <2>2, <2>3
<1>12. openCalls' \subseteq openCalls \cup {Len(pieces) + 1}
       /\ openCalls' \ quarantined' = openCalls \ quarantined
  BY <1>2
<1>13. UNCHANGED <<client, replay, request>>
  BY <1>2
<1>14. piece.kind # "result" /\ ~ Answers(pieces, openCalls)
  BY <1>2, <1>6
<1>15. QED
  BY <1>6, <1>9, <1>10, <1>11, <1>12, <1>13, <1>14, MessagesStay

\* What holds before an item, spelled out.
LEMMA ResponsesAre ==
  ASSUME NEW state, Responses(state)
  PROVE  /\ Converts(replay, request, state) /\ request \in Seq(Messages)
         /\ state.chat \in Seq(ChatMessages)
         /\ pieces \in Seq(Blocks) /\ heldReasoning \in HeldReasoning
         /\ IsHistory(pieces, openCalls, quarantined)
         /\ OneTurn(pieces, openCalls)
         /\ EndsWith(IsCallMessage) => request # <<>> /\ CallsOnly(Last(request))
         /\ Tells(state.chat, pieces, MustBeTold(pieces))
         /\ Thought(replay, state.chat, pieces, heldReasoning)
         /\ CallsFollow(client, state.chat, pieces, openCalls, quarantined, heldReasoning,
                        EndsWith(IsCallMessage))
         /\ Len(pieces) \in Nat /\ DOMAIN pieces = 1 .. Len(pieces)
         /\ Fresh = Len(pieces) + 1 /\ Len(pieces) + 1 \notin openCalls
         /\ openCalls \subseteq 1 .. Len(pieces) /\ IsFiniteSet(openCalls)
<1>1. /\ Converts(replay, request, state)
      /\ pieces \in Seq(Blocks) /\ heldReasoning \in HeldReasoning
      /\ IsHistory(pieces, openCalls, quarantined)
      /\ OneTurn(pieces, openCalls)
      /\ EndsWith(IsCallMessage) => CallsOnly(Last(request))
      /\ Tells(state.chat, pieces, MustBeTold(pieces))
      /\ Thought(replay, state.chat, pieces, heldReasoning)
      /\ CallsFollow(client, state.chat, pieces, openCalls, quarantined, heldReasoning,
                     EndsWith(IsCallMessage))
  BY DEF Responses
<1>2. request \in Seq(Messages) /\ state.chat \in Seq(ChatMessages)
  BY <1>1 DEF Converts, Undeferred, States
<1>3. Len(pieces) \in Nat /\ DOMAIN pieces = 1 .. Len(pieces) /\ Fresh = Len(pieces) + 1
  BY <1>1 DEF Fresh
<1>4. openCalls \subseteq 1 .. Len(pieces)
  BY <1>1, <1>3 DEF IsHistory
<1>5. Len(pieces) + 1 \notin openCalls
  BY <1>3, <1>4
<1>6. IsFiniteSet(1 .. Len(pieces))
  BY <1>3, FS_Interval
<1>7. IsFiniteSet(openCalls)
  BY <1>4, <1>6, FS_Subset
<1>8. EndsWith(IsCallMessage) => request # <<>>
  BY DEF EndsWith
<1>9. QED
  BY <1>1, <1>2, <1>3, <1>4, <1>5, <1>7, <1>8

\* NoReasoning is nothing held.
LEMMA NoReasoningIs ==
  NoReasoning \in HeldReasoning /\ NoReasoning.texts = <<>> /\ NoReasoning.opaque = <<>>
BY DEF NoReasoning, HeldReasoning

\* A text item, which takes with it what is held, keeps the invariant.
LEMMA TextItemKeeps ==
  ASSUME NEW state, Responses(state), TextItem, UNCHANGED <<client, replay>>,
         client = "responses"
  PROVE  \E next : Responses(next)'
<1> DEFINE piece == Piece("text", Fresh)
           n == Len(pieces)
           ends == EndsWith(IsCallMessage)
           message == RequestMessage("assistant", FALSE, Append(Opaque(heldReasoning), piece),
                                     heldReasoning.texts)
<1>1. /\ ~ Answers(pieces, openCalls) /\ openCalls' = openCalls
      /\ pieces' = Append(pieces, piece)
      /\ request' = Append(request, message)
      /\ heldReasoning' = NoReasoning
      /\ quarantined' = quarantined
  BY AnsweringIs DEF TextItem
<1>2. /\ Converts(replay, request, state) /\ request \in Seq(Messages)
      /\ state.chat \in Seq(ChatMessages)
      /\ pieces \in Seq(Blocks) /\ heldReasoning \in HeldReasoning
      /\ IsHistory(pieces, openCalls, quarantined)
      /\ OneTurn(pieces, openCalls)
      /\ Tells(state.chat, pieces, MustBeTold(pieces))
      /\ Thought(replay, state.chat, pieces, heldReasoning)
      /\ CallsFollow(client, state.chat, pieces, openCalls, quarantined, heldReasoning, ends)
      /\ n \in Nat /\ DOMAIN pieces = 1 .. n
      /\ Fresh = n + 1 /\ n + 1 \notin openCalls
      /\ openCalls \subseteq 1 .. n
  BY ResponsesAre
<1>3. piece \in Blocks /\ piece.kind = "text" /\ piece.id = n + 1
  BY <1>2 DEF Piece, Blocks
<1> HIDE DEF piece
<1>4. NextHistory(pieces', openCalls', quarantined', pieces, openCalls, piece)
  <2>1. NextHistory(Append(pieces, piece), openCalls, quarantined, pieces, openCalls, piece)
    BY <1>2, <1>3, HistoryGoesOn
  <2>2. QED
    BY <1>1, <2>1
<1>5. /\ ~ IsCallMessage(message)
      /\ \E said \in ChatMessages :
            /\ Told(said) = <<piece>> /\ said.calls = <<>> /\ said.answers = 0
            /\ Keeps(replay, said, heldReasoning.texts)
            /\ Converts(replay, Append(request, message), Extended(state, said))
  BY <1>2, <1>3, TextConverts
<1> HIDE DEF message
<1>6. PICK said \in ChatMessages :
         /\ Told(said) = <<piece>> /\ said.calls = <<>> /\ said.answers = 0
         /\ Keeps(replay, said, heldReasoning.texts)
         /\ Converts(replay, Append(request, message), Extended(state, said))
  BY <1>5
<1> DEFINE chat == Append(state.chat, said)
<1>7. Extended(state, said).chat = chat
  BY DEF Extended
<1>8. ~ ends'
  <2>1. Last(request') = message /\ request' # <<>>
    BY <1>1, <1>2 DEF Last
  <2>2. QED
    BY <1>5, <2>1 DEF EndsWith
<1>9. Continues(chat, state.chat) /\ Replayed(replay, chat, heldReasoning.texts)
  BY <1>2, <1>6, ContinuesAppended, SaidIsReplayed
<1>10. IsTold(pieces, piece)
  BY <1>3 DEF IsTold
<1>11. Tells(chat, pieces', MustBeTold(pieces'))
  BY <1>2, <1>4, <1>6, <1>10, PieceTold
<1>12. Thought(replay, chat, pieces', heldReasoning')
  BY <1>2, <1>3, <1>4, <1>9, ThoughtOn
<1>13. OneTurn(pieces', openCalls')
  BY <1>1, <1>2, <1>3, <1>4, OneTurnGoesOn
<1>14. /\ pieces' \in Seq(Blocks) /\ IsHistory(pieces', openCalls', quarantined')
       /\ DOMAIN pieces' = 1 .. n + 1 /\ pieces'[n + 1] = piece /\ Len(pieces') = n + 1
  BY <1>2, <1>4, NextHistoryIs DEF NextHistory
<1>15. CallsHeld'
  <2> SUFFICES ASSUME openCalls' \ quarantined' # {}
               PROVE  \E p \in openCalls' \ quarantined', q \in DOMAIN pieces' :
                         p < q /\ pieces'[q].kind = "text"
    BY DEF CallsHeld
  <2>1. PICK p \in openCalls' \ quarantined' : TRUE
    OBVIOUS
  <2>2. p < n + 1 /\ n + 1 \in DOMAIN pieces'
    BY <1>1, <1>2, <1>14, <2>1
  <2>3. QED
    BY <1>3, <1>14, <2>1, <2>2
<1>16. ASSUME NEW m \in DOMAIN chat, chat[m].calls # <<>>,
              m \in DOMAIN state.chat =>
                 /\ state.chat[m].calls # <<>>
                 /\ Waits(client, state.chat, m, pieces, openCalls, quarantined, heldReasoning, ends)
       PROVE  Settled(client, chat, m, pieces', openCalls')
  <2>1. PICK k \in Nat : k = Len(state.chat) /\ DOMAIN state.chat = 1 .. k
    BY <1>2
  <2>2. DOMAIN chat = 1 .. k + 1 /\ chat[k + 1] = said /\ \A i \in 1 .. k : chat[i] = state.chat[i]
    BY <1>2, <1>6, <2>1
  <2>3. m # k + 1
    BY <1>6, <1>16, <2>2
  <2>4. m \in DOMAIN state.chat /\ chat[m] = state.chat[m]
    BY <1>16, <2>1, <2>2, <2>3
  <2>5. ToSet(state.chat[m].calls) \subseteq openCalls
    BY <1>1, <1>2, <1>16, <2>4, WaitsAtEnd
  <2>6. PICK c \in ToSet(state.chat[m].calls) : c \in openCalls
    BY <1>16, <2>4, <2>5 DEF Waits
  <2>7. pieces[c].kind = "call"
    <3>1. MustBeTold(pieces) \subseteq DOMAIN pieces
      BY DEF MustBeTold
    <3>2. QED
      BY <1>2, <2>4, <3>1, CallsAreTold
  <2>8. TextAfter(pieces', ToSet(state.chat[m].calls))
    BY <1>1, <1>2, <1>3, <1>4, <2>6, <2>7, TextSettles
  <2>9. QED
    BY <2>4, <2>8 DEF Settled
<1>17. CallsFollow(client, chat, pieces', openCalls', quarantined', heldReasoning', ends')
  <2> HIDE DEF chat, ends
  <2>1. QED
    BY <1>2, <1>4, <1>9, <1>16, CallsFollowOn
<1> HIDE DEF chat, ends
<1>18. Responses(Extended(state, said))'
  BY <1>1, <1>6, <1>7, <1>8, <1>11, <1>12, <1>13, <1>14, <1>15, <1>17, NoReasoningIs
     DEF Responses, ends
<1>19. QED
  BY <1>18

\* A message without calls, said after what is flushed.
LEMMA FlushedAndSaid ==
  ASSUME NEW state, Responses(state), NEW flushed,
         Flushes(replay, flushed, state.chat, heldReasoning), NEW said \in ChatMessages,
         said.calls = <<>>, NEW later, NEW openThen, NEW badThen, NEW piece,
         NextHistory(later, openThen, badThen, pieces, openCalls, piece),
         IsTold(pieces, piece), Told(said) = <<piece>>, piece.kind # "thinking"
  PROVE  /\ flushed \in Seq(ChatMessages) /\ Continues(flushed, state.chat)
         /\ heldReasoning = NoReasoning => flushed = state.chat
         /\ Continues(Append(flushed, said), state.chat)
         /\ Tells(Append(flushed, said), later, MustBeTold(later))
         /\ Thought(replay, Append(flushed, said), later, NoReasoning)
         /\ \A m \in DOMAIN Append(flushed, said) :
               Append(flushed, said)[m].calls # <<>> => m \in DOMAIN state.chat
<1>1. /\ state.chat \in Seq(ChatMessages)
      /\ Tells(state.chat, pieces, MustBeTold(pieces))
      /\ Thought(replay, state.chat, pieces, heldReasoning)
      /\ DOMAIN pieces = 1 .. Len(pieces)
  BY ResponsesAre
<1>2. /\ flushed \in Seq(ChatMessages) /\ Continues(flushed, state.chat)
      /\ heldReasoning = NoReasoning => flushed = state.chat
      /\ Replayed(replay, flushed, heldReasoning.texts)
      /\ \A m \in DOMAIN flushed : flushed[m].calls # <<>> => m \in DOMAIN state.chat
      /\ \A history, K : K \in SUBSET Nat /\ Distinct(history, K) /\ Tells(state.chat, history, K) =>
            Tells(flushed, history, K)
  BY <1>1, FlushesIs
<1> DEFINE chat == Append(flushed, said)
<1>3. Continues(chat, flushed)
  BY <1>2, ContinuesAppended
<1>4. Continues(chat, state.chat)
  BY <1>2, <1>3, ContinuesThrough
<1>5. MustBeTold(pieces) \in SUBSET Nat /\ Distinct(pieces, MustBeTold(pieces))
  <2>1. MustBeTold(pieces) \subseteq DOMAIN pieces
    BY DEF MustBeTold
  <2>2. PICK bad : IsHistory(pieces, openCalls, bad)
    BY DEF NextHistory
  <2>3. Distinct(pieces, DOMAIN pieces)
    BY <2>2 DEF IsHistory
  <2>4. QED
    BY <1>1, <2>1, <2>3 DEF Distinct
<1>6. Tells(flushed, pieces, MustBeTold(pieces))
  BY <1>1, <1>2, <1>5
<1>7. Tells(chat, later, MustBeTold(later))
  BY <1>2, <1>6, PieceTold
<1>8. Replayed(replay, chat, heldReasoning.texts)
  BY <1>2, <1>3, ReplayedOn
<1> HIDE DEF chat
<1>9. Thought(replay, chat, later, NoReasoning)
  BY <1>1, <1>4, <1>8, ThoughtOn
<1>10. ASSUME NEW m \in DOMAIN chat, chat[m].calls # <<>>
       PROVE  m \in DOMAIN state.chat
  <2>1. PICK k \in Nat : k = Len(flushed) /\ DOMAIN flushed = 1 .. k
    BY <1>2
  <2>2. DOMAIN chat = 1 .. k + 1 /\ chat[k + 1] = said /\ \A i \in 1 .. k : chat[i] = flushed[i]
    BY <1>2, <2>1 DEF chat
  <2>3. m # k + 1
    BY <1>10, <2>2
  <2>4. m \in DOMAIN flushed /\ chat[m] = flushed[m]
    BY <1>10, <2>1, <2>2, <2>3
  <2>5. QED
    BY <1>2, <1>10, <2>4
<1>11. QED
  BY <1>2, <1>4, <1>7, <1>9, <1>10 DEF chat

\* A prompt item flushes what is held, and keeps the invariant.
LEMMA PromptItemKeeps ==
  ASSUME NEW state, Responses(state), PromptItem, UNCHANGED <<client, replay>>
  PROVE  \E next : Responses(next)'
<1> DEFINE piece == Piece("prompt", Fresh)
           n == Len(pieces)
           ends == EndsWith(IsCallMessage)
           asked == Flushed(request, heldReasoning)
<1>1. PICK plain \in BOOLEAN :
         request' = Append(asked, RequestMessage("user", plain, <<piece>>, <<>>))
  BY DEF PromptItem
<1>2. /\ openCalls = {} /\ openCalls' = {} /\ pieces' = Append(pieces, piece)
      /\ heldReasoning' = NoReasoning /\ quarantined' = quarantined
  BY DEF PromptItem
<1>3. /\ Converts(replay, request, state)
      /\ state.chat \in Seq(ChatMessages)
      /\ pieces \in Seq(Blocks) /\ heldReasoning \in HeldReasoning
      /\ IsHistory(pieces, openCalls, quarantined)
      /\ OneTurn(pieces, openCalls)
      /\ Tells(state.chat, pieces, MustBeTold(pieces))
      /\ CallsFollow(client, state.chat, pieces, openCalls, quarantined, heldReasoning, ends)
      /\ n \in Nat /\ Fresh = n + 1
  BY ResponsesAre
<1>4. piece \in Blocks /\ piece.kind = "prompt" /\ piece.id = n + 1
  BY <1>3 DEF Piece, Blocks
<1>5. UserChat(<<piece>>) \in ChatMessages /\ Told(UserChat(<<piece>>)) = <<piece>>
      /\ UserChat(<<piece>>).calls = <<>>
  BY <1>3, <1>4, ChatTexts
<1> HIDE DEF piece
<1>6. NextHistory(pieces', openCalls', quarantined', pieces, openCalls, piece)
  <2>1. NextHistory(Append(pieces, piece), openCalls, quarantined, pieces, openCalls, piece)
    BY <1>2, <1>3, <1>4, HistoryGoesOn
  <2>2. QED
    BY <1>2, <2>1
<1>7. PICK flushed : /\ Converts(replay, asked, flushed)
                     /\ Flushes(replay, flushed.chat, state.chat, heldReasoning)
  BY <1>3, FlushedConverts
<1> HIDE DEF asked
<1> DEFINE said == UserChat(<<piece>>)
           chat == Append(flushed.chat, said)
           next == Extended(flushed, said)
<1>8. Converts(replay, request', next)
  <2>1. Converts(replay, Append(asked, RequestMessage("user", plain, <<piece>>, <<>>)), next)
    BY <1>4, <1>7, PromptConverts
  <2>2. QED
    BY <1>1, <2>1
<1>9. next.chat = chat
  BY DEF Extended
<1>10. IsTold(pieces, piece) /\ piece.kind # "thinking"
  BY <1>4 DEF IsTold
<1> HIDE DEF said
<1>11. /\ Continues(chat, state.chat) /\ Tells(chat, pieces', MustBeTold(pieces'))
       /\ Thought(replay, chat, pieces', NoReasoning)
       /\ \A m \in DOMAIN chat : chat[m].calls # <<>> => m \in DOMAIN state.chat
  BY <1>5, <1>6, <1>7, <1>10, FlushedAndSaid DEF said
<1> HIDE DEF chat, next
<1>12. ~ ends'
  <2> DEFINE message == RequestMessage("user", plain, <<piece>>, <<>>)
  <2>1. message \in Messages /\ message.role = "user"
    <3>1. <<piece>> \in Seq(Blocks)
      BY <1>4
    <3>2. QED
      BY <3>1, UserMessageIs
  <2> HIDE DEF message
  <2>2. asked \in Seq(Messages)
    BY <1>7 DEF Converts
  <2>3. Last(request') = message /\ request' # <<>>
    BY <1>1, <2>1, <2>2, EndsWithAppended DEF message
  <2>4. QED
    BY <2>1, <2>3 DEF EndsWith, IsCallMessage
<1>13. OneTurn(pieces', openCalls') /\ CallsHeld'
  BY <1>2 DEF OneTurn, CallsHeld
<1>14. pieces' \in Seq(Blocks) /\ IsHistory(pieces', openCalls', quarantined')
  BY <1>2, <1>3, <1>4, <1>6 DEF NextHistory
<1>15. ASSUME NEW m \in DOMAIN state.chat,
              Waits(client, state.chat, m, pieces, openCalls, quarantined, heldReasoning, ends)
       PROVE  FALSE
  BY <1>2, <1>15 DEF Waits
<1>16. CallsFollow(client, chat, pieces', openCalls', quarantined', heldReasoning', ends')
  <2> HIDE DEF ends
  <2>1. QED
    BY <1>3, <1>6, <1>11, <1>15, CallsFollowOn
<1> HIDE DEF ends
<1>17. Thought(replay, chat, pieces', heldReasoning') /\ Tells(chat, pieces', MustBeTold(pieces'))
  BY <1>2, <1>11
<1>18. heldReasoning' \in HeldReasoning
  BY <1>2, NoReasoningIs
<1>19. PICK end : end = next
  OBVIOUS
<1>20. Responses(end)'
  BY <1>8, <1>9, <1>12, <1>13, <1>14, <1>16, <1>17, <1>18, <1>19 DEF Responses, ends
<1>21. QED
  BY <1>20

\* What a result is told after.
ToldBefore(base, state, ends) ==
    /\ base \in Seq(ChatMessages) /\ Continues(base, state.chat)
    /\ Replayed(replay, base, heldReasoning.texts)
    /\ Tells(base, pieces, MustBeTold(pieces))
    /\ \A m \in DOMAIN base : base[m].calls # <<>> =>
          m \in DOMAIN state.chat /\ base[m].calls = state.chat[m].calls
    /\ ends \/ heldReasoning = NoReasoning => Len(base) = Len(state.chat)

\* With nothing held, all before a result has been told.
LEMMA StateToldBefore ==
  ASSUME NEW state, Responses(state), heldReasoning = NoReasoning, NEW ends
  PROVE  ToldBefore(state.chat, state, ends)
<1>1. state.chat \in Seq(ChatMessages) /\ Tells(state.chat, pieces, MustBeTold(pieces))
  BY ResponsesAre
<1>2. Replayed(replay, state.chat, heldReasoning.texts)
  <2>1. ToSet(<<>>) = {}
    BY DEF ToSet
  <2>2. QED
    BY <2>1, NoReasoningIs DEF Replayed
<1>3. QED
  BY <1>1, <1>2, ContinuesItself DEF ToldBefore

\* Flushing before a result tells what is held.
LEMMA FlushedToldBefore ==
  ASSUME NEW state, Responses(state), NEW flushed, heldReasoning # NoReasoning,
         Flushes(replay, flushed, state.chat, heldReasoning), NEW ends, ~ ends
  PROVE  ToldBefore(flushed, state, ends)
<1>1. /\ state.chat \in Seq(ChatMessages) /\ Tells(state.chat, pieces, MustBeTold(pieces))
      /\ DOMAIN pieces = 1 .. Len(pieces) /\ IsHistory(pieces, openCalls, quarantined)
  BY ResponsesAre
<1>2. /\ flushed \in Seq(ChatMessages) /\ Continues(flushed, state.chat)
      /\ heldReasoning = NoReasoning => flushed = state.chat
      /\ Replayed(replay, flushed, heldReasoning.texts)
      /\ \A m \in DOMAIN flushed : flushed[m].calls # <<>> => m \in DOMAIN state.chat
      /\ \A history, K : K \in SUBSET Nat /\ Distinct(history, K) /\ Tells(state.chat, history, K) =>
            Tells(flushed, history, K)
  BY <1>1, FlushesIs
<1>3. MustBeTold(pieces) \in SUBSET Nat /\ Distinct(pieces, MustBeTold(pieces))
  <2>1. MustBeTold(pieces) \subseteq DOMAIN pieces
    BY DEF MustBeTold
  <2>2. QED
    BY <1>1, <2>1 DEF Distinct, IsHistory
<1>4. Tells(flushed, pieces, MustBeTold(pieces))
  BY <1>1, <1>2, <1>3
<1>5. ASSUME NEW m \in DOMAIN flushed, flushed[m].calls # <<>>
      PROVE  m \in DOMAIN state.chat /\ flushed[m].calls = state.chat[m].calls
  <2>1. m \in DOMAIN state.chat
    BY <1>2, <1>5
  <2>2. PICK said : said \in ChatMessages /\ flushed = Append(state.chat, said)
    BY DEF Flushes, Remark
  <2>3. flushed[m] = state.chat[m]
    BY <1>1, <2>1, <2>2
  <2>4. QED
    BY <2>1, <2>3
<1>6. QED
  BY <1>2, <1>4, <1>5 DEF ToldBefore

\* The last calls take what is held before a result.
LEMMA ReasonedToldBefore ==
  ASSUME NEW state, Responses(state), NEW front \in Seq(ChatMessages), NEW old, NEW said,
         state.chat = Append(front, old), SaysMore(said, old), Told(said) = Told(old),
         said.calls = old.calls, Keeps(replay, said, heldReasoning.texts), NEW ends
  PROVE  ToldBefore(Append(front, said), state, ends)
<1>1. Tells(state.chat, pieces, MustBeTold(pieces))
  BY ResponsesAre
<1>2. /\ old \in ChatMessages /\ said \in ChatMessages /\ said.answers = old.answers
      /\ ToSet(old.calls) \subseteq ToSet(said.calls) /\ old.calls # <<>>
      /\ ToSet(old.reasoning) \subseteq ToSet(said.reasoning)
  BY DEF SaysMore
<1> DEFINE base == Append(front, said)
<1>3. base \in Seq(ChatMessages)
  BY <1>2
<1>4. Continues(base, state.chat)
  BY <1>2, ContinuesLast
<1>5. Replayed(replay, base, heldReasoning.texts)
  BY <1>2, SaidIsReplayed
<1>6. Tells(base, pieces, MustBeTold(pieces))
  BY <1>1, <1>2, LastTellsTheSame
<1>7. PICK n \in Nat : n = Len(front) /\ DOMAIN front = 1 .. n
  OBVIOUS
<1>8. /\ DOMAIN base = 1 .. n + 1 /\ base[n + 1] = said /\ Len(base) = n + 1
      /\ DOMAIN state.chat = 1 .. n + 1 /\ state.chat[n + 1] = old /\ Len(state.chat) = n + 1
      /\ \A i \in 1 .. n : base[i] = state.chat[i]
  BY <1>2, <1>7
<1> HIDE DEF base
<1>9. \A m \in DOMAIN base : base[m].calls = state.chat[m].calls
  BY <1>7, <1>8
<1>10. QED
  BY <1>3, <1>4, <1>5, <1>6, <1>8, <1>9 DEF ToldBefore, base

\* _append_tool_result_message, with all that is done before.
LEMMA ResultRequest ==
  ASSUME NEW state, Responses(state), NEW id \in Nat, client = "responses"
  PROVE  LET ends == EndsWith(IsCallMessage)
             asked == WithResult(Piece("result", id))
         IN  \E base : /\ ToldBefore(base.chat, state, ends)
                       /\ Converts(replay, asked, Extended(base, ToolChat(id)))
                       /\ asked # <<>> /\ Last(asked).role = "user"
<1> DEFINE ends == EndsWith(IsCallMessage)
           result == Piece("result", id)
           message == RequestMessage("user", FALSE, <<result>>, <<>>)
           reasoned == Append(Front(request), WithReasoning(Last(request), heldReasoning))
           start == IF heldReasoning # NoReasoning /\ ends THEN reasoned
                    ELSE Flushed(request, heldReasoning)
           next == Append(Front(start), [Last(start) EXCEPT !.blocks = Append(@, result)])
           asked == WithResult(result)
<1>1. /\ Converts(replay, request, state) /\ request \in Seq(Messages)
      /\ heldReasoning \in HeldReasoning
      /\ ends => request # <<>> /\ CallsOnly(Last(request))
  BY ResponsesAre
<1>2. asked = IF EndsWith(IsResultMessage) /\ start = request THEN next ELSE Append(start, message)
  BY DEF WithResult
<1>3. message \in Messages /\ message.role = "user"
  <2>1. result \in Blocks
    BY DEF Piece, Blocks
  <2> HIDE DEF result
  <2>2. <<result>> \in Seq(Blocks)
    BY <2>1
  <2>3. QED
    BY <2>2, UserMessageIs
<1>4. ASSUME NEW base, Converts(replay, start, base), asked = Append(start, message),
             ToldBefore(base.chat, state, ends)
      PROVE  /\ Converts(replay, asked, Extended(base, ToolChat(id)))
             /\ asked # <<>> /\ Last(asked).role = "user"
  <2>1. Converts(replay, Append(start, message), Extended(base, ToolChat(id)))
    <3> HIDE DEF start
    <3>1. QED
      BY <1>4, ResultConverts
  <2>2. start \in Seq(Messages)
    BY <1>4 DEF Converts
  <2> HIDE DEF start, message, asked
  <2>3. asked # <<>> /\ Last(asked) = message
    BY <1>3, <1>4, <2>2, EndsWithAppended
  <2>4. QED
    BY <1>3, <1>4, <2>1, <2>3
<1>5. CASE heldReasoning # NoReasoning /\ ends
  <2>1. start = reasoned
    BY <1>5
  <2>2. ~ EndsWith(IsResultMessage)
    <3>1. Last(request).role = "assistant"
      BY <1>1, <1>5 DEF CallsOnly, IsCallMessage
    <3>2. QED
      BY <3>1 DEF EndsWith, IsResultMessage
  <2>3. asked = Append(start, message)
    BY <1>2, <2>2
  <2>4. PICK front, old, said :
           /\ LastConverts(replay, request, WithReasoning(Last(request), heldReasoning), state,
                           front, old, said)
           /\ SaysMore(said, old) /\ Told(said) = Told(old) /\ said.calls = old.calls
           /\ Keeps(replay, said, heldReasoning.texts)
    BY <1>1, <1>5, CallsAreReasoned
  <2> DEFINE base == [chat |-> Append(front, said), pending |-> NoneDeferred]
  <2>5. /\ front \in Seq(ChatMessages) /\ state.chat = Append(front, old)
        /\ Converts(replay, start, base)
    BY <2>1, <2>4 DEF LastConverts
  <2>6. ToldBefore(base.chat, state, ends)
    BY <2>4, <2>5, ReasonedToldBefore
  <2>7. QED
    BY <1>4, <2>3, <2>5, <2>6
<1>6. CASE heldReasoning = NoReasoning
  <2>1. start = request
    BY <1>6 DEF Flushed
  <2>2. ToldBefore(state.chat, state, ends)
    BY <1>6, StateToldBefore
  <2>3. CASE EndsWith(IsResultMessage)
    <3>1. asked = next
      BY <1>2, <2>1, <2>3
    <3>2. request # <<>> /\ IsResultMessage(Last(request))
      BY <2>3 DEF EndsWith
    <3>3. Converts(replay, asked, Extended(state, ToolChat(id)))
      BY <1>1, <2>1, <3>1, <3>2, NextResultConverts
    <3>4. asked # <<>> /\ Last(asked).role = "user"
      <4> DEFINE front == Front(request)
                 last == Last(request)
                 more == [last EXCEPT !.blocks = Append(last.blocks, result)]
      <4>1. front \in Seq(Messages) /\ last \in Messages
        BY <1>1, <3>2, LastMessage
      <4>2. last.role = "user"
        BY <3>2 DEF IsResultMessage
      <4>3. asked = Append(front, more)
        BY <2>1, <3>1
      <4> HIDE DEF front, last, result, asked
      <4>4. more.role = "user"
        BY <4>1, <4>2 DEF Messages
      <4> HIDE DEF more
      <4>5. Len(asked) = Len(front) + 1 /\ asked[Len(front) + 1] = more
        BY <4>1, <4>3
      <4>6. Len(front) \in Nat
        BY <4>1
      <4>7. asked # <<>> /\ Last(asked) = more
        BY <4>5, <4>6 DEF Last
      <4>8. QED
        BY <4>4, <4>7
    <3>5. QED
      BY <2>2, <3>3, <3>4
  <2>4. CASE ~ EndsWith(IsResultMessage)
    <3>1. asked = Append(start, message)
      BY <1>2, <2>4
    <3>2. Converts(replay, start, state)
      BY <1>1, <2>1
    <3>3. QED
      BY <1>4, <2>2, <3>1, <3>2
  <2>5. QED
    BY <2>3, <2>4
<1>7. CASE heldReasoning # NoReasoning /\ ~ ends
  <2>1. start = Flushed(request, heldReasoning)
    BY <1>7
  <2>2. PICK base : /\ Converts(replay, Flushed(request, heldReasoning), base)
                    /\ Flushes(replay, base.chat, state.chat, heldReasoning)
                    /\ Flushed(request, heldReasoning) = request <=> heldReasoning = NoReasoning
    BY <1>1, FlushedConverts
  <2>3. asked = Append(start, message)
    BY <1>2, <1>7, <2>1, <2>2
  <2>4. ToldBefore(base.chat, state, ends)
    BY <1>7, <2>2, FlushedToldBefore
  <2>5. QED
    BY <1>4, <2>1, <2>2, <2>3, <2>4
<1>8. QED
  BY <1>5, <1>6, <1>7

\* The history that a result makes.
LEMMA OutputHistory ==
  ASSUME NEW state, Responses(state), NEW id \in openCalls, OutputItem(id)
  PROVE  LET piece == Piece("result", id)
         IN  /\ id \in 1 .. Len(pieces) /\ id \in Nat /\ piece \in Blocks /\ piece.kind = "result"
             /\ piece.id = id
             /\ NextHistory(pieces', openCalls', quarantined', pieces, openCalls, piece)
             /\ id \in quarantined => pieces[id].kind = "badCall"
             /\ id \notin quarantined => pieces[id].kind = "call"
             /\ openCalls' = openCalls \ {id} /\ quarantined' = quarantined
<1> DEFINE piece == Piece("result", id)
<1>1. /\ pieces \in Seq(Blocks) /\ IsHistory(pieces, openCalls, quarantined)
      /\ Len(pieces) \in Nat /\ DOMAIN pieces = 1 .. Len(pieces)
      /\ Len(pieces) + 1 \notin openCalls /\ openCalls \subseteq 1 .. Len(pieces)
  BY ResponsesAre
<1>2. /\ openCalls' = openCalls \ {id} /\ quarantined' = quarantined
      /\ pieces' = Append(pieces, piece)
  BY DEF OutputItem
<1>3. id \in 1 .. Len(pieces) /\ id \in Nat
  BY <1>1
<1>4. piece \in Blocks /\ piece.kind = "result" /\ piece.id = id
  BY <1>3 DEF Piece, Blocks
<1> HIDE DEF piece
<1>5. NextHistory(pieces', openCalls', quarantined', pieces, openCalls, piece)
  <2> DEFINE openThen == openCalls \ {id}
  <2>1. /\ openThen \subseteq openCalls \cup {Len(pieces) + 1} /\ piece.id \notin openThen
        /\ Len(pieces) + 1 \notin openThen /\ piece.id \in openCalls
    BY <1>1, <1>4
  <2> HIDE DEF openThen
  <2>2. NextHistory(Append(pieces, piece), openThen, quarantined, pieces, openCalls, piece)
    BY <1>1, <1>4, <2>1, HistoryGoesOn
  <2>3. QED
    BY <1>2, <2>2 DEF openThen
<1>6. pieces[id].kind \in {"call", "badCall"}
  BY <1>1 DEF IsHistory
<1>7. id \in quarantined <=> pieces[id].kind = "badCall"
  BY <1>1, <1>3 DEF IsHistory
<1>8. QED
  BY <1>2, <1>3, <1>4, <1>5, <1>6, <1>7 DEF piece

\* A result item keeps the invariant, whether its call was left out or not.
LEMMA OutputItemKeeps ==
  ASSUME NEW state, Responses(state), NEW id \in openCalls, OutputItem(id),
         UNCHANGED <<client, replay>>, client = "responses"
  PROVE  \E next : Responses(next)'
<1> DEFINE piece == Piece("result", id)
           n == Len(pieces)
           ends == EndsWith(IsCallMessage)
<1>1. /\ id \in 1 .. n /\ id \in Nat /\ piece \in Blocks /\ piece.kind = "result"
      /\ piece.id = id
      /\ NextHistory(pieces', openCalls', quarantined', pieces, openCalls, piece)
      /\ id \in quarantined => pieces[id].kind = "badCall"
      /\ id \notin quarantined => pieces[id].kind = "call"
      /\ openCalls' = openCalls \ {id} /\ quarantined' = quarantined
  BY OutputHistory
<1>2. /\ state.chat \in Seq(ChatMessages)
      /\ heldReasoning \in HeldReasoning
      /\ IsHistory(pieces, openCalls, quarantined)
      /\ OneTurn(pieces, openCalls)
      /\ Tells(state.chat, pieces, MustBeTold(pieces))
      /\ Thought(replay, state.chat, pieces, heldReasoning)
      /\ CallsFollow(client, state.chat, pieces, openCalls, quarantined, heldReasoning, ends)
      /\ n \in Nat /\ DOMAIN pieces = 1 .. n /\ IsFiniteSet(openCalls)
  BY ResponsesAre
<1>3. Output(id)
  BY DEF OutputItem
<1> HIDE DEF piece
<1>4. CASE id \in quarantined
  <2>1. UNCHANGED <<request, heldReasoning>>
    BY <1>3, <1>4 DEF Output
  <2>2. ~ IsTold(pieces, piece)
    BY <1>1, <1>4 DEF IsTold
  <2>3. heldReasoning' = heldReasoning
    BY <2>1
  <2>4. /\ openCalls' \subseteq openCalls \cup {n + 1}
        /\ openCalls' \ quarantined' = openCalls \ quarantined
    BY <1>1, <1>4
  <2>5. /\ piece.kind \notin {"prompt", "note"} /\ piece.kind # "thinking" /\ UNCHANGED <<client, replay, request>>
        /\ heldReasoning' \in HeldReasoning
        /\ ToSet(heldReasoning.texts) \subseteq ToSet(heldReasoning'.texts)
    BY <1>1, <1>2, <2>1
  <2>6. Responses(state)'
    BY <1>1, <2>2, <2>3, <2>4, <2>5, MessagesStay
  <2>7. QED
    BY <2>6
<1>5. CASE id \notin quarantined
  <2>1. request' = WithResult(Piece("result", id)) /\ heldReasoning' = NoReasoning
    BY <1>3, <1>5 DEF Output
  <2>2. PICK base : /\ ToldBefore(base.chat, state, ends)
                    /\ Converts(replay, request', Extended(base, ToolChat(id)))
                    /\ request' # <<>> /\ Last(request').role = "user"
    BY <1>1, <2>1, ResultRequest
  <2>3. /\ base.chat \in Seq(ChatMessages) /\ Continues(base.chat, state.chat)
        /\ Replayed(replay, base.chat, heldReasoning.texts)
        /\ Tells(base.chat, pieces, MustBeTold(pieces))
        /\ \A m \in DOMAIN base.chat : base.chat[m].calls # <<>> =>
              m \in DOMAIN state.chat /\ base.chat[m].calls = state.chat[m].calls
        /\ ends \/ heldReasoning = NoReasoning => Len(base.chat) = Len(state.chat)
    BY <2>2 DEF ToldBefore
  <2> DEFINE before == base.chat
             said == ToolChat(id)
             chat == Append(before, said)
             next == Extended(base, said)
  <2>4. said \in ChatMessages /\ Told(said) = <<piece>> /\ said.calls = <<>>
    BY <1>1, ChatTexts DEF piece
  <2>5. next.chat = chat
    BY DEF Extended
  <2>6. Converts(replay, request', next)
    BY <2>2
  <2> HIDE DEF said, before, next
  <2>7. Continues(chat, before)
    BY <2>3, <2>4, ContinuesAppended DEF before
  <2>8. Continues(chat, state.chat)
    BY <2>3, <2>7, ContinuesThrough DEF before
  <2>9. IsTold(pieces, piece)
    BY <1>1, <1>5 DEF IsTold
  <2>10. Tells(chat, pieces', MustBeTold(pieces'))
    BY <1>1, <2>3, <2>4, <2>9, PieceTold DEF before
  <2>11. Replayed(replay, chat, heldReasoning.texts)
    BY <2>3, <2>7, ReplayedOn DEF before
  <2> HIDE DEF chat
  <2>12. Thought(replay, chat, pieces', heldReasoning')
    BY <1>1, <1>2, <2>8, <2>11, ThoughtOn
  <2>13. OneTurn(pieces', openCalls')
    <3>1. openCalls' \subseteq openCalls \cup {n + 1} /\ piece.kind \notin {"prompt", "note"}
      BY <1>1
    <3>2. QED
      BY <1>1, <1>2, <3>1, OneTurnGoesOn
  <2>14. /\ pieces' \in Seq(Blocks) /\ IsHistory(pieces', openCalls', quarantined')
         /\ pieces'[Len(pieces')] = piece
    <3>1. Len(pieces') = n + 1 /\ pieces'[n + 1] = piece
      BY <1>1, NextHistoryIs
    <3>2. pieces' \in Seq(Blocks) /\ IsHistory(pieces', openCalls', quarantined')
      BY <1>1 DEF NextHistory
    <3>3. QED
      BY <3>1, <3>2
  <2>15. CallsHeld'
    BY <1>1, <2>14 DEF CallsHeld
  <2>16. ~ ends'
    BY <2>2 DEF EndsWith, IsCallMessage
  <2> HIDE DEF ends
  <2>17. \A m \in DOMAIN chat : chat[m].calls # <<>> =>
            m \in DOMAIN before /\ m \in DOMAIN state.chat /\ before[m].calls = state.chat[m].calls
    <3>1. TAKE m \in DOMAIN chat
    <3>2. HAVE chat[m].calls # <<>>
    <3>3. PICK k \in Nat : k = Len(before) /\ DOMAIN before = 1 .. k
      BY <2>3 DEF before
    <3>4. before \in Seq(ChatMessages)
      BY <2>3 DEF before
    <3>5. DOMAIN chat = 1 .. k + 1 /\ chat[k + 1] = said /\ \A i \in 1 .. k : chat[i] = before[i]
      BY <2>4, <3>3, <3>4 DEF chat
    <3>6. m # k + 1
      BY <2>4, <3>2, <3>5
    <3>7. m \in DOMAIN before /\ chat[m] = before[m]
      BY <3>1, <3>3, <3>5, <3>6
    <3>8. QED
      BY <2>3, <3>2, <3>7 DEF before
  <2>18. ASSUME NEW m \in DOMAIN chat, chat[m].calls # <<>>,
                Waits(client, state.chat, m, pieces, openCalls, quarantined, heldReasoning, ends)
         PROVE  \/ Settled(client, chat, m, pieces', openCalls')
                \/ Waits(client, chat, m, pieces', openCalls', quarantined', heldReasoning', ends')
    <3>1. m \in DOMAIN before /\ m \in DOMAIN state.chat /\ before[m].calls = state.chat[m].calls
      BY <2>17, <2>18
    <3>2. ends \/ heldReasoning = NoReasoning
      <4>1. PICK k \in Nat : k = Len(state.chat) /\ DOMAIN state.chat = 1 .. k
        BY <1>2
      <4>2. CASE k > m
        BY <2>18, <4>1, <4>2 DEF Waits
      <4>3. CASE k = m
        BY <2>18, <4>1, <4>3 DEF Waits
      <4>4. QED
        BY <3>1, <4>1, <4>2, <4>3
    <3>3. Len(before) = Len(state.chat)
      BY <2>3, <3>2 DEF before
    <3>4. pieces'[Len(pieces')].kind = "result"
      BY <1>1, <2>14
    <3>5. /\ before \in Seq(ChatMessages) /\ Continues(before, state.chat)
          /\ chat = Append(before, ToolChat(id)) /\ ToolChat(id) \in ChatMessages
      BY <2>3, <2>4 DEF before, chat, said
    <3>6. \/ ResultsFollow(Append(before, ToolChat(id)), m)
          \/ Waits(client, Append(before, ToolChat(id)), m, pieces', openCalls \ {id},
                   quarantined, NoReasoning, ends')
      BY <1>2, <1>5, <2>18, <3>1, <3>3, <3>4, <3>5, ResultAnswers
    <3>7. QED
      BY <1>1, <2>1, <3>5, <3>6 DEF Settled
  <2>19. CallsFollow(client, chat, pieces', openCalls', quarantined', heldReasoning', ends')
    BY <1>1, <1>2, <2>8, <2>17, <2>18, CallsFollowOn
  <2>20. heldReasoning' \in HeldReasoning
    BY <2>1, NoReasoningIs
  <2>21. Responses(next)'
    BY <2>5, <2>6, <2>10, <2>12, <2>13, <2>14, <2>15, <2>16, <2>19, <2>20 DEF Responses, ends
  <2>22. QED
    BY <2>21
<1>6. QED
  BY <1>4, <1>5

\* A message whose calls are all open, at the end.
LEMMA CallsWait ==
  ASSUME NEW who, NEW chat \in Seq(ChatMessages), NEW m \in DOMAIN chat, m >= Len(chat),
         chat[m].calls # <<>>, NEW open, ToSet(chat[m].calls) \subseteq open,
         NEW bad, open \ bad \subseteq ToSet(chat[m].calls), NEW history, NEW held, NEW ends, ends
  PROVE  Waits(who, chat, m, history, open, bad, held, ends)
<1> DEFINE calls == ToSet(chat[m].calls)
<1>1. m \in Nat /\ chat[m] \in ChatMessages /\ m = Len(chat)
  OBVIOUS
<1>2. chat[m].calls \in Seq(Nat)
  BY <1>1 DEF ChatMessages
<1>3. IsFiniteSet(calls) /\ Cardinality(calls) \in Nat /\ Cardinality(calls) > 0
  BY <1>2, ToSetIsFinite
<1>4. calls # {}
  BY <1>3, FS_EmptySet
<1> HIDE DEF calls
<1>5. calls \subseteq open /\ open \ bad \subseteq calls
  BY DEF calls
<1>6. calls \cap open = calls /\ calls \ open = {}
  BY <1>5
<1>7. {chat[k].answers : k \in m + 1 .. Len(chat)} = calls \ open
  <2>1. m + 1 .. Len(chat) = {}
    BY <1>1
  <2>2. {chat[k].answers : k \in {}} = {}
    OBVIOUS
  <2>3. QED
    BY <1>6, <2>1, <2>2
<1>8. Len(chat) - m + Cardinality(calls \cap open) = Cardinality(calls)
  <2>1. Len(chat) - m = 0
    BY <1>1
  <2>2. Cardinality(calls \cap open) = Cardinality(calls)
    BY <1>6
  <2>3. QED
    BY <1>3, <2>1, <2>2
<1>9. ~ (Len(chat) > m)
  BY <1>1
<1>10. QED
  BY <1>4, <1>5, <1>6, <1>7, <1>8, <1>9 DEF Waits, calls

\* A call after a text that came after a call.
LEMMA CallAfterText ==
  ASSUME NEW later, NEW openThen, NEW badThen, NEW history, NEW open, NEW piece,
         NextHistory(later, openThen, badThen, history, open, piece),
         OneTurn(history, open), ~ Answers(history, open),
         NEW p \in open, history[p].kind = "call",
         NEW q \in DOMAIN history, p < q, history[q].kind = "text"
  PROVE  TextAfter(later, {Len(history) + 1})
<1> DEFINE n == Len(history)
<1>1. /\ DOMAIN history = 1 .. n /\ DOMAIN later = 1 .. n + 1 /\ n \in Nat
      /\ later[n + 1] = piece /\ \A r \in DOMAIN history : later[r] = history[r]
  BY NextHistoryIs
<1>2. history \in Seq(Blocks) /\ open \in SUBSET DOMAIN history
  BY DEF NextHistory, IsHistory
<1> HIDE DEF n
<1>3. /\ p \in 1 .. n /\ q \in 1 .. n /\ later[p].kind = "call" /\ later[q].kind = "text"
      /\ p \in DOMAIN later /\ q \in DOMAIN later
  BY <1>1, <1>2
<1>4. \A r \in p + 1 .. n : later[r].kind \notin {"prompt", "note", "result"}
  <2>1. TAKE r \in p + 1 .. n
  <2>2. r \in DOMAIN history /\ r > p
    BY <1>1, <1>3
  <2>3. history[r].kind \notin {"prompt", "note", "result"}
    BY <1>2, <2>2, TurnGoesOn
  <2>4. QED
    BY <1>1, <2>2, <2>3
<1>5. SameTurn(later, p, q)
  <2>1. \A r \in (p + 1 .. q - 1) \cup (q + 1 .. p - 1) : r \in p + 1 .. n
    BY <1>1, <1>3
  <2>2. QED
    BY <1>4, <2>1 DEF SameTurn
<1>6. SameTurn(later, p, n + 1)
  <2>1. \A r \in (p + 1 .. (n + 1) - 1) \cup ((n + 1) + 1 .. p - 1) : r \in p + 1 .. n
    BY <1>1, <1>3
  <2>2. QED
    BY <1>4, <2>1 DEF SameTurn
<1>7. QED
  BY <1>3, <1>5, <1>6 DEF TextAfter, n

\* The history that a call makes.
LEMMA CallHistory ==
  ASSUME NEW state, Responses(state), NEW kind \in {"call", "badCall"},
         openCalls' = openCalls \cup {Fresh}, pieces' = Append(pieces, Piece(kind, Fresh)),
         quarantined' = IF kind = "badCall" THEN quarantined \cup {Fresh} ELSE quarantined
  PROVE  LET piece == Piece(kind, Fresh)
         IN  /\ piece \in Blocks /\ piece.kind = kind /\ piece.id = Len(pieces) + 1
             /\ NextHistory(pieces', openCalls', quarantined', pieces, openCalls, piece)
             /\ openCalls' = openCalls \cup {Len(pieces) + 1}
<1> DEFINE piece == Piece(kind, Fresh)
<1>1. /\ pieces \in Seq(Blocks) /\ IsHistory(pieces, openCalls, quarantined)
      /\ Len(pieces) \in Nat /\ Fresh = Len(pieces) + 1
  BY ResponsesAre
<1>2. piece \in Blocks /\ piece.kind = kind /\ piece.id = Len(pieces) + 1
  BY <1>1 DEF Piece, Blocks
<1>3. pieces' = Append(pieces, piece)
  OBVIOUS
<1> HIDE DEF piece
<1>4. openCalls' = openCalls \cup {Len(pieces) + 1}
  BY <1>1
<1>5. NextHistory(pieces', openCalls', quarantined', pieces, openCalls, piece)
  <2>1. quarantined' = IF piece.kind = "badCall" THEN quarantined \cup {Len(pieces) + 1} ELSE quarantined
    BY <1>1, <1>2
  <2>2. PICK openThen : openThen = openCalls \cup {Len(pieces) + 1}
    OBVIOUS
  <2>3. PICK badThen : badThen = IF piece.kind = "badCall" THEN quarantined \cup {Len(pieces) + 1}
                                 ELSE quarantined
    OBVIOUS
  <2>4. /\ openThen \subseteq openCalls \cup {Len(pieces) + 1} /\ piece.kind # "result"
        /\ piece.kind \in {"call", "badCall"}
    BY <1>2, <2>2
  <2>5. NextHistory(Append(pieces, piece), openThen, badThen, pieces, openCalls, piece)
    BY <1>1, <1>2, <2>3, <2>4, HistoryGoesOn
  <2>6. QED
    BY <1>3, <1>4, <2>1, <2>2, <2>3, <2>5
<1>6. QED
  BY <1>2, <1>4, <1>5 DEF piece

\* A call that is left out keeps the invariant.
LEMMA BadCallKeeps ==
  ASSUME NEW state, Responses(state), ~ Answers(pieces, openCalls),
         openCalls' = openCalls \cup {Fresh}, pieces' = Append(pieces, Piece("badCall", Fresh)),
         quarantined' = quarantined \cup {Fresh},
         UNCHANGED <<client, replay, request, heldReasoning>>
  PROVE  Responses(state)'
<1> DEFINE piece == Piece("badCall", Fresh)
<1>1. /\ piece \in Blocks /\ piece.kind = "badCall" /\ piece.id = Len(pieces) + 1
      /\ NextHistory(pieces', openCalls', quarantined', pieces, openCalls, piece)
      /\ openCalls' = openCalls \cup {Len(pieces) + 1}
  BY CallHistory
<1>2. /\ Fresh = Len(pieces) + 1 /\ Len(pieces) + 1 \notin openCalls
      /\ heldReasoning \in HeldReasoning
  BY ResponsesAre
<1> HIDE DEF piece
<1>3. ~ IsTold(pieces, piece) /\ piece.kind # "result" /\ piece.kind \notin {"prompt", "note"} /\ piece.kind # "thinking"
  BY <1>1 DEF IsTold
<1>4. openCalls' \ quarantined' = openCalls \ quarantined
  BY <1>1, <1>2
<1>5. /\ heldReasoning' \in HeldReasoning
      /\ ToSet(heldReasoning.texts) \subseteq ToSet(heldReasoning'.texts)
      /\ UNCHANGED <<client, replay, request>>
      /\ openCalls' \subseteq openCalls \cup {Len(pieces) + 1}
  BY <1>1, <1>2
<1>6. QED
  BY <1>1, <1>3, <1>4, <1>5, MessagesStay

\* A call that joins the calls before it, in messages and in the chat.
LEMMA CallJoinsLast ==
  ASSUME NEW state, Responses(state), EndsWith(IsCallMessage), NEW id \in Nat
  PROVE  LET asked == WithCall(Piece("call", id))
         IN  /\ asked # <<>> /\ CallsOnly(Last(asked))
             /\ \E front, old, said :
                   /\ front \in Seq(ChatMessages) /\ state.chat = Append(front, old)
                   /\ Converts(replay, asked, [chat |-> Append(front, said), pending |-> NoneDeferred])
                   /\ SaysMore(said, old) /\ OneMore(Told(said), Told(old), Piece("call", id))
                   /\ ToSet(said.calls) = ToSet(old.calls) \cup {id}
                   /\ Keeps(replay, said, heldReasoning.texts)
<1> DEFINE message == [WithReasoning(Last(request), heldReasoning)
                          EXCEPT !.blocks = Append(@, Piece("call", id))]
           asked == Append(Front(request), message)
<1>1. /\ Converts(replay, request, state) /\ request \in Seq(Messages) /\ request # <<>>
      /\ CallsOnly(Last(request)) /\ heldReasoning \in HeldReasoning
  BY ResponsesAre
<1>2. WithCall(Piece("call", id)) = asked
  BY DEF WithCall
<1>3. /\ CallsOnly(message)
      /\ \E front, old, said :
            /\ LastConverts(replay, request, message, state, front, old, said)
            /\ SaysMore(said, old) /\ OneMore(Told(said), Told(old), Piece("call", id))
            /\ ToSet(said.calls) = ToSet(old.calls) \cup {id}
            /\ Keeps(replay, said, heldReasoning.texts)
  BY <1>1, NextCallConverts
<1> HIDE DEF message
<1>4. message \in Messages
  BY <1>3 DEF CallsOnly
<1>5. Front(request) \in Seq(Messages)
  BY <1>1, LastMessage
<1>6. asked # <<>> /\ Last(asked) = message
  BY <1>4, <1>5, EndsWithAppended
<1>7. PICK front, old, said :
         /\ LastConverts(replay, request, message, state, front, old, said)
         /\ SaysMore(said, old) /\ OneMore(Told(said), Told(old), Piece("call", id))
         /\ ToSet(said.calls) = ToSet(old.calls) \cup {id}
         /\ Keeps(replay, said, heldReasoning.texts)
  BY <1>3
<1>8. /\ front \in Seq(ChatMessages) /\ state.chat = Append(front, old)
      /\ Converts(replay, asked, [chat |-> Append(front, said), pending |-> NoneDeferred])
  BY <1>7 DEF LastConverts
<1>9. QED
  BY <1>2, <1>3, <1>6, <1>7, <1>8

\* A call that comes after something else makes a message of its own.
LEMMA CallBegins ==
  ASSUME NEW state, Responses(state), ~ EndsWith(IsCallMessage), NEW id \in Nat
  PROVE  LET asked == WithCall(Piece("call", id))
         IN  /\ asked # <<>> /\ CallsOnly(Last(asked))
             /\ \E said : /\ SaysCalls(said, <<id>>, replay, heldReasoning.texts)
                          /\ Converts(replay, asked, Extended(state, said))
<1> DEFINE empty == RequestMessage("assistant", FALSE, <<>>, <<>>)
           message == [WithReasoning(empty, heldReasoning)
                          EXCEPT !.blocks = Append(@, Piece("call", id))]
           asked == Append(request, message)
<1>1. /\ Converts(replay, request, state) /\ request \in Seq(Messages)
      /\ heldReasoning \in HeldReasoning
  BY ResponsesAre
<1>2. WithCall(Piece("call", id)) = asked
  <2> DEFINE start == Append(request, empty)
  <2>1. empty \in Messages
    <3>1. FALSE \in BOOLEAN /\ <<>> \in Seq(Blocks) /\ <<>> \in Seq(Nat)
      OBVIOUS
    <3>2. QED
      BY <3>1, AssistantMessageIs
  <2> HIDE DEF empty
  <2>2. Front(start) = request /\ Last(start) = empty
    BY <1>1, <2>1 DEF Front, Last
  <2>3. WithCall(Piece("call", id)) =
           Append(Front(start), [WithReasoning(Last(start), heldReasoning)
                                   EXCEPT !.blocks = Append(@, Piece("call", id))])
    BY DEF WithCall, empty
  <2>4. QED
    BY <2>2, <2>3
<1>3. /\ CallsOnly(message)
      /\ \E said : /\ SaysCalls(said, <<id>>, replay, heldReasoning.texts)
                   /\ Converts(replay, Append(request, message), Extended(state, said))
  BY <1>1, NewCallConverts
<1> HIDE DEF message
<1>4. message \in Messages
  BY <1>3 DEF CallsOnly
<1>5. asked # <<>> /\ Last(asked) = message
  BY <1>1, <1>4, EndsWithAppended
<1>6. QED
  BY <1>2, <1>3, <1>5

\* The parts of the invariant that a call keeps wherever it goes.
LEMMA CallKeeps ==
  ASSUME NEW state, Responses(state), ~ Answers(pieces, openCalls), NEW next,
         openCalls' = openCalls \cup {Fresh}, pieces' = Append(pieces, Piece("call", Fresh)),
         heldReasoning' = NoReasoning, UNCHANGED <<client, replay, quarantined>>,
         Converts(replay, request', next), request' # <<>>, CallsOnly(Last(request')),
         Continues(next.chat, state.chat), Replayed(replay, next.chat, heldReasoning.texts),
         Tells(next.chat, pieces', MustBeTold(pieces')),
         CallsFollow(client, next.chat, pieces', openCalls', quarantined', heldReasoning', TRUE)
  PROVE  \E end : Responses(end)'
<1> DEFINE piece == Piece("call", Fresh)
<1>1. PICK end : end = next
  OBVIOUS
<1>2. "call" \in {"call", "badCall"} /\ quarantined' = IF "call" = "badCall" THEN quarantined \cup {Fresh} ELSE quarantined
  OBVIOUS
<1>3. /\ piece \in Blocks /\ piece.kind = "call" /\ piece.id = Len(pieces) + 1
      /\ NextHistory(pieces', openCalls', quarantined', pieces, openCalls, piece)
      /\ openCalls' = openCalls \cup {Len(pieces) + 1}
  BY <1>2, CallHistory
<1> HIDE DEF piece
<1>4. OneTurn(pieces, openCalls) /\ Thought(replay, state.chat, pieces, heldReasoning)
  BY ResponsesAre
<1>5. OneTurn(pieces', openCalls')
  BY <1>3, <1>4, OneTurnGoesOn
<1>6. Thought(replay, next.chat, pieces', heldReasoning')
  BY <1>3, <1>4, ThoughtOn
<1>7. IsCallMessage(Last(request'))
  BY DEF CallsOnly
<1>8. EndsWith(IsCallMessage)' = TRUE
  BY <1>7 DEF EndsWith
<1>9. CallsHeld'
  BY <1>8 DEF CallsHeld
<1>10. pieces' \in Seq(Blocks) /\ IsHistory(pieces', openCalls', quarantined')
  BY <1>3, NextHistoryIs DEF NextHistory
<1>11. heldReasoning' \in HeldReasoning
  BY NoReasoningIs
<1>12. CallsFollow(client, next.chat, pieces', openCalls', quarantined', heldReasoning',
                   EndsWith(IsCallMessage)')
  BY <1>8
<1>13. Responses(end)'
  BY <1>1, <1>5, <1>6, <1>9, <1>10, <1>11, <1>12 DEF Responses
<1>14. QED
  BY <1>13

\* A call after a call.
LEMMA JoinedCallKeeps ==
  ASSUME NEW state, Responses(state), ~ Answers(pieces, openCalls), EndsWith(IsCallMessage),
         openCalls' = openCalls \cup {Fresh}, pieces' = Append(pieces, Piece("call", Fresh)),
         request' = WithCall(Piece("call", Fresh)),
         heldReasoning' = NoReasoning, UNCHANGED <<client, replay, quarantined>>
  PROVE  \E end : Responses(end)'
<1> DEFINE piece == Piece("call", Fresh)
           ends == EndsWith(IsCallMessage)
           n == Len(pieces)
<1>1. "call" \in {"call", "badCall"} /\ quarantined' = IF "call" = "badCall" THEN quarantined \cup {Fresh} ELSE quarantined
  OBVIOUS
<1>2. /\ piece \in Blocks /\ piece.kind = "call" /\ piece.id = Len(pieces) + 1
      /\ NextHistory(pieces', openCalls', quarantined', pieces, openCalls, piece)
      /\ openCalls' = openCalls \cup {Len(pieces) + 1}
  BY <1>1, CallHistory
<1>3. /\ state.chat \in Seq(ChatMessages) /\ n \in Nat /\ Fresh = n + 1
      /\ Tells(state.chat, pieces, MustBeTold(pieces))
      /\ CallsFollow(client, state.chat, pieces, openCalls, quarantined, heldReasoning, ends)
      /\ openCalls \subseteq 1 .. n
  BY ResponsesAre
<1>4. Fresh \in Nat
  BY <1>3
<1>5. /\ request' # <<>> /\ CallsOnly(Last(request'))
      /\ \E front, old, said :
            /\ front \in Seq(ChatMessages) /\ state.chat = Append(front, old)
            /\ Converts(replay, request', [chat |-> Append(front, said), pending |-> NoneDeferred])
            /\ SaysMore(said, old) /\ OneMore(Told(said), Told(old), piece)
            /\ ToSet(said.calls) = ToSet(old.calls) \cup {Fresh}
            /\ Keeps(replay, said, heldReasoning.texts)
  BY <1>4, CallJoinsLast
<1>6. PICK front, old, said :
         /\ front \in Seq(ChatMessages) /\ state.chat = Append(front, old)
         /\ Converts(replay, request', [chat |-> Append(front, said), pending |-> NoneDeferred])
         /\ SaysMore(said, old) /\ OneMore(Told(said), Told(old), piece)
         /\ ToSet(said.calls) = ToSet(old.calls) \cup {Fresh}
         /\ Keeps(replay, said, heldReasoning.texts)
  BY <1>5
<1> DEFINE new == Append(front, said)
           next == [chat |-> new, pending |-> NoneDeferred]
<1>7. /\ old \in ChatMessages /\ said \in ChatMessages
      /\ said.answers = old.answers /\ ToSet(old.calls) \subseteq ToSet(said.calls)
      /\ old.calls # <<>> /\ said.calls # <<>>
      /\ ToSet(old.reasoning) \subseteq ToSet(said.reasoning)
  BY <1>6 DEF SaysMore
<1> HIDE DEF piece
<1>8. Continues(new, Append(front, old))
  BY <1>6, <1>7, ContinuesLast
<1>9. Continues(new, state.chat)
  BY <1>6, <1>8
<1>10. Replayed(replay, new, heldReasoning.texts)
  BY <1>6, <1>7, SaidIsReplayed
<1>11. IsTold(pieces, piece)
  BY <1>2 DEF IsTold
<1>12. Tells(Append(front, old), pieces, MustBeTold(pieces))
  BY <1>3, <1>6
<1>13. Tells(new, pieces', MustBeTold(pieces'))
  BY <1>2, <1>6, <1>7, <1>11, <1>12, PieceToldLast
<1>14. CallsFollow(client, new, pieces', openCalls', quarantined', heldReasoning', TRUE)
  <2>1. /\ new \in Seq(ChatMessages) /\ Len(new) = Len(state.chat) /\ Len(state.chat) \in Nat
        /\ DOMAIN new = 1 .. Len(new) /\ DOMAIN state.chat = 1 .. Len(new)
        /\ new[Len(new)] = said /\ state.chat[Len(new)] = old
    BY <1>6, <1>7
  <2> HIDE DEF new, ends
  <2>2. ASSUME NEW m \in DOMAIN new, new[m].calls # <<>>,
               m \in DOMAIN state.chat =>
                  /\ state.chat[m].calls # <<>>
                  /\ Waits(client, state.chat, m, pieces, openCalls, quarantined, heldReasoning, ends)
        PROVE  Waits(client, new, m, pieces', openCalls', quarantined', heldReasoning', TRUE)
    <3>1. /\ m \in DOMAIN state.chat
          /\ Waits(client, state.chat, m, pieces, openCalls, quarantined, heldReasoning, ends)
      BY <2>1, <2>2
    <3>2. m = Len(state.chat) /\ ToSet(state.chat[m].calls) \subseteq openCalls
      BY <1>3, <3>1, WaitsAtEnd
    <3>3. openCalls \ quarantined \subseteq ToSet(state.chat[m].calls)
      BY <3>1 DEF Waits
    <3>4. new[m] = said /\ state.chat[m] = old /\ m >= Len(new)
      BY <2>1, <3>2
    <3>5. ToSet(new[m].calls) = ToSet(state.chat[m].calls) \cup {Fresh}
      BY <1>6, <3>4
    <3>6. /\ ToSet(new[m].calls) \subseteq openCalls'
          /\ openCalls' \ quarantined' \subseteq ToSet(new[m].calls)
      BY <3>2, <3>3, <3>5
    <3>7. QED
      BY <2>1, <2>2, <3>4, <3>6, CallsWait
  <2>3. QED
    BY <1>2, <1>3, <1>9, <2>2, CallsFollowOn
<1>15. next.chat = new
  OBVIOUS
<1>16. Converts(replay, request', next)
  BY <1>6
<1> HIDE DEF next, new
<1>17. QED
  BY <1>5, <1>9, <1>10, <1>13, <1>14, <1>15, <1>16, CallKeeps

\* A call after something else.
LEMMA BegunCallKeeps ==
  ASSUME NEW state, Responses(state), ~ Answers(pieces, openCalls), ~ EndsWith(IsCallMessage),
         openCalls' = openCalls \cup {Fresh}, pieces' = Append(pieces, Piece("call", Fresh)),
         request' = WithCall(Piece("call", Fresh)), client = "responses",
         heldReasoning' = NoReasoning, UNCHANGED <<client, replay, quarantined>>
  PROVE  \E end : Responses(end)'
<1> DEFINE piece == Piece("call", Fresh)
           ends == EndsWith(IsCallMessage)
           n == Len(pieces)
           k == Len(state.chat)
<1>1. "call" \in {"call", "badCall"} /\ quarantined' = IF "call" = "badCall" THEN quarantined \cup {Fresh} ELSE quarantined
  OBVIOUS
<1>2. /\ piece \in Blocks /\ piece.kind = "call" /\ piece.id = n + 1
      /\ NextHistory(pieces', openCalls', quarantined', pieces, openCalls, piece)
      /\ openCalls' = openCalls \cup {n + 1}
  BY <1>1, CallHistory
<1>3. /\ state.chat \in Seq(ChatMessages) /\ n \in Nat /\ Fresh = n + 1
      /\ Tells(state.chat, pieces, MustBeTold(pieces))
      /\ CallsFollow(client, state.chat, pieces, openCalls, quarantined, heldReasoning, ends)
      /\ openCalls \subseteq 1 .. n /\ DOMAIN pieces = 1 .. n
      /\ OneTurn(pieces, openCalls) /\ IsHistory(pieces, openCalls, quarantined)
  BY ResponsesAre
<1>4. Fresh \in Nat
  BY <1>3
<1>5. /\ request' # <<>> /\ CallsOnly(Last(request'))
      /\ \E said : /\ SaysCalls(said, <<Fresh>>, replay, heldReasoning.texts)
                   /\ Converts(replay, request', Extended(state, said))
  BY <1>4, CallBegins
<1>6. PICK said : /\ SaysCalls(said, <<Fresh>>, replay, heldReasoning.texts)
                  /\ Converts(replay, request', Extended(state, said))
  BY <1>5
<1>7. /\ said \in ChatMessages /\ said.role = "assistant" /\ said.text = <<>>
      /\ said.answers = 0 /\ said.calls = <<Fresh>> /\ said.calls # <<>>
      /\ Keeps(replay, said, heldReasoning.texts)
  BY <1>6 DEF SaysCalls, Keeps
<1>8. Told(said) = <<piece>>
  <2>1. Told(said) = [c \in DOMAIN said.calls |-> Piece("call", said.calls[c])]
    BY <1>7, ToldCalls
  <2>2. QED
    BY <1>7, <2>1
<1> DEFINE new == Append(state.chat, said)
           next == Extended(state, said)
<1>9. ToSet(said.calls) = {n + 1}
  BY <1>3, <1>7 DEF ToSet
<1> HIDE DEF piece
<1>10. Continues(new, state.chat)
  BY <1>3, <1>7, ContinuesAppended
<1>11. Replayed(replay, new, heldReasoning.texts)
  BY <1>3, <1>7, SaidIsReplayed
<1>12. IsTold(pieces, piece)
  BY <1>2 DEF IsTold
<1>13. Tells(new, pieces', MustBeTold(pieces'))
  BY <1>2, <1>3, <1>7, <1>8, <1>12, PieceTold
<1>14. CallsFollow(client, new, pieces', openCalls', quarantined', heldReasoning', TRUE)
  <2>1. /\ new \in Seq(ChatMessages) /\ Len(new) = k + 1 /\ k \in Nat
        /\ DOMAIN new = 1 .. k + 1 /\ DOMAIN state.chat = 1 .. k
        /\ new[k + 1] = said
    BY <1>3, <1>7
  <2> HIDE DEF new, ends, k, n
  <2>2. ASSUME NEW m \in DOMAIN new, new[m].calls # <<>>,
               m \in DOMAIN state.chat =>
                  /\ state.chat[m].calls # <<>>
                  /\ Waits(client, state.chat, m, pieces, openCalls, quarantined, heldReasoning, ends)
        PROVE  \/ Settled(client, new, m, pieces', openCalls')
               \/ Waits(client, new, m, pieces', openCalls', quarantined', heldReasoning', TRUE)
    <3>1. m \notin DOMAIN state.chat
      <4>1. ASSUME m \in DOMAIN state.chat
            PROVE  FALSE
        <5>1. client = "responses" => ends
          BY <1>3, <2>2, <4>1, WaitsAtEnd
        <5>2. QED
          BY <5>1 DEF ends
      <4>2. QED
        BY <4>1
    <3>2. m = k + 1 /\ m >= Len(new) /\ ToSet(new[m].calls) = {n + 1}
      BY <1>9, <2>1, <3>1
    <3>3. CASE openCalls \ quarantined = {}
      <4>1. /\ ToSet(new[m].calls) \subseteq openCalls'
            /\ openCalls' \ quarantined' \subseteq ToSet(new[m].calls)
        BY <1>2, <3>2, <3>3
      <4>2. Waits(client, new, m, pieces', openCalls', quarantined', heldReasoning', TRUE)
        BY <2>1, <2>2, <3>2, <4>1, CallsWait
      <4>3. QED
        BY <4>2
    <3>4. CASE openCalls \ quarantined # {}
      <4>1. openCalls # {}
        BY <3>4
      <4>2. pieces[Len(pieces)].kind # "result"
        BY <4>1 DEF Answers
      <4>3. CallsHeld
        BY DEF Responses
      <4>4. PICK p \in openCalls \ quarantined, q \in DOMAIN pieces : p < q /\ pieces[q].kind = "text"
        BY <3>4, <4>2, <4>3 DEF CallsHeld, ends
      <4>5. p \in openCalls /\ pieces[p].kind = "call"
        BY <1>3, <4>4 DEF IsHistory
      <4>6. TextAfter(pieces', {n + 1})
        BY <1>2, <1>3, <4>4, <4>5, CallAfterText DEF n
      <4>7. TextAfter(pieces', ToSet(new[m].calls))
        BY <3>2, <4>6
      <4>8. QED
        BY <4>7 DEF Settled
    <3>5. QED
      BY <3>3, <3>4
  <2>3. \A m \in DOMAIN new :
           /\ new[m].calls # <<>>
           /\ m \in DOMAIN state.chat =>
                 /\ state.chat[m].calls # <<>>
                 /\ Waits(client, state.chat, m, pieces, openCalls, quarantined, heldReasoning, ends)
           => \/ Settled(client, new, m, pieces', openCalls')
              \/ Waits(client, new, m, pieces', openCalls', quarantined', heldReasoning', TRUE)
    BY <2>2
  <2>4. QED
    BY <1>2, <1>3, <1>10, <2>3, CallsFollowOn
<1>15. next.chat = new
  BY DEF Extended
<1>16. Converts(replay, request', next)
  BY <1>6
<1> HIDE DEF next, new
<1>17. QED
  BY <1>5, <1>10, <1>11, <1>13, <1>14, <1>15, <1>16, CallKeeps

\* A call.
LEMMA CallItemKeeps ==
  ASSUME NEW state, Responses(state), CallItem, UNCHANGED <<client, replay>>, client = "responses"
  PROVE  \E end : Responses(end)'
<1>1. ~ Answers(pieces, openCalls) /\ openCalls' = openCalls \cup {Fresh}
  BY AnsweringIs DEF CallItem
<1>2. CASE /\ pieces' = Append(pieces, Piece("call", Fresh))
           /\ request' = WithCall(Piece("call", Fresh))
           /\ heldReasoning' = NoReasoning
           /\ UNCHANGED quarantined
  <2>1. CASE EndsWith(IsCallMessage)
    BY <1>1, <1>2, <2>1, JoinedCallKeeps
  <2>2. CASE ~ EndsWith(IsCallMessage)
    BY <1>1, <1>2, <2>2, BegunCallKeeps
  <2>3. QED
    BY <2>1, <2>2
<1>3. CASE /\ pieces' = Append(pieces, Piece("badCall", Fresh))
           /\ quarantined' = quarantined \cup {Fresh}
           /\ UNCHANGED <<request, heldReasoning>>
  <2>1. Responses(state)'
    BY <1>1, <1>3, BadCallKeeps
  <2>2. QED
    BY <2>1
<1>4. QED
  BY <1>2, <1>3 DEF CallItem

\* An item of a Responses client.
LEMMA ItemKeeps ==
  ASSUME NEW state, Responses(state), Item
  PROVE  \E end : Responses(end)'
<1>1. client = "responses" /\ UNCHANGED <<client, replay>>
  BY DEF Item
<1>2. CASE PromptItem
  BY <1>1, <1>2, PromptItemKeeps
<1>3. CASE TextItem
  BY <1>1, <1>3, TextItemKeeps
<1>4. CASE ReasoningItem
  <2>1. Responses(state)'
    BY <1>1, <1>4, ReasoningItemKeeps
  <2>2. QED
    BY <2>1
<1>5. CASE CallItem
  BY <1>1, <1>5, CallItemKeeps
<1>6. CASE \E id \in openCalls : OutputItem(id)
  BY <1>1, <1>6, OutputItemKeeps
<1>7. QED
  BY <1>2, <1>3, <1>4, <1>5, <1>6 DEF Item

-----------------------------------------------------------------------------
(* The conversation of an Anthropic client.                                *)

\* The reasoning of the blocks that are deferred.
Unsaid(blocks) == [texts |-> Ids(OfKind("thinking", blocks)), opaque |-> <<>>]

\* The model said nothing after the turn of a piece.
NothingSince(history, d) ==
    \A b \in d + 1 .. Len(history) :
        history[b].kind \in {"prompt", "note", "result"} \/ SameTurn(history, d, b)

\* The texts of these blocks are those places of the history: texts among the open
\* calls, which may follow all that has been told.
Defers(history, open, blocks, D) ==
    /\ D \subseteq MustBeTold(history)
    /\ Embeds(OfKind("text", blocks), history, D)
    /\ \A d \in D : /\ history[d].kind = "text" /\ NothingSince(history, d)
                    /\ \A c \in open : SameTurn(history, d, c)
    /\ ComeNext(history, MustBeTold(history) \ D, D)

\* The chat tells everything but what is deferred.
Telling(mode, history, open, state) ==
    /\ state \in States /\ history \in Seq(Blocks)
    /\ IsHistory(history, open, {})
    /\ state.pending.reasoning = <<>>
    /\ state.pending.blocks = <<>> => state.pending = NoneDeferred
    /\ state.pending.blocks # <<>> => state.pending.awaited = open
    /\ \E D : /\ Defers(history, open, state.pending.blocks, D)
              /\ Tells(state.chat, history, MustBeTold(history) \ D)
    /\ Thought(mode, state.chat, history, Unsaid(state.pending.blocks))

\* Of no blocks, nothing is unsaid.
LEMMA NothingUnsaid ==
  /\ \A kind : OfKind(kind, <<>>) = <<>>
  /\ ToSet(Unsaid(<<>>).texts) = {} /\ Unsaid(<<>>).texts = <<>>
<1>1. <<>> \in Seq(Blocks) /\ DOMAIN <<>> = {}
  OBVIOUS
<1>2. \A kind : OfKind(kind, <<>>) = <<>>
  BY <1>1, NoneOfKind
<1>3. Unsaid(<<>>).texts = Ids(<<>>)
  BY <1>2 DEF Unsaid
<1>4. Ids(<<>>) = <<>>
  BY DEF Ids
<1>5. ToSet(<<>>) = {}
  BY DEF ToSet
<1>6. QED
  BY <1>2, <1>3, <1>4, <1>5

\* No blocks defer no place.
LEMMA DefersNothing ==
  ASSUME NEW history, NEW open
  PROVE  /\ Defers(history, open, <<>>, {})
         /\ \A D : Defers(history, open, <<>>, D) => D = {}
<1>1. OfKind("text", <<>>) = <<>>
  BY NothingUnsaid
<1> DEFINE at == [k \in {} |-> k]
<1>2. DOMAIN <<>> = {}
  OBVIOUS
<1>3. Through(at, <<>>, history, {})
  BY <1>2 DEF Through
<1> HIDE DEF at
<1>4. Embeds(<<>>, history, {})
  BY <1>3 DEF Embeds
<1>5. Defers(history, open, <<>>, {})
  BY <1>1, <1>4 DEF Defers, ComeNext
<1>6. ASSUME NEW D, Defers(history, open, <<>>, D)
      PROVE  D = {}
  <2>1. Embeds(<<>>, history, D)
    BY <1>1, <1>6 DEF Defers
  <2>2. PICK f : Through(f, <<>>, history, D)
    BY <2>1 DEF Embeds
  <2>3. QED
    BY <1>2, <2>2 DEF Through
<1>7. QED
  BY <1>5, <1>6

\* A sequence of one piece is at its place.
LEMMA OneEmbeds ==
  ASSUME NEW s, NEW p \in Nat
  PROVE  Embeds(<<s[p]>>, s, {p})
<1> DEFINE at == [k \in {1} |-> p]
<1>1. DOMAIN <<s[p]>> = {1} /\ <<s[p]>>[1] = s[p]
  OBVIOUS
<1>2. Through(at, <<s[p]>>, s, {p})
  BY <1>1 DEF Through
<1> HIDE DEF at
<1>3. QED
  BY <1>2 DEF Embeds

\* The result of an open call.
LEMMA AnswerHistory ==
  ASSUME NEW history \in Seq(Blocks), NEW open, IsHistory(history, open, {}), NEW id \in open
  PROVE  LET piece == Piece("result", id)
         IN  /\ id \in Nat /\ id \in DOMAIN history /\ piece \in Blocks
             /\ piece.kind = "result" /\ piece.id = id /\ IsTold(history, piece)
             /\ NextHistory(Append(history, piece), open \ {id}, {}, history, open, piece)
<1> DEFINE piece == Piece("result", id)
           n == Len(history)
<1>1. DOMAIN history = 1 .. n /\ n \in Nat
  OBVIOUS
<1>2. id \in DOMAIN history /\ history[id].kind = "call" /\ n + 1 \notin open
  BY <1>1 DEF IsHistory
<1>3. id \in Nat
  BY <1>1, <1>2
<1>4. piece \in Blocks /\ piece.kind = "result" /\ piece.id = id
  BY <1>3 DEF Piece, Blocks
<1>5. IsTold(history, piece)
  BY <1>2, <1>4 DEF IsTold
<1> HIDE DEF piece
<1> DEFINE openThen == open \ {id}
           badThen == {}
<1>6. /\ openThen \subseteq open \cup {n + 1} /\ n + 1 \notin openThen /\ id \notin openThen
      /\ badThen = IF piece.kind = "badCall" THEN {} \cup {n + 1} ELSE {}
  BY <1>2, <1>4
<1> HIDE DEF openThen
<1>7. NextHistory(Append(history, piece), openThen, {}, history, open, piece)
  BY <1>4, <1>6, HistoryGoesOn
<1>8. QED
  BY <1>2, <1>3, <1>4, <1>5, <1>7 DEF piece, openThen

\* What a user may add while these places are deferred: the result of an open call, or
\* words in a list; a string only when nothing is deferred.
FromUser(piece, open, D) ==
    \/ piece.kind = "result" /\ piece.id \in open
    \/ piece.kind = "note" /\ (D # {} => open # {})
    \/ piece.kind = "prompt" /\ D = {}

\* A piece of the user's is told, and what is deferred stays so.
LEMMA DeferredStay ==
  ASSUME NEW history, NEW open, NEW openThen, openThen \subseteq open, NEW later, NEW piece,
         NextHistory(later, openThen, {}, history, open, piece),
         IsHistory(history, open, {}), IsTold(history, piece),
         NEW blocks, NEW D, Defers(history, open, blocks, D), FromUser(piece, open, D)
  PROVE  /\ Defers(later, openThen, blocks, D)
         /\ MustBeTold(later) \ D = (MustBeTold(history) \ D) \cup {Len(history) + 1}
<1> DEFINE n == Len(history)
           K == MustBeTold(history)
<1>1. /\ GrowsBy(later, history, <<piece>>) /\ MustBeTold(later) = K \cup {n + 1}
      /\ K \subseteq DOMAIN history /\ MustBeTold(later) \subseteq DOMAIN later
      /\ DOMAIN history = 1 .. n /\ DOMAIN later = 1 .. n + 1 /\ n \in Nat /\ Len(later) = n + 1
      /\ later[n + 1] = piece /\ \A p \in DOMAIN history : later[p] = history[p]
  BY OnePieceMore
<1>2. /\ D \subseteq K /\ Embeds(OfKind("text", blocks), history, D)
      /\ \A d \in D : /\ history[d].kind = "text" /\ NothingSince(history, d)
                      /\ \A c \in open : SameTurn(history, d, c)
      /\ ComeNext(history, K \ D, D)
  BY DEF Defers
<1> HIDE DEF K
<1>3. D \subseteq DOMAIN history /\ open \subseteq DOMAIN history /\ n + 1 \notin D
  BY <1>1, <1>2 DEF IsHistory
<1>4. Embeds(OfKind("text", blocks), later, D)
  BY <1>1, <1>3, <1>2, EmbedsLater
<1>5. ASSUME NEW d \in D
      PROVE  later[d].kind = "text" /\ NothingSince(later, d) /\ \A c \in open : SameTurn(later, d, c)
  <2>1. later[d].kind = "text" /\ d \in DOMAIN history
    BY <1>1, <1>2, <1>3
  <2>2. ASSUME NEW c \in open
        PROVE  SameTurn(later, d, c)
    <3>1. SameTurn(history, d, c)
      BY <1>2
    <3>2. c \in DOMAIN history
      BY <1>3
    <3>3. QED
      BY <1>1, <2>1, <3>1, <3>2, SameTurnLater
  <2>3. ASSUME NEW b \in d + 1 .. n + 1
        PROVE  later[b].kind \in {"prompt", "note", "result"} \/ SameTurn(later, d, b)
    <3>1. CASE b = n + 1
      BY <1>1, <3>1 DEF FromUser
    <3>2. CASE b # n + 1
      <4>1. b \in DOMAIN history /\ b \in d + 1 .. n
        BY <1>1, <2>1, <3>2
      <4>2. history[b].kind \in {"prompt", "note", "result"} \/ SameTurn(history, d, b)
        BY <1>2, <4>1 DEF NothingSince
      <4>3. QED
        BY <1>1, <2>1, <4>1, <4>2, SameTurnLater
    <3>3. QED
      BY <3>1, <3>2
  <2>4. NothingSince(later, d)
    BY <1>1, <2>3 DEF NothingSince
  <2>5. QED
    BY <2>1, <2>2, <2>4
<1>6. MustBeTold(later) \ D = (K \ D) \cup {n + 1}
  BY <1>1, <1>3
<1>7. ComeNext(later, (K \ D) \cup {n + 1}, D)
  <2>1. ASSUME NEW p \in K \ D, NEW q \in D
        PROVE  p < q \/ MayFollow(later, q, p)
    <3>1. p < q \/ MayFollow(history, q, p)
      BY <1>2 DEF ComeNext
    <3>2. p \in DOMAIN history /\ q \in DOMAIN history
      BY <1>1, <1>3
    <3>3. QED
      BY <1>1, <3>1, <3>2, MayFollowLater
  <2>2. ASSUME NEW q \in D
        PROVE  MayFollow(later, q, n + 1)
    <3>1. CASE piece.kind = "result" /\ piece.id \in open
      BY <1>1, <1>5, <3>1 DEF MayFollow
    <3>2. CASE piece.kind = "note"
      <4>1. open # {}
        BY <3>2 DEF FromUser
      <4>2. PICK c : c \in open
        BY <4>1
      <4>3. c \in 1 .. (n + 1) - 1 /\ later[c].kind = "call" /\ SameTurn(later, q, c)
        BY <1>1, <1>3, <1>5, <4>2 DEF IsHistory
      <4>4. ASSUME NEW r \in 1 .. (n + 1) - 1, later[r].kind = "result", later[r].id = c
            PROVE  FALSE
        <5>1. r \in DOMAIN history /\ history[r].kind = "result" /\ history[r].id = c
          BY <1>1, <4>4
        <5>2. QED
          BY <4>2, <5>1 DEF IsHistory
      <4>5. ~ AnsweredBefore(later, c, n + 1)
        BY <4>4 DEF AnsweredBefore
      <4>6. \A b \in q + 1 .. (n + 1) - 1 :
               later[b].kind \in {"prompt", "note", "result"} \/ SameTurn(later, q, b)
        <5>1. \A b \in q + 1 .. (n + 1) - 1 : b \in q + 1 .. n + 1
          BY <1>1, <1>3
        <5>2. QED
          BY <1>1, <1>5, <5>1 DEF NothingSince
      <4>7. MeantimeNote(later, q, n + 1)
        BY <1>1, <3>2, <4>3, <4>5, <4>6 DEF MeantimeNote
      <4>8. QED
        BY <1>5, <4>7 DEF MayFollow
    <3>3. QED
      BY <3>1, <3>2 DEF FromUser
  <2>3. QED
    BY <2>1, <2>2 DEF ComeNext
<1>8. Defers(later, openThen, blocks, D)
  BY <1>1, <1>2, <1>4, <1>5, <1>6, <1>7 DEF Defers
<1>9. QED
  BY <1>6, <1>8 DEF K

\* The chat goes on with a piece of the user's.
LEMMA TellingGoesOn ==
  ASSUME NEW mode, NEW history, NEW open, NEW state, Telling(mode, history, open, state),
         NEW openThen, openThen \subseteq open, NEW later, NEW piece,
         NextHistory(later, openThen, {}, history, open, piece), IsTold(history, piece),
         \/ piece.kind = "result" /\ piece.id \in open
         \/ piece.kind = "note" /\ (state.pending.blocks # <<>> => open # {})
         \/ piece.kind = "prompt" /\ state.pending.blocks = <<>>,
         NEW said \in ChatMessages, Told(said) = <<piece>>,
         NEW next \in States, next.chat = Append(state.chat, said),
         next.pending.blocks = state.pending.blocks, next.pending.reasoning = <<>>,
         state.pending.blocks = <<>> => next.pending = NoneDeferred,
         state.pending.blocks # <<>> => next.pending.awaited = openThen
  PROVE  Telling(mode, later, openThen, next)
<1> DEFINE blocks == state.pending.blocks
           K == MustBeTold(history)
           n == Len(history)
<1>1. /\ state \in States /\ IsHistory(history, open, {})
      /\ \E D : Defers(history, open, blocks, D) /\ Tells(state.chat, history, K \ D)
      /\ Thought(mode, state.chat, history, Unsaid(blocks))
  BY DEF Telling
<1>2. state.chat \in Seq(ChatMessages)
  BY <1>1 DEF States
<1>3. /\ GrowsBy(later, history, <<piece>>)
      /\ K \subseteq DOMAIN history /\ MustBeTold(later) \subseteq DOMAIN later
      /\ DOMAIN history = 1 .. n /\ DOMAIN later = 1 .. n + 1 /\ n \in Nat
      /\ later[n + 1] = piece /\ Distinct(later, DOMAIN later)
  BY OnePieceMore
<1>4. later \in Seq(Blocks) /\ IsHistory(later, openThen, {})
  BY NextHistoryIs DEF NextHistory
<1> DEFINE chat == state.chat
<1>5. /\ next.chat = Append(chat, said) /\ next.pending.blocks = blocks
      /\ blocks = <<>> => next.pending = NoneDeferred
      /\ blocks # <<>> => next.pending.awaited = openThen
      /\ chat \in Seq(ChatMessages)
      /\ \/ piece.kind = "result" /\ piece.id \in open
         \/ piece.kind = "note" /\ (blocks # <<>> => open # {})
         \/ piece.kind = "prompt" /\ blocks = <<>>
  BY <1>2
<1>6. PICK D : Defers(history, open, blocks, D) /\ Tells(chat, history, K \ D)
  BY <1>1
<1> HIDE DEF n, blocks, K, chat
<1>7. FromUser(piece, open, D)
  <2>1. blocks = <<>> => D = {}
    BY <1>6, DefersNothing
  <2>2. QED
    BY <1>5, <2>1 DEF FromUser
<1>8. /\ Defers(later, openThen, blocks, D)
      /\ MustBeTold(later) \ D = (K \ D) \cup {n + 1}
  <2>1. /\ Defers(later, openThen, blocks, D)
        /\ MustBeTold(later) \ D = (MustBeTold(history) \ D) \cup {Len(history) + 1}
    <3>1. Defers(history, open, blocks, D) /\ FromUser(piece, open, D) /\ IsHistory(history, open, {})
      BY <1>1, <1>6, <1>7
    <3>2. /\ NextHistory(later, openThen, {}, history, open, piece) /\ IsTold(history, piece)
          /\ openThen \subseteq open
      OBVIOUS
    <3>3. Defers(later, openThen, blocks, D)
      BY <3>1, <3>2, DeferredStay
    <3>4. /\ D \subseteq MustBeTold(history) /\ MustBeTold(history) \subseteq 1 .. Len(history)
          /\ MustBeTold(later) = MustBeTold(history) \cup {Len(history) + 1} /\ Len(history) \in Nat
      BY <3>1, <3>2, OnePieceMore DEF Defers
    <3>5. Len(history) + 1 \notin D
      BY <3>4
    <3>6. QED
      BY <3>3, <3>4, <3>5
  <2>2. QED
    BY <2>1 DEF n, K
<1>9. Tells(next.chat, later, (K \ D) \cup {n + 1})
  <2>1. K \ D \subseteq DOMAIN history
    BY <1>3
  <2>2. Tells(chat, later, K \ D)
    BY <1>1, <1>3, <1>6, <2>1, TellsLater
  <2>3. Embeds(<<later[n + 1]>>, later, {n + 1})
    BY <1>3, OneEmbeds
  <2>4. Embeds(Told(said), later, {n + 1})
    BY <1>3, <2>3
  <2>5. K \ D \in SUBSET Nat /\ {n + 1} \in SUBSET Nat /\ (K \ D) \cap {n + 1} = {}
    BY <1>3
  <2>6. Distinct(later, (K \ D) \cup {n + 1})
    BY <1>3 DEF Distinct
  <2>7. ComeNext(later, K \ D, {n + 1})
    BY <1>3 DEF ComeNext
  <2>8. Tells(Append(chat, said), later, (K \ D) \cup {n + 1})
    BY <1>5, <2>2, <2>4, <2>5, <2>6, <2>7, MessageTells
  <2>9. QED
    BY <1>5, <2>8
<1>10. Thought(mode, next.chat, later, Unsaid(blocks))
  <2>1. Append(chat, said) \in Seq(ChatMessages) /\ Thought(mode, chat, history, Unsaid(blocks))
    BY <1>1, <1>5 DEF chat
  <2>2. Continues(Append(chat, said), chat)
    BY <1>5, ContinuesAppended
  <2>3. piece.kind # "thinking"
    BY <1>5
  <2>4. Thought(mode, Append(chat, said), later, Unsaid(blocks))
    BY <2>1, <2>2, <2>3, ThoughtOn
  <2>5. QED
    BY <1>5, <2>4
<1>11. \E E : /\ Defers(later, openThen, next.pending.blocks, E)
               /\ Tells(next.chat, later, MustBeTold(later) \ E)
  BY <1>5, <1>8, <1>9
<1>12. QED
  BY <1>4, <1>5, <1>10, <1>11 DEF Telling

Answered(state, id) ==
    [chat |-> Append(state.chat, ToolChat(id)),
     pending |-> [state.pending EXCEPT !.awaited = @ \ {id}]]

\* What a result does to the state.
LEMMA AnsweredIs ==
  ASSUME NEW state \in States, NEW id \in Nat
  PROVE  /\ Answered(state, id) \in States
         /\ Answered(state, id).chat = Append(state.chat, ToolChat(id))
         /\ Answered(state, id).pending.blocks = state.pending.blocks
         /\ Answered(state, id).pending.reasoning = state.pending.reasoning
         /\ Answered(state, id).pending.awaited = state.pending.awaited \ {id}
         /\ state.pending = NoneDeferred => Answered(state, id).pending = NoneDeferred
         /\ state.chat \in Seq(ChatMessages) /\ ToolChat(id) \in ChatMessages
<1>1. PICK awaited, blocks, reasoning :
        /\ awaited \in SUBSET Nat /\ blocks \in Seq(Blocks) /\ reasoning \in Seq(Nat)
        /\ state.pending = [awaited |-> awaited, blocks |-> blocks, reasoning |-> reasoning]
        /\ state.chat \in Seq(ChatMessages)
  BY DEF States
<1>2. ToolChat(id) \in ChatMessages
  BY DEF ToolChat, ChatMessage, ChatMessages
<1>3. [state.pending EXCEPT !.awaited = @ \ {id}] =
         [awaited |-> awaited \ {id}, blocks |-> blocks, reasoning |-> reasoning]
  <2>1. state.pending = [awaited |-> awaited, blocks |-> blocks, reasoning |-> reasoning]
    BY <1>1
  <2>2. [[awaited |-> awaited, blocks |-> blocks, reasoning |-> reasoning] EXCEPT !.awaited = @ \ {id}] =
           [awaited |-> awaited \ {id}, blocks |-> blocks, reasoning |-> reasoning]
    OBVIOUS
  <2>3. QED
    BY <2>1, <2>2
<1>4. Answered(state, id) =
        [chat |-> Append(state.chat, ToolChat(id)),
         pending |-> [awaited |-> awaited \ {id}, blocks |-> blocks, reasoning |-> reasoning]]
  BY <1>3 DEF Answered
<1>5. Append(state.chat, ToolChat(id)) \in Seq(ChatMessages)
  BY <1>1, <1>2
<1>6. awaited \ {id} \in SUBSET Nat
  BY <1>1
<1>7. Answered(state, id) \in States
  BY <1>1, <1>4, <1>5, <1>6 DEF States
<1>8. state.pending = NoneDeferred => Answered(state, id).pending = NoneDeferred
  <2> SUFFICES ASSUME state.pending = NoneDeferred
               PROVE  Answered(state, id).pending = NoneDeferred
    OBVIOUS
  <2>1. /\ state.pending.awaited = {} /\ state.pending.blocks = <<>>
        /\ state.pending.reasoning = <<>>
    BY DEF NoneDeferred
  <2>2. awaited \ {id} = {} /\ blocks = <<>> /\ reasoning = <<>>
    BY <1>1, <2>1
  <2>3. Answered(state, id).pending =
           [awaited |-> awaited \ {id}, blocks |-> blocks, reasoning |-> reasoning]
    BY <1>4
  <2>4. Answered(state, id).pending = [awaited |-> {}, blocks |-> <<>>, reasoning |-> <<>>]
    BY <2>2, <2>3
  <2>5. QED
    BY <2>4 DEF NoneDeferred
<1>9. QED
  BY <1>1, <1>2, <1>4, <1>7, <1>8

\* A result is told.
LEMMA AnswerTold ==
  ASSUME NEW mode, NEW history, NEW open, NEW state, Telling(mode, history, open, state),
         NEW id \in open
  PROVE  Telling(mode, Append(history, Piece("result", id)), open \ {id}, Answered(state, id))
<1> DEFINE piece == Piece("result", id)
           later == Append(history, piece)
           openThen == open \ {id}
           next == Answered(state, id)
           blocks == state.pending.blocks
<1>1. /\ state \in States /\ history \in Seq(Blocks) /\ IsHistory(history, open, {})
      /\ state.pending.reasoning = <<>>
      /\ blocks = <<>> => state.pending = NoneDeferred
      /\ blocks # <<>> => state.pending.awaited = open
  BY DEF Telling
<1>2. /\ id \in Nat /\ piece \in Blocks /\ piece.kind = "result" /\ piece.id = id
      /\ IsTold(history, piece)
      /\ NextHistory(later, openThen, {}, history, open, piece)
  BY <1>1, AnswerHistory
<1>3. /\ next \in States /\ next.chat = Append(state.chat, ToolChat(id))
      /\ next.pending.blocks = blocks
      /\ next.pending.reasoning = state.pending.reasoning
      /\ next.pending.awaited = state.pending.awaited \ {id}
      /\ state.pending = NoneDeferred => next.pending = NoneDeferred
      /\ ToolChat(id) \in ChatMessages
  BY <1>1, <1>2, AnsweredIs
<1>4. Told(ToolChat(id)) = <<piece>>
  BY <1>2, ChatTexts
<1>5. openThen \subseteq open
  OBVIOUS
<1>6. /\ blocks = <<>> => next.pending = NoneDeferred
      /\ blocks # <<>> => next.pending.awaited = openThen
      /\ next.pending.reasoning = <<>>
  BY <1>1, <1>3
<1> HIDE DEF piece, later, next, openThen
<1>7. Telling(mode, later, openThen, next)
  BY <1>2, <1>3, <1>4, <1>5, <1>6, TellingGoesOn
<1>8. QED
  BY <1>7 DEF later, piece, openThen, next

\* Nothing is deferred: the chat tells all.
LEMMA AllTold ==
  ASSUME NEW mode, NEW history, NEW open, NEW state, Telling(mode, history, open, state),
         state.pending.blocks = <<>>
  PROVE  /\ Undeferred(state) /\ Tells(state.chat, history, MustBeTold(history))
         /\ Thought(mode, state.chat, history, Unsaid(<<>>))
<1>1. PICK D : /\ Defers(history, open, state.pending.blocks, D)
               /\ Tells(state.chat, history, MustBeTold(history) \ D)
  BY DEF Telling
<1>2. D = {}
  <2>1. Defers(history, open, <<>>, D)
    BY <1>1
  <2>2. QED
    BY <2>1, DefersNothing
<1>3. MustBeTold(history) \ D = MustBeTold(history)
  BY <1>2
<1>4. QED
  BY <1>1, <1>3 DEF Undeferred, Telling

TellsDeferred(mode, history, open, state, joined) ==
    /\ Telling(mode, history, open, joined) /\ joined.pending.blocks = <<>>
    /\ joined.chat \in Seq(ChatMessages) /\ Continues(joined.chat, state.chat)
    /\ \A m \in DOMAIN joined.chat : joined.chat[m].calls # <<>> =>
          m \in DOMAIN state.chat /\ joined.chat[m].calls = state.chat[m].calls

\* What is deferred is told at the end.
LEMMA DeferredTold ==
  ASSUME NEW mode, NEW history, NEW open, NEW state, Telling(mode, history, open, state)
  PROVE  TellsDeferred(mode, history, open, state, Joined(mode, state))
<1> DEFINE joined == Joined(mode, state)
           blocks == state.pending.blocks
           K == MustBeTold(history)
           said == AssistantChat(mode, blocks, state.pending.reasoning)
<1>1. /\ state \in States /\ history \in Seq(Blocks) /\ IsHistory(history, open, {})
      /\ state.pending.reasoning = <<>>
      /\ blocks = <<>> => state.pending = NoneDeferred
      /\ \E D : Defers(history, open, blocks, D) /\ Tells(state.chat, history, K \ D)
      /\ Thought(mode, state.chat, history, Unsaid(blocks))
  BY DEF Telling
<1>2. state.chat \in Seq(ChatMessages) /\ blocks \in Seq(Blocks)
  BY <1>1 DEF States
<1>3. /\ joined \in States
      /\ blocks = <<>> => joined = state
      /\ blocks # <<>> =>
            /\ joined.chat = Append(state.chat, said)
            /\ joined.pending = NoneDeferred
  BY <1>1, JoinedIs
<1>4. CASE blocks = <<>>
  <2>1. joined = state
    BY <1>3, <1>4
  <2>2. Continues(state.chat, state.chat)
    BY <1>2, ContinuesItself
  <2>3. joined.chat = state.chat /\ Telling(mode, history, open, joined)
    BY <2>1
  <2>4. QED
    BY <1>2, <1>4, <2>1, <2>2, <2>3 DEF TellsDeferred
<1>5. CASE blocks # <<>>
  <2>1. joined.chat = Append(state.chat, said) /\ joined.pending = NoneDeferred
    BY <1>3, <1>5
  <2>2. NoneDeferred.blocks = <<>> /\ NoneDeferred.reasoning = <<>>
    BY DEF NoneDeferred
  <2>3. state.pending.reasoning \in Seq(Nat)
    BY <1>1
  <2>4. /\ said \in ChatMessages /\ said.role = "assistant" /\ said.calls = <<>>
        /\ said.answers = 0 /\ said.text = OfKind("text", blocks)
        /\ said.reasoning = IF mode = "disabled" THEN <<>>
                            ELSE IF state.pending.reasoning # <<>> THEN state.pending.reasoning
                            ELSE Ids(OfKind("thinking", blocks))
    <3> HIDE DEF blocks
    <3> DEFINE reasoning == state.pending.reasoning
    <3>1. reasoning \in Seq(Nat) /\ blocks \in Seq(Blocks)
      BY <1>2, <2>3
    <3> HIDE DEF reasoning
    <3>2. LET said1 == AssistantChat(mode, blocks, reasoning)
          IN  /\ said1 \in ChatMessages /\ said1.role = "assistant" /\ said1.calls = <<>>
              /\ said1.answers = 0 /\ said1.text = OfKind("text", blocks)
              /\ said1.reasoning = IF mode = "disabled" THEN <<>>
                                  ELSE IF reasoning # <<>> THEN reasoning
                                  ELSE Ids(OfKind("thinking", blocks))
      BY <3>1, AssistantChatIs
    <3>3. QED
      BY <3>2 DEF reasoning
  <2> HIDE DEF said, joined, K
  <2>5. PICK D : Defers(history, open, blocks, D) /\ Tells(state.chat, history, K \ D)
    BY <1>1
  <2>6. /\ D \subseteq K /\ Embeds(OfKind("text", blocks), history, D)
        /\ ComeNext(history, K \ D, D)
    BY <2>5 DEF Defers, K
  <2>7. /\ K \subseteq DOMAIN history /\ DOMAIN history \subseteq Nat
        /\ Distinct(history, DOMAIN history)
    BY <1>1 DEF K, MustBeTold, IsHistory
  <2>8. Told(said) = OfKind("text", blocks)
    BY <2>4, ToldIs
  <2>9. /\ K \ D \in SUBSET Nat /\ D \in SUBSET Nat /\ (K \ D) \cap D = {}
        /\ (K \ D) \cup D = K
    BY <2>6, <2>7
  <2>10. Distinct(history, (K \ D) \cup D)
    BY <2>7, <2>9 DEF Distinct
  <2>11. Embeds(Told(said), history, D)
    BY <2>6, <2>8
  <2>12. Tells(Append(state.chat, said), history, (K \ D) \cup D)
    BY <1>2, <2>4, <2>5, <2>6, <2>9, <2>10, <2>11, MessageTells
  <2>13. Tells(joined.chat, history, K \ {})
    BY <2>1, <2>9, <2>12
  <2>14. Defers(history, open, <<>>, {})
    BY DefersNothing
  <2>15. Continues(joined.chat, state.chat)
    BY <1>2, <2>1, <2>4, ContinuesAppended
  <2>16. PICK k \in Nat : k = Len(state.chat) /\ DOMAIN state.chat = 1 .. k
    BY <1>2
  <2>17. /\ DOMAIN joined.chat = 1 .. k + 1 /\ joined.chat[k + 1] = said
         /\ \A m \in 1 .. k : joined.chat[m] = state.chat[m]
    BY <1>2, <2>1, <2>4, <2>16
  <2>18. Thought(mode, joined.chat, history, Unsaid(<<>>))
    <3>1. ASSUME mode # "disabled", NEW p \in DOMAIN history, history[p].kind = "thinking"
          PROVE  \E m \in DOMAIN joined.chat : p \in ToSet(joined.chat[m].reasoning)
      <4>1. CASE p \in ToSet(Unsaid(blocks).texts)
        <5>1. said.reasoning = Unsaid(blocks).texts
          BY <1>1, <2>4, <3>1 DEF Unsaid
        <5>2. k + 1 \in DOMAIN joined.chat
          BY <2>17
        <5>3. QED
          BY <2>17, <4>1, <5>1, <5>2
      <4>2. CASE \E m \in DOMAIN state.chat : p \in ToSet(state.chat[m].reasoning)
        <5>1. \A m \in 1 .. k : m \in 1 .. k + 1
          BY <2>16
        <5>2. QED
          BY <2>16, <2>17, <4>2, <5>1
      <4>3. QED
        BY <1>1, <3>1, <4>1, <4>2 DEF Thought
    <3>2. QED
      BY <3>1 DEF Thought
  <2>19. \A m \in DOMAIN joined.chat : joined.chat[m].calls # <<>> =>
            m \in DOMAIN state.chat /\ joined.chat[m].calls = state.chat[m].calls
    <3>1. ASSUME NEW m \in DOMAIN joined.chat, joined.chat[m].calls # <<>>
          PROVE  m \in 1 .. k
      <4>1. m # k + 1
        BY <2>4, <2>17, <3>1
      <4>2. QED
        BY <2>17, <3>1, <4>1
    <3>2. QED
      BY <2>16, <2>17, <3>1
  <2>20. joined.chat \in Seq(ChatMessages)
    BY <1>3 DEF States
  <2>21. Telling(mode, history, open, joined)
    BY <1>1, <1>3, <2>1, <2>2, <2>13, <2>14, <2>18 DEF Telling, K
  <2>22. QED
    BY <2>1, <2>2, <2>15, <2>19, <2>20, <2>21 DEF joined, TellsDeferred
<1>6. QED
  BY <1>4, <1>5

Spoken(state, said) == [state EXCEPT !.chat = Append(@, said)]

LEMMA SpokenIs ==
  ASSUME NEW state \in States, NEW said \in ChatMessages
  PROVE  /\ Spoken(state, said) \in States
         /\ Spoken(state, said).chat = Append(state.chat, said)
         /\ Spoken(state, said).pending = state.pending
<1>1. PICK pending :
        /\ pending \in [awaited : SUBSET Nat, blocks : Seq(Blocks), reasoning : Seq(Nat)]
        /\ state = [chat |-> state.chat, pending |-> pending]
        /\ state.pending = pending /\ state.chat \in Seq(ChatMessages)
  BY DEF States
<1>2. Append(state.chat, said) \in Seq(ChatMessages)
  BY <1>1
<1>3. Spoken(state, said) = [chat |-> Append(state.chat, said), pending |-> pending]
  <2>1. PICK chat : chat = state.chat
    OBVIOUS
  <2>2. state = [chat |-> chat, pending |-> pending]
    BY <1>1, <2>1
  <2>3. [state EXCEPT !.chat = Append(@, said)] = [chat |-> Append(chat, said), pending |-> pending]
    BY <2>2
  <2>4. QED
    BY <2>1, <2>3 DEF Spoken
<1>4. QED
  BY <1>1, <1>2, <1>3 DEF States

\* What a user says makes a next history.
LEMMA SpeechHistory ==
  ASSUME NEW history \in Seq(Blocks), NEW open, IsHistory(history, open, {}),
         NEW kind \in {"prompt", "note"}
  PROVE  LET piece == Piece(kind, Len(history) + 1)
         IN  /\ piece \in Blocks /\ piece.kind = kind /\ IsTold(history, piece)
             /\ UserChat(<<piece>>) \in ChatMessages /\ UserChat(<<piece>>).calls = <<>>
             /\ Told(UserChat(<<piece>>)) = <<piece>>
             /\ NextHistory(Append(history, piece), open, {}, history, open, piece)
<1> DEFINE n == Len(history)
           piece == Piece(kind, n + 1)
           said == UserChat(<<piece>>)
<1>1. n \in Nat /\ n + 1 \in Nat /\ DOMAIN history = 1 .. n
  OBVIOUS
<1>2. n + 1 \notin open
  BY <1>1 DEF IsHistory
<1> HIDE DEF n
<1>3. piece \in Blocks /\ piece.kind = kind /\ piece.id = n + 1
  BY <1>1 DEF Piece, Blocks
<1>4. said \in ChatMessages /\ Told(said) = <<piece>> /\ said.calls = <<>>
  BY <1>1, <1>3, ChatTexts
<1>5. IsTold(history, piece)
  BY <1>3 DEF IsTold
<1> HIDE DEF piece, said
<1> DEFINE badThen == {}
<1>6. /\ piece.kind # "result" => piece.id = Len(history) + 1
      /\ piece.kind # "result" /\ piece.kind # "badCall"
      /\ open \subseteq open \cup {Len(history) + 1} /\ Len(history) + 1 \notin open
      /\ badThen = IF piece.kind = "badCall" THEN {} \cup {Len(history) + 1} ELSE {}
  BY <1>2, <1>3 DEF n
<1>7. NextHistory(Append(history, piece), open, badThen, history, open, piece)
  BY <1>3, <1>6, HistoryGoesOn
<1>8. QED
  BY <1>3, <1>4, <1>5, <1>7 DEF piece, said, n

\* What a user says is told: words in a list at once, a string when nothing is deferred.
LEMMA SpeechTold ==
  ASSUME NEW mode, NEW history, NEW open, NEW state, Telling(mode, history, open, state),
         NEW kind,
         \/ kind = "note" /\ (state.pending.blocks # <<>> => open # {})
         \/ kind = "prompt" /\ state.pending.blocks = <<>>
  PROVE  LET piece == Piece(kind, Len(history) + 1)
         IN  Telling(mode, Append(history, piece), open, Spoken(state, UserChat(<<piece>>)))
<1> DEFINE piece == Piece(kind, Len(history) + 1)
           later == Append(history, piece)
           said == UserChat(<<piece>>)
           next == Spoken(state, said)
<1>1. /\ state \in States /\ history \in Seq(Blocks) /\ IsHistory(history, open, {})
      /\ state.pending.reasoning = <<>>
      /\ state.pending.blocks = <<>> => state.pending = NoneDeferred
      /\ state.pending.blocks # <<>> => state.pending.awaited = open
  BY DEF Telling
<1>2. kind \in {"prompt", "note"}
  OBVIOUS
<1>3. /\ piece \in Blocks /\ piece.kind = kind /\ IsTold(history, piece)
      /\ said \in ChatMessages /\ Told(said) = <<piece>>
      /\ NextHistory(later, open, {}, history, open, piece)
  BY <1>1, <1>2, SpeechHistory
<1> HIDE DEF piece, later, said
<1>4. /\ next \in States /\ next.chat = Append(state.chat, said) /\ next.pending = state.pending
  BY <1>1, <1>3, SpokenIs
<1> HIDE DEF next
<1>5. open \subseteq open
  OBVIOUS
<1>6. Telling(mode, later, open, next)
  BY <1>1, <1>3, <1>4, <1>5, TellingGoesOn
<1>7. QED
  BY <1>6 DEF next, said, later, piece

\* What the conversation of an Anthropic client has become.
Dialogue(mode, history, open, state) ==
    /\ Telling(mode, history, open, state)
    /\ open = {} => state.pending.blocks = <<>>
    /\ CallsFollow("messages", state.chat, history, open, {}, NoReasoning, TRUE)

\* The open calls are finitely many places of the history.
LEMMA OpenIsFinite ==
  ASSUME NEW mode, NEW history, NEW open, NEW state, Telling(mode, history, open, state)
  PROVE  /\ IsFiniteSet(open) /\ open \subseteq 1 .. Len(history) /\ Len(history) \in Nat
         /\ DOMAIN history = 1 .. Len(history)
         /\ state.chat \in Seq(ChatMessages) /\ IsHistory(history, open, {})
         /\ history \in Seq(Blocks) /\ state \in States
<1>1. /\ state \in States /\ history \in Seq(Blocks) /\ IsHistory(history, open, {})
  BY DEF Telling
<1>2. PICK n \in Nat : n = Len(history) /\ DOMAIN history = 1 .. n
  BY <1>1
<1>3. open \subseteq 1 .. n
  BY <1>1, <1>2 DEF IsHistory
<1>4. IsFiniteSet(1 .. n)
  BY <1>2, FS_Interval
<1>5. IsFiniteSet(open)
  BY <1>3, <1>4, FS_Subset
<1>6. QED
  BY <1>1, <1>2, <1>3, <1>5 DEF States

\* Calls that wait for results get one more.
LEMMA AnswerFollows ==
  ASSUME NEW mode, NEW history, NEW open, NEW state, Dialogue(mode, history, open, state),
         NEW id \in open
  PROVE  CallsFollow("messages", Append(state.chat, ToolChat(id)),
                     Append(history, Piece("result", id)), open \ {id}, {}, NoReasoning, TRUE)
<1> DEFINE piece == Piece("result", id)
           later == Append(history, piece)
           chat == state.chat
           new == Append(chat, ToolChat(id))
           n == Len(history)
           openThen == open \ {id}
<1>1. /\ Telling(mode, history, open, state)
      /\ CallsFollow("messages", chat, history, open, {}, NoReasoning, TRUE)
  BY DEF Dialogue
<1>2. /\ history \in Seq(Blocks) /\ IsHistory(history, open, {})
      /\ chat \in Seq(ChatMessages) /\ IsFiniteSet(open) /\ n \in Nat
  BY <1>1, OpenIsFinite
<1>3. /\ id \in Nat /\ id \in DOMAIN history /\ piece \in Blocks
      /\ piece.kind = "result" /\ piece.id = id
      /\ NextHistory(later, openThen, {}, history, open, piece)
  BY <1>2, AnswerHistory
<1>4. PICK D : /\ Defers(history, open, state.pending.blocks, D)
               /\ Tells(chat, history, MustBeTold(history) \ D)
  BY <1>1 DEF Telling
<1>5. /\ GrowsBy(later, history, <<piece>>) /\ MustBeTold(history) \subseteq DOMAIN history
      /\ Len(later) = n + 1 /\ later[n + 1] = piece
  BY <1>3, OnePieceMore
<1>6. MustBeTold(history) \ D \subseteq DOMAIN history
  BY <1>5
<1>7. Fitting(history, open, <<piece>>) /\ OpenAfter(history, open, <<piece>>, openThen)
  BY <1>3 DEF NextHistory
<1>8. ToolChat(id) \in ChatMessages /\ ToolChat(id).calls = <<>>
  BY <1>3, ChatTexts
<1>9. Continues(new, chat) /\ Continues(chat, chat)
  BY <1>2, <1>8, ContinuesAppended, ContinuesItself
<1>10. later[Len(later)].kind = "result"
  BY <1>3, <1>5
<1>11. PICK k \in Nat : /\ k = Len(chat) /\ DOMAIN chat = 1 .. k /\ DOMAIN new = 1 .. k + 1
                        /\ new[k + 1] = ToolChat(id)
  BY <1>2, <1>8
<1> HIDE DEF piece, later, chat, new, n
<1>12. ASSUME NEW m \in DOMAIN new, new[m].calls # <<>>,
              m \in DOMAIN chat =>
                 /\ chat[m].calls # <<>>
                 /\ Waits("messages", chat, m, history, open, {}, NoReasoning, TRUE)
       PROVE  \/ Settled("messages", new, m, later, openThen)
              \/ Waits("messages", new, m, later, openThen, {}, NoReasoning, TRUE)
  <2>1. m # k + 1
    BY <1>8, <1>11, <1>12
  <2>2. m \in DOMAIN chat
    BY <1>11, <1>12, <2>1
  <2>3. Waits("messages", chat, m, history, open, {}, NoReasoning, TRUE)
    BY <1>12, <2>2
  <2>4. id \notin {} /\ Len(chat) = Len(chat) /\ chat[m].calls = chat[m].calls
    OBVIOUS
  <2>5. \/ ResultsFollow(Append(chat, ToolChat(id)), m)
        \/ Waits("messages", Append(chat, ToolChat(id)), m, later, open \ {id}, {}, NoReasoning, TRUE)
    BY <1>2, <1>8, <1>9, <1>10, <2>2, <2>3, <2>4, ResultAnswers
  <2>6. QED
    BY <2>5 DEF Settled, new
<1>13. CallsFollow("messages", new, later, openThen, {}, NoReasoning, TRUE)
  BY <1>1, <1>2, <1>4, <1>5, <1>6, <1>7, <1>9, <1>12, CallsFollowLater
<1>14. QED
  BY <1>13 DEF new, later, piece, chat

\* When no call is open, calls are settled, and stay so when what is deferred is told.
LEMMA JoinFollows ==
  ASSUME NEW history, NEW chat \in Seq(ChatMessages), NEW new, Continues(new, chat),
         \A m \in DOMAIN new : new[m].calls # <<>> =>
            m \in DOMAIN chat /\ new[m].calls = chat[m].calls,
         CallsFollow("messages", chat, history, {}, {}, NoReasoning, TRUE)
  PROVE  CallsFollow("messages", new, history, {}, {}, NoReasoning, TRUE)
<1>1. ASSUME NEW m \in DOMAIN new, new[m].calls # <<>>
      PROVE  Settled("messages", new, m, history, {})
  <2>1. m \in DOMAIN chat /\ new[m].calls = chat[m].calls
    BY <1>1
  <2>2. chat[m].calls # <<>>
    BY <1>1, <2>1
  <2>3. ~ Waits("messages", chat, m, history, {}, {}, NoReasoning, TRUE)
    BY DEF Waits
  <2>4. Settled("messages", chat, m, history, {})
    BY <2>1, <2>2, <2>3 DEF CallsFollow
  <2>5. CASE GivenUp(ToSet(chat[m].calls), history, {})
    BY <2>1, <2>5 DEF Settled
  <2>6. CASE TalkedOver(history, ToSet(chat[m].calls))
    BY <2>1, <2>6 DEF Settled
  <2>7. CASE ResultsFollow(chat, m)
    <3>1. ResultsFollow(new, m)
      BY <2>1, <2>2, <2>7, ResultsFollowLater
    <3>2. QED
      BY <3>1 DEF Settled
  <2>8. QED
    BY <2>4, <2>5, <2>6, <2>7 DEF Settled
<1>2. QED
  BY <1>1 DEF CallsFollow

\* A result is added.
LEMMA AnswerTalks ==
  ASSUME NEW mode, NEW history, NEW open, NEW state, Dialogue(mode, history, open, state),
         NEW id \in open
  PROVE  Dialogue(mode, Append(history, Piece("result", id)), open \ {id},
                  ResultChat(mode, state, id))
<1> DEFINE later == Append(history, Piece("result", id))
           openThen == open \ {id}
           told == Answered(state, id)
           blocks == state.pending.blocks
<1>1. Telling(mode, history, open, state) /\ state \in States
  BY OpenIsFinite DEF Dialogue
<1>2. Telling(mode, later, openThen, told)
  BY <1>1, AnswerTold
<1>3. CallsFollow("messages", Append(state.chat, ToolChat(id)), later, openThen, {}, NoReasoning, TRUE)
  BY AnswerFollows
<1>4. id \in Nat
  BY <1>1, OpenIsFinite
<1>5. /\ told \in States /\ told.chat = Append(state.chat, ToolChat(id))
      /\ told.pending.blocks = blocks
      /\ told.pending.awaited = state.pending.awaited \ {id}
  BY <1>1, <1>4, AnsweredIs
<1>6. ResultChat(mode, state, id) = IF told.pending.awaited = {} THEN Joined(mode, told) ELSE told
  BY DEF ResultChat, Answered
<1> HIDE DEF later, told, openThen
<1>7. CallsFollow("messages", told.chat, later, openThen, {}, NoReasoning, TRUE)
  BY <1>3, <1>5
<1>8. CASE blocks = <<>>
  <2>1. Joined(mode, told) = told
    BY <1>5, <1>8, JoinedIs
  <2>2. ResultChat(mode, state, id) = told
    BY <1>6, <2>1
  <2>3. Dialogue(mode, later, openThen, told)
    BY <1>2, <1>5, <1>7, <1>8 DEF Dialogue
  <2>4. QED
    BY <2>2, <2>3 DEF later, openThen
<1>9. CASE blocks # <<>> /\ openThen # {}
  <2>1. told.pending.awaited # {}
    BY <1>1, <1>5, <1>9 DEF Telling, openThen
  <2>2. ResultChat(mode, state, id) = told
    BY <1>6, <2>1
  <2>3. Dialogue(mode, later, openThen, told)
    BY <1>2, <1>7, <1>9 DEF Dialogue
  <2>4. QED
    BY <2>2, <2>3 DEF later, openThen
<1>10. CASE blocks # <<>> /\ openThen = {}
  <2> DEFINE joined == Joined(mode, told)
  <2>1. told.pending.awaited = {}
    BY <1>1, <1>5, <1>10 DEF Telling, openThen
  <2>2. ResultChat(mode, state, id) = joined
    BY <1>6, <2>1
  <2>3. /\ Telling(mode, later, openThen, joined) /\ joined.pending.blocks = <<>>
        /\ joined.chat \in Seq(ChatMessages) /\ Continues(joined.chat, told.chat)
        /\ \A m \in DOMAIN joined.chat : joined.chat[m].calls # <<>> =>
              m \in DOMAIN told.chat /\ joined.chat[m].calls = told.chat[m].calls
    <3>1. TellsDeferred(mode, later, openThen, told, joined)
      BY <1>2, DeferredTold
    <3>2. QED
      BY <3>1 DEF TellsDeferred
  <2>4. told.chat \in Seq(ChatMessages)
    BY <1>5 DEF States
  <2>5. CallsFollow("messages", told.chat, later, {}, {}, NoReasoning, TRUE)
    BY <1>7, <1>10
  <2> HIDE DEF joined
  <2>6. CallsFollow("messages", joined.chat, later, {}, {}, NoReasoning, TRUE)
    BY <2>3, <2>4, <2>5, JoinFollows
  <2>7. Dialogue(mode, later, openThen, joined)
    BY <1>10, <2>3, <2>6 DEF Dialogue
  <2>8. QED
    BY <2>2, <2>7 DEF later, openThen
<1>11. QED
  BY <1>8, <1>9, <1>10

\* The user says something while calls wait for results.
LEMMA SpeechFollows ==
  ASSUME NEW mode, NEW history, NEW open, NEW state, Dialogue(mode, history, open, state),
         NEW kind \in {"prompt", "note"}, NEW piece, piece.kind = kind,
         NEW later, NextHistory(later, open, {}, history, open, piece),
         NEW new, Continues(new, state.chat),
         \A m \in DOMAIN new : new[m].calls # <<>> =>
            m \in DOMAIN state.chat /\ new[m].calls = state.chat[m].calls
  PROVE  CallsFollow("messages", new, later, open, {}, NoReasoning, TRUE)
<1> DEFINE chat == state.chat
<1>1. /\ Telling(mode, history, open, state)
      /\ CallsFollow("messages", chat, history, open, {}, NoReasoning, TRUE)
  BY DEF Dialogue
<1>2. /\ IsHistory(history, open, {}) /\ chat \in Seq(ChatMessages) /\ open \subseteq DOMAIN history
  BY <1>1, OpenIsFinite
<1>3. PICK D : /\ Defers(history, open, state.pending.blocks, D)
               /\ Tells(chat, history, MustBeTold(history) \ D)
  BY <1>1 DEF Telling
<1>4. PICK n \in Nat :
         /\ GrowsBy(later, history, <<piece>>) /\ MustBeTold(history) \subseteq DOMAIN history
         /\ DOMAIN history = 1 .. n /\ DOMAIN later = 1 .. n + 1
         /\ later[n + 1] = piece /\ \A p \in DOMAIN history : later[p] = history[p]
  BY OnePieceMore
<1>5. MustBeTold(history) \ D \subseteq DOMAIN history
  BY <1>4
<1>6. Fitting(history, open, <<piece>>) /\ OpenAfter(history, open, <<piece>>, open)
  BY DEF NextHistory
<1>7. /\ Continues(new, chat)
      /\ \A m \in DOMAIN new : new[m].calls # <<>> =>
            m \in DOMAIN chat /\ new[m].calls = chat[m].calls
  OBVIOUS
<1> HIDE DEF chat
<1>8. ASSUME NEW m \in DOMAIN new, new[m].calls # <<>>,
             m \in DOMAIN chat =>
                 /\ chat[m].calls # <<>>
                 /\ Waits("messages", chat, m, history, open, {}, NoReasoning, TRUE)
      PROVE  \/ Settled("messages", new, m, later, open)
             \/ Waits("messages", new, m, later, open, {}, NoReasoning, TRUE)
  <2>1. m \in DOMAIN chat /\ new[m].calls = chat[m].calls
    BY <1>7, <1>8
  <2>2. PICK c \in ToSet(chat[m].calls) : c \in open
    BY <1>8, <2>1 DEF Waits
  <2>3. c \in 1 .. n
    BY <1>2, <1>4, <2>2
  <2>4. ASSUME NEW r \in 1 .. (n + 1) - 1, later[r].kind = "result", later[r].id = c
        PROVE  FALSE
    <3>1. r \in DOMAIN history /\ history[r].kind = "result" /\ history[r].id = c
      BY <1>4, <2>4
    <3>2. QED
      BY <1>2, <2>2, <3>1 DEF IsHistory
  <2>5. ~ AnsweredBefore(later, c, n + 1)
    BY <2>4 DEF AnsweredBefore
  <2>6. /\ c < n + 1 /\ n + 1 \in DOMAIN later /\ later[n + 1].kind \in {"prompt", "note"}
        /\ c \in ToSet(new[m].calls)
    BY <1>4, <2>1, <2>2, <2>3
  <2>7. TalkedOver(later, ToSet(new[m].calls))
    BY <2>5, <2>6 DEF TalkedOver
  <2>8. QED
    BY <2>7 DEF Settled
<1>9. QED
  BY <1>1, <1>2, <1>3, <1>4, <1>5, <1>6, <1>7, <1>8, CallsFollowLater

\* Words in a list are added.
LEMMA NoteTalks ==
  ASSUME NEW mode, NEW history, NEW open, NEW state, Dialogue(mode, history, open, state)
  PROVE  LET note == Piece("note", Len(history) + 1)
         IN  Dialogue(mode, Append(history, note), open, Spoken(state, UserChat(<<note>>)))
<1> DEFINE kind == "note"
           note == Piece(kind, Len(history) + 1)
           said == UserChat(<<note>>)
           later == Append(history, note)
           chat == state.chat
           next == Spoken(state, said)
           new == Append(chat, said)
<1>1. Telling(mode, history, open, state) /\ (open = {} => state.pending.blocks = <<>>)
  BY DEF Dialogue
<1>2. /\ state \in States /\ history \in Seq(Blocks) /\ IsHistory(history, open, {})
      /\ chat \in Seq(ChatMessages)
  BY <1>1, OpenIsFinite
<1>3. /\ note.kind = kind /\ said \in ChatMessages /\ said.calls = <<>>
      /\ NextHistory(later, open, {}, history, open, note)
  BY <1>2, SpeechHistory
<1>4. Telling(mode, later, open, next)
  BY <1>1, SpeechTold
<1> HIDE DEF note, said, later
<1>5. next.chat = new /\ next.pending = state.pending
  BY <1>2, <1>3, SpokenIs
<1>6. Continues(new, chat)
  BY <1>2, <1>3, ContinuesAppended
<1>7. \A m \in DOMAIN new : new[m].calls # <<>> => m \in DOMAIN chat /\ new[m].calls = chat[m].calls
  <2>1. PICK k \in Nat : k = Len(chat) /\ DOMAIN chat = 1 .. k
    BY <1>2
  <2>2. /\ DOMAIN new = 1 .. k + 1 /\ new[k + 1] = said
        /\ \A m \in 1 .. k : new[m] = chat[m]
    BY <1>2, <1>3, <2>1
  <2> HIDE DEF new, chat
  <2>3. TAKE m \in DOMAIN new
  <2>4. CASE m = k + 1
    BY <1>3, <2>2, <2>4
  <2>5. CASE m # k + 1
    <3>1. m \in 1 .. k
      BY <2>2, <2>5
    <3>2. QED
      BY <2>1, <2>2, <3>1
  <2>6. QED
    BY <2>4, <2>5
<1> HIDE DEF new, next
<1>8. CallsFollow("messages", new, later, open, {}, NoReasoning, TRUE)
  <2>1. Continues(new, state.chat)
    BY <1>6
  <2>2. \A m \in DOMAIN new : new[m].calls # <<>> =>
            m \in DOMAIN state.chat /\ new[m].calls = state.chat[m].calls
    BY <1>7
  <2>3. kind \in {"prompt", "note"}
    OBVIOUS
  <2>4. QED
    BY <1>3, <2>1, <2>2, <2>3, SpeechFollows
<1>9. Dialogue(mode, later, open, next)
  BY <1>1, <1>4, <1>5, <1>8 DEF Dialogue
<1>10. QED
  BY <1>9 DEF note, said, later, next

\* A string is added: what is deferred is told before it.
LEMMA PromptTalks ==
  ASSUME NEW mode, NEW history, NEW open, NEW state, Dialogue(mode, history, open, state)
  PROVE  LET prompt == Piece("prompt", Len(history) + 1)
         IN  /\ prompt \in Blocks
             /\ Dialogue(mode, Append(history, prompt), open,
                         Spoken(Joined(mode, state), UserChat(<<prompt>>)))
<1> DEFINE kind == "prompt"
           prompt == Piece(kind, Len(history) + 1)
           said == UserChat(<<prompt>>)
           later == Append(history, prompt)
           joined == Joined(mode, state)
           chat == joined.chat
           next == Spoken(joined, said)
           new == Append(chat, said)
<1>1. Telling(mode, history, open, state)
  BY DEF Dialogue
<1>2. /\ state.chat \in Seq(ChatMessages) /\ history \in Seq(Blocks) /\ IsHistory(history, open, {})
  BY <1>1, OpenIsFinite
<1>3. /\ Telling(mode, history, open, joined) /\ joined.pending.blocks = <<>>
      /\ chat \in Seq(ChatMessages) /\ Continues(chat, state.chat)
      /\ \A m \in DOMAIN chat : chat[m].calls # <<>> =>
            m \in DOMAIN state.chat /\ chat[m].calls = state.chat[m].calls
  <2>1. TellsDeferred(mode, history, open, state, joined)
    BY <1>1, DeferredTold
  <2>2. QED
    BY <2>1 DEF TellsDeferred
<1>4. /\ prompt \in Blocks /\ prompt.kind = kind /\ said \in ChatMessages /\ said.calls = <<>>
      /\ NextHistory(later, open, {}, history, open, prompt)
  BY <1>2, SpeechHistory
<1> HIDE DEF joined
<1>5. Telling(mode, later, open, next)
  BY <1>3, SpeechTold
<1> HIDE DEF prompt, said, later
<1>6. next.chat = new /\ next.pending = joined.pending
  BY <1>3, <1>4, SpokenIs DEF Telling
<1>7. Continues(new, chat)
  BY <1>3, <1>4, ContinuesAppended
<1>8. Continues(new, state.chat)
  BY <1>2, <1>3, <1>7, ContinuesThrough
<1>9. \A m \in DOMAIN new : new[m].calls # <<>> =>
         m \in DOMAIN state.chat /\ new[m].calls = state.chat[m].calls
  <2>1. PICK k \in Nat : k = Len(chat) /\ DOMAIN chat = 1 .. k
    BY <1>3
  <2>2. /\ DOMAIN new = 1 .. k + 1 /\ new[k + 1] = said
        /\ \A m \in 1 .. k : new[m] = chat[m]
    BY <1>3, <1>4, <2>1
  <2>3. \A m \in DOMAIN chat : chat[m].calls # <<>> =>
            m \in DOMAIN state.chat /\ chat[m].calls = state.chat[m].calls
    BY <1>3
  <2> HIDE DEF new, chat
  <2>4. TAKE m \in DOMAIN new
  <2>5. CASE m = k + 1
    BY <1>4, <2>2, <2>5
  <2>6. CASE m # k + 1
    <3>1. m \in 1 .. k
      BY <2>2, <2>6
    <3>2. QED
      BY <2>1, <2>2, <2>3, <3>1
  <2>7. QED
    BY <2>5, <2>6
<1> HIDE DEF new, next
<1>10. CallsFollow("messages", new, later, open, {}, NoReasoning, TRUE)
  <2>1. kind \in {"prompt", "note"}
    OBVIOUS
  <2>2. QED
    BY <1>4, <1>8, <1>9, <2>1, SpeechFollows
<1>11. Dialogue(mode, later, open, next)
  BY <1>3, <1>5, <1>6, <1>10 DEF Dialogue
<1>12. QED
  BY <1>4, <1>11 DEF prompt, said, later, next, joined

\* The model goes on: the calls that are open are given up, and what is deferred is told.
LEMMA AbandonTalks ==
  ASSUME NEW mode, NEW history, NEW open, NEW state, Dialogue(mode, history, open, state)
  PROVE  Dialogue(mode, history, {}, Joined(mode, state))
<1> DEFINE joined == Joined(mode, state)
           chat == state.chat
<1>1. /\ Telling(mode, history, open, state)
      /\ CallsFollow("messages", chat, history, open, {}, NoReasoning, TRUE)
  BY DEF Dialogue
<1>2. /\ history \in Seq(Blocks) /\ IsHistory(history, open, {}) /\ open \subseteq DOMAIN history
      /\ chat \in Seq(ChatMessages)
  BY <1>1, OpenIsFinite
<1>3. /\ Telling(mode, history, open, joined) /\ joined.pending.blocks = <<>>
      /\ joined.chat \in Seq(ChatMessages) /\ Continues(joined.chat, chat)
      /\ \A m \in DOMAIN joined.chat : joined.chat[m].calls # <<>> =>
            m \in DOMAIN chat /\ joined.chat[m].calls = chat[m].calls
  <2>1. TellsDeferred(mode, history, open, state, joined)
    BY <1>1, DeferredTold
  <2>2. QED
    BY <2>1 DEF TellsDeferred
<1>4. IsHistory(history, {}, {})
  BY <1>2 DEF IsHistory
<1> HIDE DEF joined
<1>5. Undeferred(joined) /\ Tells(joined.chat, history, MustBeTold(history))
      /\ Thought(mode, joined.chat, history, Unsaid(<<>>))
  BY <1>3, AllTold
<1>6. Defers(history, {}, <<>>, {}) /\ MustBeTold(history) \ {} = MustBeTold(history)
  BY DefersNothing
<1>7. \E D : /\ Defers(history, {}, joined.pending.blocks, D)
             /\ Tells(joined.chat, history, MustBeTold(history) \ D)
  BY <1>3, <1>5, <1>6
<1>8. joined.pending = NoneDeferred /\ NoneDeferred.reasoning = <<>> /\ joined \in States
  BY <1>5 DEF Undeferred, NoneDeferred
<1>9. Telling(mode, history, {}, joined)
  BY <1>2, <1>3, <1>4, <1>5, <1>7, <1>8 DEF Telling
<1>10. CallsFollow("messages", chat, history, {}, {}, NoReasoning, TRUE)
  <2>1. ASSUME NEW m \in DOMAIN chat, chat[m].calls # <<>>
        PROVE  Settled("messages", chat, m, history, {})
    <3>1. CASE Settled("messages", chat, m, history, open)
      <4>1. GivenUp(ToSet(chat[m].calls), history, open) => GivenUp(ToSet(chat[m].calls), history, {})
        BY DEF GivenUp
      <4>2. QED
        BY <3>1, <4>1 DEF Settled
    <3>2. CASE Waits("messages", chat, m, history, open, {}, NoReasoning, TRUE)
      <4>1. PICK c \in ToSet(chat[m].calls) : c \in open
        BY <3>2 DEF Waits
      <4>2. c \notin AnsweredCalls(history)
        BY <1>2, <4>1 DEF AnsweredCalls, IsHistory
      <4>3. GivenUp(ToSet(chat[m].calls), history, {})
        BY <1>2, <4>1, <4>2 DEF GivenUp
      <4>4. QED
        BY <4>3 DEF Settled
    <3>3. QED
      BY <1>1, <2>1, <3>1, <3>2 DEF CallsFollow
  <2>2. QED
    BY <2>1 DEF CallsFollow
<1>11. CallsFollow("messages", joined.chat, history, {}, {}, NoReasoning, TRUE)
  BY <1>2, <1>3, <1>10, JoinFollows
<1>12. QED
  BY <1>3, <1>9, <1>11 DEF Dialogue, joined

\* A prefix is the one before it and a member more.
LEMMA PrefixGrows ==
  ASSUME NEW E, NEW s \in Seq(E)
  PROVE  /\ SubSeq(s, 1, 0) = <<>> /\ SubSeq(s, 1, Len(s)) = s
         /\ \A i \in 1 .. Len(s) :
               /\ SubSeq(s, 1, i - 1) \in Seq(E) /\ s[i] \in E
               /\ SubSeq(s, 1, i) = Append(SubSeq(s, 1, i - 1), s[i])
<1>1. PICK n \in Nat : n = Len(s) /\ DOMAIN s = 1 .. n
  OBVIOUS
<1>2. SubSeq(s, 1, 0) = <<>> /\ SubSeq(s, 1, Len(s)) = s
  OBVIOUS
<1>3. ASSUME NEW i \in 1 .. n
      PROVE  /\ SubSeq(s, 1, i - 1) \in Seq(E) /\ s[i] \in E
             /\ SubSeq(s, 1, i) = Append(SubSeq(s, 1, i - 1), s[i])
  <2>1. i - 1 \in Nat /\ i \in Nat /\ s[i] \in E
    BY <1>1
  <2> DEFINE front == SubSeq(s, 1, i - 1)
             whole == SubSeq(s, 1, i)
  <2>2. front \in Seq(E) /\ Len(front) = i - 1 /\ \A k \in 1 .. i - 1 : front[k] = s[k]
    BY <1>1, <2>1
  <2>3. whole \in Seq(E) /\ Len(whole) = i /\ \A k \in 1 .. i : whole[k] = s[k]
    BY <1>1, <2>1
  <2> HIDE DEF front, whole
  <2>4. Append(front, s[i]) \in Seq(E) /\ Len(Append(front, s[i])) = i
    BY <2>1, <2>2
  <2>5. \A k \in 1 .. i : Append(front, s[i])[k] = s[k]
    BY <2>1, <2>2
  <2>6. whole = Append(front, s[i])
    BY <2>3, <2>4, <2>5
  <2>7. QED
    BY <2>1, <2>2, <2>6 DEF front, whole
<1>4. QED
  BY <1>1, <1>2, <1>3

\* Appending to the second of two sequences appends to both.
LEMMA ConcatAppended ==
  ASSUME NEW E, NEW a \in Seq(E), NEW b \in Seq(E), NEW x \in E
  PROVE  a \o Append(b, x) = Append(a \o b, x) /\ a \o <<>> = a
OBVIOUS

\* A list of results and words, one after another.
LEMMA ListTalks ==
  ASSUME NEW mode, NEW history, NEW open, NEW state, Dialogue(mode, history, open, state),
         NEW n \in Nat, NEW said \in [1 .. n -> open \cup {Silent}],
         \A j, k \in 1 .. n : j < k /\ said[j] = said[k] => said[j] = Silent,
         NEW blocks \in Seq(Blocks), Len(blocks) = n,
         \A i \in 1 .. n : blocks[i] = IF said[i] = Silent THEN Piece("note", Len(history) + i)
                                       ELSE Piece("result", said[i])
  PROVE  Dialogue(mode, history \o blocks, open \ {said[j] : j \in 1 .. n},
                  UserBlocks(mode, state, blocks))
<1> DEFINE upTo(i) == SubSeq(blocks, 1, i)
           openAt(i) == open \ {said[j] : j \in 1 .. i}
           Talks(i) == Dialogue(mode, history \o upTo(i), openAt(i), UserBlocks(mode, state, upTo(i)))
           T == {i \in 0 .. n : Talks(i)}
<1>1. /\ Telling(mode, history, open, state) /\ state \in States /\ history \in Seq(Blocks)
      /\ open \subseteq 1 .. Len(history) /\ Len(history) \in Nat
  BY OpenIsFinite DEF Dialogue
<1>2. /\ upTo(0) = <<>> /\ upTo(n) = blocks
      /\ \A i \in 1 .. n : /\ upTo(i - 1) \in Seq(Blocks) /\ blocks[i] \in Blocks
                           /\ upTo(i) = Append(upTo(i - 1), blocks[i])
  BY PrefixGrows
<1>3. \A i \in 1 .. n : Len(upTo(i - 1)) = i - 1
  OBVIOUS
<1>4. Silent \notin open
  BY <1>1 DEF Silent
<1> HIDE DEF upTo
<1>5. Talks(0)
  <2>1. <<>> \in Seq(Blocks) /\ history \o <<>> = history
    BY <1>1
  <2>2. UserBlocks(mode, state, <<>>) = state
    <3>1. Piece("text", 0) \in Blocks
      BY DEF Piece, Blocks
    <3>2. QED
      BY <1>1, <2>1, <3>1, UserBlocksIs
  <2>3. {said[j] : j \in 1 .. 0} = {}
    OBVIOUS
  <2>4. openAt(0) = open
    BY <2>3
  <2>5. QED
    BY <1>2, <2>1, <2>2, <2>4
<1>6. ASSUME NEW i \in 1 .. n, i - 1 \in T
      PROVE  i \in T
  <2>1. Talks(i - 1)
    BY <1>6
  <2>2. i \in Nat /\ i - 1 \in Nat /\ i - 1 \in 0 .. n
    OBVIOUS
  <2>3. openAt(i) = openAt(i - 1) \ {said[i]}
    <3>1. 1 .. i = (1 .. i - 1) \cup {i}
      BY <2>2
    <3>2. {said[j] : j \in (1 .. i - 1) \cup {i}} = {said[j] : j \in 1 .. i - 1} \cup {said[i]}
      OBVIOUS
    <3>3. QED
      BY <3>1, <3>2
  <2> DEFINE before == history \o upTo(i - 1)
             was == UserBlocks(mode, state, upTo(i - 1))
             openThen == openAt(i - 1)
  <2>4. Dialogue(mode, before, openThen, was)
    BY <2>1
  <2>5. /\ upTo(i - 1) \in Seq(Blocks) /\ blocks[i] \in Blocks
        /\ upTo(i) = Append(upTo(i - 1), blocks[i])
    BY <1>2
  <2>6. UserBlocks(mode, state, upTo(i)) = UserBlock(mode, was, blocks[i])
    <3> DEFINE front == upTo(i - 1)
               block == blocks[i]
    <3>1. front \in Seq(Blocks) /\ block \in Blocks
      BY <2>5
    <3> HIDE DEF front, block
    <3>2. UserBlocks(mode, state, Append(front, block)) =
             UserBlock(mode, UserBlocks(mode, state, front), block)
      BY <1>1, <3>1, UserBlocksIs
    <3>3. QED
      BY <2>5, <3>2 DEF front, block
  <2>7. history \o upTo(i) = Append(before, blocks[i])
    BY <1>1, <2>5, ConcatAppended
  <2>8. Len(before) + 1 = Len(history) + i
    <3>1. Len(before) = Len(history) + Len(upTo(i - 1))
      BY <1>1, <2>5, ConcatIs
    <3>2. Len(upTo(i - 1)) = i - 1
      BY <1>3
    <3> HIDE DEF before
    <3>3. QED
      BY <1>1, <2>2, <3>1, <3>2
  <2>9. Dialogue(mode, Append(before, blocks[i]), openThen \ {said[i]}, UserBlock(mode, was, blocks[i]))
    <3>1. CASE said[i] = Silent
      <4>1. blocks[i] = Piece("note", Len(before) + 1)
        BY <2>8, <3>1
      <4>2. blocks[i].kind = "note"
        BY <4>1 DEF Piece
      <4>3. UserBlock(mode, was, blocks[i]) = Spoken(was, UserChat(<<blocks[i]>>))
        BY <4>2 DEF UserBlock, Spoken
      <4>4. openThen \ {said[i]} = openThen
        BY <1>4, <3>1
      <4> HIDE DEF before, was, openThen
      <4>5. Dialogue(mode, Append(before, Piece("note", Len(before) + 1)), openThen,
                     Spoken(was, UserChat(<<Piece("note", Len(before) + 1)>>)))
        BY <2>4, NoteTalks
      <4>6. QED
        BY <4>1, <4>3, <4>4, <4>5
    <3>2. CASE said[i] # Silent
      <4>1. blocks[i] = Piece("result", said[i])
        BY <3>2
      <4>2. blocks[i].kind = "result" /\ blocks[i].id = said[i]
        BY <4>1 DEF Piece
      <4>3. UserBlock(mode, was, blocks[i]) = ResultChat(mode, was, said[i])
        BY <4>2 DEF UserBlock
      <4>4. said[i] \in openThen
        <5>1. \A j \in 1 .. i - 1 : j \in 1 .. n /\ j < i
          BY <2>2
        <5>2. \A j \in 1 .. i - 1 : said[j] # said[i]
          BY <3>2, <5>1
        <5>3. said[i] \in open
          BY <3>2
        <5>4. QED
          BY <5>2, <5>3
      <4> HIDE DEF before, was, openThen
      <4>5. Dialogue(mode, Append(before, Piece("result", said[i])), openThen \ {said[i]},
                     ResultChat(mode, was, said[i]))
        BY <2>4, <4>4, AnswerTalks
      <4>6. QED
        BY <4>1, <4>3, <4>5
    <3>3. QED
      BY <3>1, <3>2
  <2>10. openAt(i) = openThen \ {said[i]}
    BY <2>3
  <2> HIDE DEF before, was, openThen, openAt
  <2>11. Dialogue(mode, history \o upTo(i), openAt(i), UserBlocks(mode, state, upTo(i)))
    BY <2>6, <2>7, <2>9, <2>10
  <2>12. QED
    BY <2>2, <2>11
<1>7. 0 \in T
  BY <1>5
<1> HIDE DEF T
<1>8. \A i \in 0 .. n : i \in T
  BY <1>6, <1>7, EveryPrefix
<1>9. n \in T
  BY <1>8
<1>10. Talks(n)
  BY <1>9 DEF T
<1>11. QED
  BY <1>2, <1>10

-----------------------------------------------------------------------------
(* What holds of the conversation of an Anthropic client.                  *)

Conversing(state) ==
    /\ request \in Seq(Messages) /\ Conversion(replay, request) = state
    /\ heldReasoning = NoReasoning /\ quarantined = {}
    /\ Dialogue(replay, pieces, openCalls, state)

\* A message of the user.
LEMMA UserMessageKeeps ==
  ASSUME NEW state, Conversing(state), UserMessage
  PROVE  \E end : Conversing(end)'
<1>1. /\ request \in Seq(Messages) /\ Conversion(replay, request) = state
      /\ heldReasoning = NoReasoning /\ quarantined = {}
      /\ Dialogue(replay, pieces, openCalls, state)
  BY DEF Conversing
<1>2. /\ state \in States /\ state.chat \in Seq(ChatMessages) /\ pieces \in Seq(Blocks)
      /\ Len(pieces) \in Nat
  BY <1>1, OpenIsFinite DEF Dialogue
<1>3. ASSUME NEW plain \in BOOLEAN, NEW blocks \in Seq(Blocks), Add("user", plain, blocks),
             NEW next, Converted(replay, state, RequestMessage("user", plain, blocks, <<>>)) = next,
             Dialogue(replay, pieces \o blocks, openCalls', next)
      PROVE  \E end : Conversing(end)'
  <2> DEFINE message == RequestMessage("user", plain, blocks, <<>>)
  <2>1. /\ pieces' = pieces \o blocks /\ request' = Append(request, message)
        /\ UNCHANGED <<client, replay, heldReasoning, quarantined>>
    BY <1>3 DEF Add
  <2>2. message \in Messages
    BY UserMessageIs
  <2>3. Conversion(replay, Append(request, message)) = Converted(replay, state, message)
    BY <1>1, <2>2, ConversionIs
  <2>4. request' \in Seq(Messages)
    BY <1>1, <2>1, <2>2
  <2> HIDE DEF message
  <2>5. PICK end : end = next
    OBVIOUS
  <2>6. Conversion(replay', request') = end
    BY <1>3, <2>1, <2>3, <2>5 DEF message
  <2>7. Dialogue(replay', pieces', openCalls', end)
    BY <1>3, <2>1, <2>5
  <2>8. Conversing(end)'
    BY <1>1, <2>1, <2>4, <2>6, <2>7 DEF Conversing
  <2>9. QED
    BY <2>8
<1>4. ASSUME UserList
      PROVE  \E end : Conversing(end)'
  <2>1. PICK n \in 1 .. MaxPieces - Len(pieces) :
           \E said \in [1 .. n -> openCalls \cup {Silent}] :
              /\ \A j, k \in 1 .. n : j < k /\ said[j] = said[k] => said[j] = Silent /\ k > j + 1
              /\ Add("user", FALSE, ListOf(said))
              /\ openCalls' = openCalls \ ToSet(said)
    BY <1>4 DEF UserList
  <2>2. PICK said \in [1 .. n -> openCalls \cup {Silent}] :
              /\ \A j, k \in 1 .. n : j < k /\ said[j] = said[k] => said[j] = Silent /\ k > j + 1
              /\ Add("user", FALSE, ListOf(said))
              /\ openCalls' = openCalls \ ToSet(said)
    BY <2>1
  <2>3. n \in Nat /\ DOMAIN said = 1 .. n /\ openCalls \subseteq Nat
    <3>1. openCalls \subseteq 1 .. Len(pieces)
      BY <1>1, OpenIsFinite DEF Dialogue
    <3>2. n \in Nat
      BY <1>2
    <3>3. QED
      BY <1>2, <3>1, <3>2
  <2> DEFINE blocks == ListOf(said)
             block(i) == IF said[i] = Silent THEN Piece("note", Len(pieces) + i)
                         ELSE Piece("result", said[i])
  <2>4. blocks = [i \in 1 .. n |-> block(i)]
    BY <2>3 DEF ListOf
  <2>5. \A i \in 1 .. n : block(i) \in Blocks
    <3>1. TAKE i \in 1 .. n
    <3>2. said[i] \in openCalls \cup {Silent} /\ i \in Nat
      BY <2>2, <2>3
    <3>3. Silent \in Nat
      BY DEF Silent
    <3>4. said[i] \in Nat
      BY <2>3, <3>2, <3>3
    <3>5. Len(pieces) + i \in Nat
      BY <1>2, <3>2
    <3>6. QED
      BY <3>4, <3>5 DEF Piece, Blocks
  <2> HIDE DEF blocks, block
  <2>6. blocks \in Seq(Blocks) /\ Len(blocks) = n /\ \A i \in 1 .. n : blocks[i] = block(i)
    BY <2>3, <2>4, <2>5
  <2>7. ToSet(said) = {said[j] : j \in 1 .. n}
    BY <2>3 DEF ToSet
  <2>8. \A j, k \in 1 .. n : j < k /\ said[j] = said[k] => said[j] = Silent
    BY <2>2
  <2>9. \A i \in 1 .. n : blocks[i] = IF said[i] = Silent THEN Piece("note", Len(pieces) + i)
                                       ELSE Piece("result", said[i])
    BY <2>6 DEF block
  <2>10. Dialogue(replay, pieces \o blocks, openCalls \ {said[j] : j \in 1 .. n},
                  UserBlocks(replay, state, blocks))
    BY <1>1, <2>3, <2>6, <2>8, <2>9, ListTalks
  <2>11. Dialogue(replay, pieces \o blocks, openCalls', UserBlocks(replay, state, blocks))
    BY <2>2, <2>7, <2>10
  <2>12. FALSE \in BOOLEAN /\ Add("user", FALSE, blocks)
    BY <2>2 DEF blocks
  <2> DEFINE message == RequestMessage("user", FALSE, blocks, <<>>)
  <2>13. message.role = "user" /\ ~ message.plain /\ message.blocks = blocks
    BY <2>6, <2>12, UserMessageIs
  <2> HIDE DEF message
  <2>14. Converted(replay, state, message) = UserBlocks(replay, state, blocks)
    BY <2>13 DEF Converted
  <2>15. QED
    BY <1>3, <2>6, <2>11, <2>12, <2>14 DEF message
<1>5. ASSUME Add("user", TRUE, <<Piece("prompt", Fresh)>>), UNCHANGED openCalls
      PROVE  \E end : Conversing(end)'
  <2> DEFINE prompt == Piece("prompt", Len(pieces) + 1)
             said == UserChat(<<prompt>>)
             joined == Joined(replay, state)
             message == RequestMessage("user", TRUE, <<prompt>>, <<>>)
             next == Spoken(joined, said)
  <2>1. Add("user", TRUE, <<prompt>>)
    BY <1>5 DEF Fresh
  <2>2. /\ prompt \in Blocks
        /\ Dialogue(replay, Append(pieces, prompt), openCalls, next)
    BY <1>1, PromptTalks
  <2>3. <<prompt>> \in Seq(Blocks) /\ TRUE \in BOOLEAN
    BY <2>2
  <2>4. message.role = "user" /\ message.plain /\ message.blocks = <<prompt>>
    BY <2>3, UserMessageIs
  <2> HIDE DEF joined, prompt, message
  <2>5. Converted(replay, state, message) = next
    BY <2>4 DEF Converted, joined, Spoken
  <2>6. pieces \o <<prompt>> = Append(pieces, prompt)
    BY <1>2, <2>2
  <2> HIDE DEF next
  <2>7. Dialogue(replay, pieces \o <<prompt>>, openCalls', next)
    BY <1>5, <2>2, <2>6
  <2>8. QED
    BY <1>3, <2>1, <2>3, <2>5, <2>7 DEF message
<1>6. QED
  BY <1>4, <1>5 DEF UserMessage

-----------------------------------------------------------------------------
(* A message of the assistant.                                             *)

Shifted(n, places) == {n + i : i \in places}

\* These blocks can be what the assistant says next.
SaysNext(history, blocks) ==
    /\ history \in Seq(Blocks) /\ blocks \in Seq(Blocks)
    /\ \A i \in DOMAIN blocks :
          /\ blocks[i].id = Len(history) + i
          /\ blocks[i].kind \in {"text", "thinking", "redacted", "call"}

\* The history after it.
SaidHistory(later, open, history, blocks) ==
    /\ GrowsBy(later, history, blocks) /\ later \in Seq(Blocks)
    /\ Fitting(history, {}, blocks) /\ OpenAfter(history, {}, blocks, open)
    /\ IsHistory(history, {}, {}) /\ IsHistory(later, open, {})
    /\ MustBeTold(later) = MustBeTold(history) \cup
          Shifted(Len(history), {i \in DOMAIN blocks : blocks[i].kind \in {"text", "call"}})
    /\ MustBeTold(history) \subseteq DOMAIN history

\* The history that an assistant's message makes.
LEMMA SaidHistoryIs ==
  ASSUME NEW history, NEW blocks, SaysNext(history, blocks), IsHistory(history, {}, {})
  PROVE  SaidHistory(history \o blocks, Shifted(Len(history), CallsOf(blocks)), history, blocks)
<1> DEFINE n == Len(history)
           later == history \o blocks
           open == Shifted(n, CallsOf(blocks))
<1>1. /\ history \in Seq(Blocks) /\ blocks \in Seq(Blocks)
      /\ \A i \in DOMAIN blocks :
            /\ blocks[i].id = n + i
            /\ blocks[i].kind \in {"text", "thinking", "redacted", "call"}
  BY DEF SaysNext
<1>2. n \in Nat /\ DOMAIN blocks \subseteq Nat
  BY <1>1
<1>3. GrowsBy(later, history, blocks) /\ later \in Seq(Blocks)
  BY <1>1, ConcatGrows
<1> HIDE DEF n, later
<1>4. Fitting(history, {}, blocks)
  <2>1. ASSUME NEW i \in DOMAIN blocks, NEW j \in DOMAIN blocks, blocks[i] = blocks[j]
        PROVE  i = j
    <3>1. n + i = n + j /\ i \in Nat /\ j \in Nat
      BY <1>1, <1>2, <2>1
    <3>2. QED
      BY <1>2, <3>1
  <2>2. QED
    BY <1>1, <2>1 DEF Fitting, n
<1>5. OpenAfter(history, {}, blocks, open)
  BY <1>1 DEF OpenAfter, Shifted, CallsOf, n
<1>6. IsHistory(later, open, BadAfter(history, {}, blocks))
  BY <1>3, <1>4, <1>5, HistoryGrows
<1>7. BadAfter(history, {}, blocks) = {}
  BY <1>1 DEF BadAfter
<1>8. IsHistory(later, open, {})
  BY <1>6, <1>7
<1>9. /\ MustBeTold(later) = MustBeTold(history) \cup ToldOf(history, blocks)
      /\ MustBeTold(history) \subseteq DOMAIN history
  BY <1>3, <1>4, MustBeToldLater
<1>10. ToldOf(history, blocks) = Shifted(n, {i \in DOMAIN blocks : blocks[i].kind \in {"text", "call"}})
  <2>1. ASSUME NEW p, p \in ToldOf(history, blocks)
        PROVE  p \in Shifted(n, {i \in DOMAIN blocks : blocks[i].kind \in {"text", "call"}})
    BY <1>1, <2>1 DEF ToldOf, Shifted, n
  <2>2. ASSUME NEW p, p \in Shifted(n, {i \in DOMAIN blocks : blocks[i].kind \in {"text", "call"}})
        PROVE  p \in ToldOf(history, blocks)
    <3>1. PICK i \in DOMAIN blocks : blocks[i].kind \in {"text", "call"} /\ p = n + i
      BY <2>2 DEF Shifted
    <3>2. p \in Nat
      BY <1>2, <3>1
    <3>3. QED
      BY <3>1, <3>2 DEF ToldOf, n
  <2>3. QED
    BY <2>1, <2>2
<1>11. SaidHistory(later, open, history, blocks)
  BY <1>3, <1>4, <1>5, <1>8, <1>9, <1>10 DEF SaidHistory, n
<1>12. QED
  BY <1>11 DEF later, n

\* What is in the blocks is in the history that has them.
LEMMA ShiftEmbeds ==
  ASSUME NEW later, NEW history, NEW blocks, GrowsBy(later, history, blocks),
         NEW out, NEW places \in SUBSET DOMAIN blocks, Embeds(out, blocks, places)
  PROVE  Embeds(out, later, Shifted(Len(history), places))
<1>1. PICK n, k \in Nat :
        /\ n = Len(history) /\ DOMAIN blocks = 1 .. k /\ DOMAIN later = 1 .. n + k
        /\ \A i \in 1 .. k : later[n + i] = blocks[i]
  BY DEF GrowsBy
<1> DEFINE at == [i \in 1 .. k |-> n + i]
           all == {n + i : i \in 1 .. k}
<1>2. DOMAIN at = 1 .. k /\ \A i \in 1 .. k : at[i] = n + i
  OBVIOUS
<1>3. at \in [DOMAIN blocks -> all]
  BY <1>1
<1>4. \A p \in all : \E i \in DOMAIN blocks : at[i] = p
  BY <1>1, <1>2
<1>5. \A i, j \in DOMAIN blocks : i < j => at[i] < at[j]
  BY <1>1, <1>2
<1>6. \A i \in DOMAIN blocks : blocks[i] = later[at[i]]
  BY <1>1, <1>2
<1>7. all \in SUBSET Nat
  BY <1>1
<1> HIDE DEF at, all
<1>8. Through(at, blocks, later, all)
  BY <1>3, <1>4, <1>5, <1>6 DEF Through
<1>9. DOMAIN blocks \subseteq Nat /\ places \subseteq DOMAIN blocks
  BY <1>1
<1>10. Embeds(out, later, {at[p] : p \in places})
  BY <1>7, <1>8, <1>9, EmbedsThrough
<1>11. {at[p] : p \in places} = {n + p : p \in places}
  BY <1>1, <1>2, <1>9
<1>12. QED
  BY <1>1, <1>10, <1>11 DEF Shifted

\* The numbers of what is embedded.
LEMMA EmbeddedIds ==
  ASSUME NEW history, NEW blocks, SaysNext(history, blocks), NEW out \in Seq(Blocks),
         NEW places \in SUBSET DOMAIN blocks, Embeds(out, blocks, places)
  PROVE  ToSet(Ids(out)) = Shifted(Len(history), places)
<1>1. PICK at : Through(at, out, blocks, places)
  BY DEF Embeds
<1>2. /\ at \in [DOMAIN out -> places]
      /\ \A p \in places : \E k \in DOMAIN out : at[k] = p
      /\ \A k \in DOMAIN out : out[k] = blocks[at[k]]
  BY <1>1 DEF Through
<1>3. \A i \in DOMAIN blocks : blocks[i].id = Len(history) + i
  BY DEF SaysNext
<1>4. DOMAIN Ids(out) = DOMAIN out /\ \A k \in DOMAIN out : Ids(out)[k] = out[k].id
  BY IdsAre
<1>5. \A k \in DOMAIN out : at[k] \in places /\ Ids(out)[k] = Len(history) + at[k]
  BY <1>2, <1>3, <1>4
<1>6. ToSet(Ids(out)) = {Ids(out)[k] : k \in DOMAIN out}
  BY <1>4 DEF ToSet
<1>7. ToSet(Ids(out)) \subseteq Shifted(Len(history), places)
  BY <1>5, <1>6 DEF Shifted
<1>8. Shifted(Len(history), places) \subseteq ToSet(Ids(out))
  BY <1>2, <1>5, <1>6 DEF Shifted
<1>9. QED
  BY <1>7, <1>8

\* How the blocks are said: T in the message that is said, A deferred.
SaysAs(mode, history, blocks, said, pending, T, A) ==
    /\ T \subseteq DOMAIN blocks /\ A \subseteq DOMAIN blocks /\ T \cap A = {}
    /\ T \cup A = {i \in DOMAIN blocks : blocks[i].kind \in {"text", "call"}}
    /\ Embeds(Told(said), blocks, T) /\ Embeds(OfKind("text", pending.blocks), blocks, A)
    /\ \A a \in A : blocks[a].kind = "text"
    /\ \A t \in T, a \in A : t < a \/ blocks[t].kind = "call"
    /\ mode # "disabled" => \A i \in DOMAIN blocks : blocks[i].kind = "thinking" =>
          Len(history) + i \in ToSet(said.reasoning) \cup ToSet(Unsaid(pending.blocks).texts)

\* Where the pieces that are said and those that are deferred are in the history.
LEMMA SaidPlaces ==
  ASSUME NEW later, NEW open, NEW history, NEW blocks, SaysNext(history, blocks),
         SaidHistory(later, open, history, blocks),
         NEW mode, NEW said, NEW pending, NEW T, NEW A,
         SaysAs(mode, history, blocks, said, pending, T, A),
         open \subseteq Shifted(Len(history), DOMAIN blocks)
  PROVE  /\ Embeds(Told(said), later, Shifted(Len(history), T))
         /\ MustBeTold(later) \ Shifted(Len(history), A) =
               MustBeTold(history) \cup Shifted(Len(history), T)
         /\ Defers(later, open, pending.blocks, Shifted(Len(history), A))
         /\ ComeNext(later, MustBeTold(history), Shifted(Len(history), T))
         /\ MustBeTold(history) \in SUBSET Nat /\ Shifted(Len(history), T) \in SUBSET Nat
         /\ MustBeTold(history) \cap Shifted(Len(history), T) = {}
         /\ Distinct(later, MustBeTold(history) \cup Shifted(Len(history), T))
<1> DEFINE K == MustBeTold(history)
<1>1. /\ GrowsBy(later, history, blocks) /\ IsHistory(later, open, {})
      /\ MustBeTold(later) = K \cup
            Shifted(Len(history), {i \in DOMAIN blocks : blocks[i].kind \in {"text", "call"}})
      /\ K \subseteq DOMAIN history
  BY DEF SaidHistory
<1> HIDE DEF K
<1>2. PICK n, k \in Nat :
        /\ n = Len(history) /\ DOMAIN history = 1 .. n
        /\ DOMAIN blocks = 1 .. k /\ DOMAIN later = 1 .. n + k /\ Len(later) = n + k
        /\ \A i \in 1 .. k : later[n + i] = blocks[i]
  BY <1>1 DEF GrowsBy
<1> DEFINE told == Shifted(n, T)
           D == Shifted(n, A)
<1>3. /\ T \subseteq 1 .. k /\ A \subseteq 1 .. k /\ T \cap A = {}
      /\ T \cup A = {i \in DOMAIN blocks : blocks[i].kind \in {"text", "call"}}
      /\ Embeds(Told(said), blocks, T) /\ Embeds(OfKind("text", pending.blocks), blocks, A)
      /\ \A a \in A : blocks[a].kind = "text"
      /\ \A t \in T, a \in A : t < a \/ blocks[t].kind = "call"
  BY <1>2 DEF SaysAs
<1>4. Embeds(Told(said), later, told) /\ Embeds(OfKind("text", pending.blocks), later, D)
  BY <1>1, <1>2, <1>3, ShiftEmbeds
<1>5. Shifted(n, T \cup A) = told \cup D
  BY DEF Shifted
<1>6. MustBeTold(later) = K \cup told \cup D
  BY <1>1, <1>2, <1>3, <1>5
<1>7. /\ \A p \in told : \E t \in T : p = n + t /\ t \in 1 .. k
      /\ \A p \in D : \E a \in A : p = n + a /\ a \in 1 .. k
  BY <1>3 DEF Shifted
<1>8. \A i, j \in 1 .. k : n + i = n + j => i = j
  BY <1>2
<1>9. told \cap D = {}
  BY <1>3, <1>7, <1>8
<1>10. K \subseteq 1 .. n /\ told \subseteq n + 1 .. n + k /\ D \subseteq n + 1 .. n + k
  BY <1>1, <1>2, <1>7
<1>11. K \cap D = {} /\ K \cap told = {}
  BY <1>2, <1>10
<1>12. MustBeTold(later) \ D = K \cup told
  BY <1>6, <1>9, <1>11
<1>13. \A j \in 1 .. k : later[n + j].kind \notin {"prompt", "note", "result"}
  BY <1>2 DEF SaysNext
<1>14. \A p, q \in n + 1 .. n + k : SameTurn(later, p, q)
  <2>1. TAKE p, q \in n + 1 .. n + k
  <2>2. ASSUME NEW r \in (p + 1 .. q - 1) \cup (q + 1 .. p - 1)
        PROVE  later[r].kind \notin {"prompt", "note", "result"}
    <3>1. r - n \in 1 .. k /\ n + (r - n) = r
      BY <1>2, <2>1
    <3>2. QED
      BY <1>13, <3>1
  <2>3. QED
    BY <2>2 DEF SameTurn
<1>15. open \subseteq n + 1 .. n + k
  <2>1. \A p \in Shifted(n, 1 .. k) : p \in n + 1 .. n + k
    BY <1>2 DEF Shifted
  <2>2. QED
    BY <1>2, <2>1
<1>16. \A d \in D : /\ later[d].kind = "text" /\ NothingSince(later, d)
                    /\ \A c \in open : SameTurn(later, d, c)
  <2>1. TAKE d \in D
  <2>2. later[d].kind = "text"
    BY <1>2, <1>3, <1>7
  <2>3. d \in n + 1 .. n + k /\ \A b \in d + 1 .. n + k : b \in n + 1 .. n + k
    <3>1. d \in n + 1 .. n + k
      BY <1>10
    <3>2. QED
      BY <1>2, <3>1
  <2>4. Len(later) = n + k
    BY <1>2
  <2>5. NothingSince(later, d)
    BY <1>14, <2>3, <2>4 DEF NothingSince
  <2>6. QED
    BY <1>10, <1>14, <1>15, <2>2, <2>5
<1>17. ComeNext(later, K \cup told, D)
  <2>1. ASSUME NEW p \in K \cup told, NEW q \in D
        PROVE  p < q \/ MayFollow(later, q, p)
    <3>1. CASE p \in K
      BY <1>2, <1>10, <3>1
    <3>2. CASE p \in told
      <4>1. PICK t \in T : p = n + t /\ t \in 1 .. k
        BY <1>7, <3>2
      <4>2. PICK a \in A : q = n + a /\ a \in 1 .. k
        BY <1>7
      <4>3. CASE t < a
        BY <1>2, <4>1, <4>2, <4>3
      <4>4. CASE blocks[t].kind = "call"
        <5>1. later[p].kind = "call"
          BY <1>2, <4>1, <4>4
        <5>2. SameTurn(later, q, p)
          BY <1>10, <1>14, <3>2
        <5>3. QED
          BY <1>16, <5>1, <5>2 DEF MayFollow
      <4>5. QED
        BY <1>3, <4>3, <4>4
    <3>3. QED
      BY <3>1, <3>2
  <2>2. QED
    BY <2>1 DEF ComeNext
<1>18. Defers(later, open, pending.blocks, D)
  <2> HIDE DEF D, told
  <2>1. D \subseteq MustBeTold(later)
    BY <1>6
  <2>2. ComeNext(later, MustBeTold(later) \ D, D)
    BY <1>12, <1>17
  <2>3. QED
    BY <1>4, <1>16, <2>1, <2>2 DEF Defers
<1>19. ComeNext(later, K, told)
  <2>1. ASSUME NEW p \in K, NEW q \in told
        PROVE  p < q
    <3>1. p \in 1 .. n /\ q \in n + 1 .. n + k
      BY <1>10
    <3>2. QED
      BY <1>2, <3>1
  <2>2. QED
    BY <2>1 DEF ComeNext
<1>20. Distinct(later, K \cup told)
  <2>1. Distinct(later, DOMAIN later)
    BY <1>1 DEF IsHistory
  <2>2. K \cup told \subseteq DOMAIN later
    <3>1. 1 .. n \subseteq 1 .. n + k /\ n + 1 .. n + k \subseteq 1 .. n + k
      BY <1>2
    <3>2. QED
      BY <1>2, <1>10, <3>1
  <2>3. QED
    BY <2>1, <2>2 DEF Distinct
<1>21. K \in SUBSET Nat /\ told \in SUBSET Nat
  BY <1>2, <1>10
<1>22. QED
  BY <1>2, <1>4, <1>11, <1>12, <1>18, <1>19, <1>20, <1>21 DEF K

\* The blocks are said.
LEMMA SaidTalks ==
  ASSUME NEW mode, NEW history, NEW state, Dialogue(mode, history, {}, state),
         NEW later, NEW open, NEW blocks, SaysNext(history, blocks),
         SaidHistory(later, open, history, blocks),
         NEW said \in ChatMessages, NEW next \in States, Continues(next.chat, state.chat),
         next.chat = Append(state.chat, said), NEW T, NEW A,
         SaysAs(mode, history, blocks, said, next.pending, T, A),
         open \subseteq Shifted(Len(history), DOMAIN blocks),
         said.calls # <<>> => ToSet(said.calls) = open,
         next.pending.reasoning = <<>>,
         next.pending.blocks = <<>> => next.pending = NoneDeferred,
         next.pending.blocks # <<>> => next.pending.awaited = open /\ open # {}
  PROVE  Dialogue(mode, later, open, next)
<1> DEFINE K == MustBeTold(history)
           told == Shifted(Len(history), T)
           D == Shifted(Len(history), A)
           chat == state.chat
           new == Append(chat, said)
<1>1. /\ Telling(mode, history, {}, state) /\ state.pending.blocks = <<>>
      /\ CallsFollow("messages", chat, history, {}, {}, NoReasoning, TRUE)
  BY DEF Dialogue
<1>2. chat \in Seq(ChatMessages) /\ history \in Seq(Blocks)
  BY <1>1, OpenIsFinite
<1>3. Tells(chat, history, K) /\ Thought(mode, chat, history, Unsaid(<<>>))
  BY <1>1, AllTold
<1>4. /\ GrowsBy(later, history, blocks) /\ later \in Seq(Blocks)
      /\ Fitting(history, {}, blocks) /\ OpenAfter(history, {}, blocks, open)
      /\ IsHistory(history, {}, {}) /\ IsHistory(later, open, {})
      /\ K \subseteq DOMAIN history
  BY DEF SaidHistory
<1>5. /\ Embeds(Told(said), later, told)
      /\ MustBeTold(later) \ D = K \cup told
      /\ Defers(later, open, next.pending.blocks, D)
      /\ ComeNext(later, K, told)
      /\ K \in SUBSET Nat /\ told \in SUBSET Nat /\ K \cap told = {}
      /\ Distinct(later, K \cup told)
  <2> DEFINE pending == next.pending
  <2>1. SaysAs(mode, history, blocks, said, pending, T, A)
    OBVIOUS
  <2> HIDE DEF pending
  <2>2. /\ Embeds(Told(said), later, Shifted(Len(history), T))
        /\ MustBeTold(later) \ Shifted(Len(history), A) =
              MustBeTold(history) \cup Shifted(Len(history), T)
        /\ Defers(later, open, pending.blocks, Shifted(Len(history), A))
        /\ ComeNext(later, MustBeTold(history), Shifted(Len(history), T))
        /\ MustBeTold(history) \in SUBSET Nat /\ Shifted(Len(history), T) \in SUBSET Nat
        /\ MustBeTold(history) \cap Shifted(Len(history), T) = {}
        /\ Distinct(later, MustBeTold(history) \cup Shifted(Len(history), T))
    BY <2>1, SaidPlaces
  <2>3. QED
    BY <2>2 DEF pending
<1> HIDE DEF K, told, D
<1>6. Tells(new, later, K \cup told)
  <2>1. Tells(chat, later, K)
    BY <1>3, <1>4, TellsLater
  <2>2. QED
    BY <1>2, <1>5, <2>1, MessageTells
<1>7. PICK k \in Nat : /\ k = Len(chat) /\ DOMAIN chat = 1 .. k
  BY <1>2
<1>8. /\ DOMAIN new = 1 .. k + 1 /\ Len(new) = k + 1 /\ new[k + 1] = said
      /\ \A m \in 1 .. k : new[m] = chat[m]
  BY <1>2, <1>7
<1>9. next.chat = new
  OBVIOUS
<1>10. new \in Seq(ChatMessages) /\ Continues(new, chat)
  BY <1>2, <1>9
<1> HIDE DEF chat, new
<1>11. Thought(mode, new, later, Unsaid(next.pending.blocks))
  <2>1. ASSUME mode # "disabled", NEW p \in DOMAIN later, later[p].kind = "thinking"
        PROVE  \/ p \in ToSet(Unsaid(next.pending.blocks).texts)
               \/ \E m \in DOMAIN new : p \in ToSet(new[m].reasoning)
    <3>1. PICK n, j \in Nat :
            /\ n = Len(history) /\ DOMAIN history = 1 .. n
            /\ DOMAIN blocks = 1 .. j /\ DOMAIN later = 1 .. n + j
            /\ \A i \in 1 .. n : later[i] = history[i]
            /\ \A i \in 1 .. j : later[n + i] = blocks[i]
      BY <1>4 DEF GrowsBy
    <3>2. CASE p \in 1 .. n
      <4>1. history[p].kind = "thinking" /\ p \in DOMAIN history
        BY <2>1, <3>1, <3>2
      <4>2. ToSet(Unsaid(<<>>).texts) = {}
        BY NothingUnsaid
      <4>3. PICK m \in DOMAIN chat : p \in ToSet(chat[m].reasoning)
        BY <1>3, <2>1, <4>1, <4>2 DEF Thought
      <4>4. m \in DOMAIN new /\ new[m] = chat[m]
        BY <1>7, <1>8
      <4>5. QED
        BY <4>3, <4>4
    <3>3. CASE p \notin 1 .. n
      <4>1. p - n \in 1 .. j /\ n + (p - n) = p
        BY <2>1, <3>1, <3>3
      <4>2. blocks[p - n].kind = "thinking"
        BY <2>1, <3>1, <4>1
      <4>3. p \in ToSet(said.reasoning) \cup ToSet(Unsaid(next.pending.blocks).texts)
        BY <2>1, <3>1, <4>1, <4>2 DEF SaysAs
      <4>4. k + 1 \in DOMAIN new
        BY <1>7, <1>8
      <4>5. QED
        BY <1>8, <4>3, <4>4
    <3>4. QED
      BY <3>2, <3>3
  <2>2. QED
    BY <2>1 DEF Thought
<1>12. Telling(mode, later, open, next)
  <2>1. \E E : /\ Defers(later, open, next.pending.blocks, E)
               /\ Tells(next.chat, later, MustBeTold(later) \ E)
    BY <1>5, <1>6, <1>9
  <2>2. Thought(mode, next.chat, later, Unsaid(next.pending.blocks))
    BY <1>9, <1>11
  <2>3. QED
    BY <1>4, <2>1, <2>2 DEF Telling
<1>13. ASSUME NEW m \in DOMAIN new, new[m].calls # <<>>,
              m \in DOMAIN chat =>
                 /\ chat[m].calls # <<>>
                 /\ Waits("messages", chat, m, history, {}, {}, NoReasoning, TRUE)
       PROVE  \/ Settled("messages", new, m, later, open)
              \/ Waits("messages", new, m, later, open, {}, NoReasoning, TRUE)
  <2>1. m \notin DOMAIN chat
    BY <1>13 DEF Waits
  <2>2. m = k + 1 /\ m >= Len(new)
    BY <1>7, <1>8, <1>13, <2>1
  <2>3. ToSet(new[m].calls) = open
    BY <1>8, <1>13, <2>2
  <2>4. ToSet(new[m].calls) \subseteq open /\ open \ {} \subseteq ToSet(new[m].calls)
    BY <2>3
  <2>5. Waits("messages", new, m, later, open, {}, NoReasoning, TRUE)
    BY <1>10, <1>13, <2>2, <2>4, CallsWait
  <2>6. QED
    BY <2>5
<1>14. CallsFollow("messages", new, later, open, {}, NoReasoning, TRUE)
  BY <1>1, <1>2, <1>3, <1>4, <1>10, <1>13, CallsFollowLater
<1>15. CallsFollow("messages", next.chat, later, open, {}, NoReasoning, TRUE)
  BY <1>9, <1>14
<1>16. QED
  BY <1>12, <1>15 DEF Dialogue

\* No text is at no place.
LEMMA NothingEmbeds ==
  ASSUME NEW s
  PROVE  Embeds(OfKind("text", <<>>), s, {})
BY DefersNothing DEF Defers

\* A message without a call.
LEMMA NoCallSaid ==
  ASSUME NEW mode, NEW history, NEW blocks, SaysNext(history, blocks), CallsOf(blocks) = {}
  PROVE  LET said == AssistantChat(mode, blocks, <<>>)
             T == {i \in DOMAIN blocks : blocks[i].kind = "text"}
         IN  /\ said \in ChatMessages /\ said.calls = <<>>
             /\ SaysAs(mode, history, blocks, said, NoneDeferred, T, {})
<1> DEFINE said == AssistantChat(mode, blocks, <<>>)
           T == {i \in DOMAIN blocks : blocks[i].kind = "text"}
           thoughts == KindAt("thinking", blocks, DOMAIN blocks)
<1>1. blocks \in Seq(Blocks) /\ <<>> \in Seq(Nat)
  BY DEF SaysNext
<1>2. /\ said \in ChatMessages /\ said.role = "assistant" /\ said.calls = <<>>
      /\ said.text = OfKind("text", blocks)
      /\ said.reasoning = IF mode = "disabled" THEN <<>> ELSE Ids(OfKind("thinking", blocks))
  <2> DEFINE none == <<>>
  <2>1. /\ said \in ChatMessages /\ said.role = "assistant" /\ said.calls = <<>>
        /\ said.text = OfKind("text", blocks)
        /\ said.reasoning = IF mode = "disabled" THEN <<>>
                            ELSE IF none # <<>> THEN none ELSE Ids(OfKind("thinking", blocks))
    BY <1>1, AssistantChatIs
  <2>2. QED
    BY <2>1
<1> HIDE DEF said
<1>3. Told(said) = OfKind("text", blocks)
  BY <1>2, ToldIs
<1>4. Embeds(OfKind("text", blocks), blocks, T)
  BY <1>1, OfKindIs DEF KindAt
<1>5. /\ OfKind("thinking", blocks) \in Seq(Blocks)
      /\ Embeds(OfKind("thinking", blocks), blocks, thoughts)
  BY <1>1, OfKindIs
<1>6. thoughts \in SUBSET DOMAIN blocks
  BY DEF KindAt
<1>7. ToSet(Ids(OfKind("thinking", blocks))) = Shifted(Len(history), thoughts)
  BY <1>5, <1>6, EmbeddedIds
<1>8. mode # "disabled" => \A i \in DOMAIN blocks : blocks[i].kind = "thinking" =>
         Len(history) + i \in ToSet(said.reasoning)
  BY <1>2, <1>7 DEF Shifted, KindAt
<1>9. T = {i \in DOMAIN blocks : blocks[i].kind \in {"text", "call"}}
  BY DEF CallsOf
<1>10. NoneDeferred.blocks = <<>>
  BY DEF NoneDeferred
<1>11. Embeds(OfKind("text", NoneDeferred.blocks), blocks, {})
  BY <1>10, NothingEmbeds
<1>12. SaysAs(mode, history, blocks, said, NoneDeferred, T, {})
  BY <1>3, <1>4, <1>8, <1>9, <1>11 DEF SaysAs
<1>13. QED
  BY <1>2, <1>12 DEF said

\* A message with calls.
LEMMA CallsSaid ==
  ASSUME NEW mode, NEW history, NEW blocks, SaysNext(history, blocks), CallsOf(blocks) # {}
  PROVE  LET message == RequestMessage("assistant", FALSE, blocks, <<>>)
             said == CallChat(mode, message)
             T == KindAt("text", blocks, BeforeCalls(blocks)) \cup CallsOf(blocks)
             A == KindAt("text", blocks, AmongCalls(blocks))
         IN  /\ said \in ChatMessages
             /\ ToSet(said.calls) = Shifted(Len(history), CallsOf(blocks))
             /\ DeferredOf(message).reasoning = <<>>
             /\ DeferredOf(message).blocks = <<>> => DeferredOf(message) = NoneDeferred
             /\ DeferredOf(message).blocks # <<>> =>
                   DeferredOf(message).awaited = Shifted(Len(history), CallsOf(blocks))
             /\ SaysAs(mode, history, blocks, said, DeferredOf(message), T, A)
<1> DEFINE message == RequestMessage("assistant", FALSE, blocks, <<>>)
           said == CallChat(mode, message)
           before == Picked(blocks, BeforeCalls(blocks))
           rest == Picked(blocks, AmongCalls(blocks))
           n == Len(history)
           calls == CallsOf(blocks)
           B == KindAt("text", blocks, BeforeCalls(blocks))
           A == KindAt("text", blocks, AmongCalls(blocks))
           T == B \cup calls
           early == KindAt("thinking", blocks, BeforeCalls(blocks))
           late == KindAt("thinking", blocks, AmongCalls(blocks))
           pending == DeferredOf(message)
<1>1. /\ blocks \in Seq(Blocks) /\ <<>> \in Seq(Nat)
      /\ history \in Seq(Blocks) /\ DOMAIN blocks \subseteq Nat
  BY DEF SaysNext
<1>2. /\ message \in Messages /\ message.blocks = blocks /\ message.reasoning = <<>>
  <2>1. FALSE \in BOOLEAN
    OBVIOUS
  <2>2. QED
    BY <1>1, <2>1, AssistantMessageIs
<1> HIDE DEF message
<1>3. /\ said \in ChatMessages /\ said.role = "assistant"
      /\ said.calls = Ids(OfKind("call", blocks))
      /\ said.text = OfKind("text", before)
      /\ said.reasoning = IF mode = "disabled" THEN <<>> ELSE Ids(OfKind("thinking", before))
  <2> DEFINE front == Picked(message.blocks, BeforeCalls(message.blocks))
  <2>1. /\ said \in ChatMessages /\ said.role = "assistant"
        /\ said.calls = Ids(OfKind("call", message.blocks))
        /\ said.text = OfKind("text", front)
        /\ said.reasoning = IF mode = "disabled" THEN <<>>
                            ELSE IF message.reasoning # <<>> THEN message.reasoning
                            ELSE Ids(OfKind("thinking", front))
    BY <1>2, CallChatIs
  <2>2. front = before
    BY <1>2
  <2> HIDE DEF front, said, before
  <2>3. QED
    BY <1>2, <2>1, <2>2
<1> HIDE DEF said
<1>4. /\ B \in SUBSET DOMAIN blocks /\ A \in SUBSET DOMAIN blocks /\ calls \in SUBSET DOMAIN blocks
      /\ early \in SUBSET DOMAIN blocks /\ late \in SUBSET DOMAIN blocks
  BY DEF KindAt, CallsOf
<1>5. /\ OfKind("text", before) \in Seq(Blocks) /\ Embeds(OfKind("text", before), blocks, B)
      /\ OfKind("text", rest) \in Seq(Blocks) /\ Embeds(OfKind("text", rest), blocks, A)
      /\ OfKind("thinking", before) \in Seq(Blocks)
      /\ Embeds(OfKind("thinking", before), blocks, early)
      /\ OfKind("thinking", rest) \in Seq(Blocks) /\ Embeds(OfKind("thinking", rest), blocks, late)
  BY <1>1, OfKindPicked
<1>6. OfKind("call", blocks) \in Seq(Blocks) /\ Embeds(OfKind("call", blocks), blocks, calls)
  BY <1>1, OfKindIs DEF KindAt, CallsOf
<1>7. ToSet(Ids(OfKind("call", blocks))) = Shifted(n, calls)
  BY <1>4, <1>6, EmbeddedIds
<1>8. ToSet(Ids(OfKind("thinking", before))) = Shifted(n, early)
  BY <1>4, <1>5, EmbeddedIds
<1>9. ToSet(Ids(OfKind("thinking", rest))) = Shifted(n, late)
  BY <1>4, <1>5, EmbeddedIds
<1>10. /\ pending.reasoning = <<>> /\ pending.blocks = rest
       /\ rest = <<>> => pending = NoneDeferred
       /\ rest # <<>> => pending.awaited = Shifted(n, calls)
  <2>1. pending = IF rest = <<>> THEN NoneDeferred
                  ELSE [awaited |-> ToSet(Ids(OfKind("call", blocks))), blocks |-> rest,
                        reasoning |-> <<>>]
    BY <1>2 DEF DeferredOf
  <2> HIDE DEF rest, pending
  <2>2. NoneDeferred.blocks = <<>> /\ NoneDeferred.reasoning = <<>>
    BY DEF NoneDeferred
  <2>3. QED
    BY <1>7, <2>1, <2>2
<1> HIDE DEF before, rest, pending
<1>11. Told(said) = OfKind("text", before) \o OfKind("call", blocks)
  <2>1. \A c \in DOMAIN OfKind("call", blocks) :
           OfKind("call", blocks)[c].kind = "call" /\ OfKind("call", blocks)[c] \in Blocks
    <3>1. PICK at : Through(at, OfKind("call", blocks), blocks, calls)
      BY <1>6 DEF Embeds
    <3>2. QED
      BY <1>6, <3>1 DEF Through, CallsOf
  <2>2. \A b \in Blocks : b.kind = "call" => Piece("call", b.id) = b
    BY DEF Blocks, Piece
  <2>3. /\ DOMAIN said.calls = DOMAIN OfKind("call", blocks)
        /\ \A c \in DOMAIN OfKind("call", blocks) : said.calls[c] = OfKind("call", blocks)[c].id
    BY <1>3, <1>6, IdsAre
  <2> DEFINE list == [c \in DOMAIN said.calls |-> Piece("call", said.calls[c])]
             whole == OfKind("call", blocks)
  <2>4. list = whole
    <3>1. DOMAIN list = DOMAIN whole /\ whole = [c \in DOMAIN whole |-> whole[c]]
      BY <1>6, <2>3
    <3>2. \A c \in DOMAIN whole : list[c] = whole[c]
      BY <2>1, <2>2, <2>3
    <3> HIDE DEF whole
    <3>3. QED
      BY <3>1, <3>2
  <2>5. said.role # "tool"
    BY <1>3
  <2>6. Told(said) = said.text \o list
    BY <1>3, <2>5, ToldIs
  <2>7. QED
    BY <1>3, <2>4, <2>6
<1>12. \A p \in B, q \in calls : p < q
  BY DEF KindAt, BeforeCalls
<1>13. Embeds(Told(said), blocks, T)
  <2>1. B \in SUBSET Nat /\ calls \in SUBSET Nat
    BY <1>1, <1>4
  <2> DEFINE a == OfKind("text", before)
             b == OfKind("call", blocks)
  <2>2. /\ a \in Seq(Blocks) /\ b \in Seq(Blocks) /\ Embeds(a, blocks, B)
        /\ Embeds(b, blocks, calls) /\ \A p \in B, q \in calls : p < q
    BY <1>5, <1>6, <1>12
  <2> HIDE DEF a, b, B, calls
  <2>3. Embeds(a \o b, blocks, B \cup calls)
    BY <2>1, <2>2, EmbedsConcat
  <2>4. QED
    BY <1>11, <2>3 DEF a, b
<1>14. T \cup A = {i \in DOMAIN blocks : blocks[i].kind \in {"text", "call"}}
  BY DEF KindAt, CallsOf, AmongCalls, BeforeCalls
<1>15. T \cap A = {} /\ \A a \in A : blocks[a].kind = "text"
  BY DEF KindAt, CallsOf, AmongCalls, BeforeCalls
<1>16. ASSUME NEW t \in T, NEW a \in A
       PROVE  t < a \/ blocks[t].kind = "call"
  <2>1. CASE t \in calls
    BY <2>1 DEF CallsOf
  <2>2. CASE t \in B
    <3>1. a \in DOMAIN blocks /\ a \notin BeforeCalls(blocks)
      BY DEF KindAt, AmongCalls
    <3>2. PICK c \in calls : ~ (a < c)
      BY <3>1 DEF BeforeCalls
    <3>3. t < c
      BY <1>12, <2>2
    <3>4. t \in Nat /\ a \in Nat /\ c \in Nat
      BY <1>1, <1>4, <2>2, <3>1
    <3>5. QED
      BY <3>2, <3>3, <3>4
  <2>3. QED
    BY <2>1, <2>2
<1>17. ASSUME mode # "disabled", NEW i \in DOMAIN blocks, blocks[i].kind = "thinking"
       PROVE  n + i \in ToSet(said.reasoning) \cup ToSet(Unsaid(pending.blocks).texts)
  <2>1. i \in early \/ i \in late
    BY <1>17 DEF KindAt, AmongCalls, CallsOf
  <2>2. n + i \in Shifted(n, early) \/ n + i \in Shifted(n, late)
    BY <2>1 DEF Shifted
  <2>3. ToSet(said.reasoning) = Shifted(n, early)
    BY <1>3, <1>8, <1>17
  <2>4. ToSet(Unsaid(pending.blocks).texts) = Shifted(n, late)
    BY <1>9, <1>10 DEF Unsaid
  <2>5. QED
    BY <2>2, <2>3, <2>4
<1>18. Embeds(OfKind("text", pending.blocks), blocks, A)
  BY <1>5, <1>10
<1> HIDE DEF A, T, B
<1>19. T \subseteq DOMAIN blocks
  BY <1>4 DEF T
<1>20. SaysAs(mode, history, blocks, said, pending, T, A)
  BY <1>4, <1>13, <1>14, <1>15, <1>16, <1>17, <1>18, <1>19 DEF SaysAs
<1>21. /\ said \in ChatMessages /\ ToSet(said.calls) = Shifted(n, calls)
       /\ pending.reasoning = <<>>
       /\ pending.blocks = <<>> => pending = NoneDeferred
       /\ pending.blocks # <<>> => pending.awaited = Shifted(n, calls)
  BY <1>3, <1>7, <1>10
<1>22. QED
  BY <1>20, <1>21 DEF message, said, pending, T, A, B

\* The assistant's message is converted.
LEMMA AssistantTalks ==
  ASSUME NEW mode, NEW history, NEW was, NEW given, Dialogue(mode, history, given, was),
         NEW blocks, SaysNext(history, blocks)
  PROVE  Dialogue(mode, history \o blocks, Shifted(Len(history), CallsOf(blocks)),
                  Converted(mode, was, RequestMessage("assistant", FALSE, blocks, <<>>)))
<1> DEFINE state == Joined(mode, was)
           message == RequestMessage("assistant", FALSE, blocks, <<>>)
           later == history \o blocks
           open == Shifted(Len(history), CallsOf(blocks))
<1>0. Dialogue(mode, history, {}, state)
  BY AbandonTalks
<1>1. /\ Telling(mode, history, {}, state) /\ state.pending.blocks = <<>>
  BY <1>0 DEF Dialogue
<1>2. /\ state \in States /\ state.chat \in Seq(ChatMessages) /\ IsHistory(history, {}, {})
      /\ Undeferred(state)
  BY <1>1, OpenIsFinite, AllTold
<1>3. SaidHistory(later, open, history, blocks)
  BY <1>2, SaidHistoryIs
<1>4. blocks \in Seq(Blocks) /\ <<>> \in Seq(Nat) /\ FALSE \in BOOLEAN
  BY DEF SaysNext
<1>5. /\ message \in Messages /\ message.role = "assistant" /\ ~ message.plain
      /\ message.blocks = blocks /\ message.reasoning = <<>>
  BY <1>4 DEF RequestMessage, Messages
<1> HIDE DEF message
<1>6. open \subseteq Shifted(Len(history), DOMAIN blocks)
  BY DEF Shifted, CallsOf
<1>7. Joined(mode, was) = state
  OBVIOUS
<1>7a. was \in States
  BY OpenIsFinite DEF Dialogue
<1> HIDE DEF later, state
<1>8. CASE CallsOf(blocks) = {}
  <2> DEFINE said == AssistantChat(mode, blocks, <<>>)
             T == {i \in DOMAIN blocks : blocks[i].kind = "text"}
             next == Extended(state, said)
  <2>1. /\ said \in ChatMessages /\ said.calls = <<>>
        /\ SaysAs(mode, history, blocks, said, NoneDeferred, T, {})
    BY <1>8, NoCallSaid
  <2>2. Converted(mode, was, message) = [state EXCEPT !.chat = Append(@, said)]
    BY <1>5, <1>7, <1>8 DEF Converted
  <2> HIDE DEF said
  <2>3. [state EXCEPT !.chat = Append(@, said)] = next /\ Undeferred(next)
    BY <1>2, <2>1, UndeferredIs
  <2>4. next \in States /\ next.chat = Append(state.chat, said) /\ next.pending = NoneDeferred
    BY <2>3 DEF Extended, Undeferred
  <2>5. Continues(Append(state.chat, said), state.chat)
    BY <1>2, <2>1, ContinuesAppended
  <2>6. NoneDeferred.blocks = <<>> /\ NoneDeferred.reasoning = <<>>
    BY DEF NoneDeferred
  <2> HIDE DEF next, T
  <2>7. /\ Continues(next.chat, state.chat)
        /\ SaysAs(mode, history, blocks, said, next.pending, T, {})
        /\ next.pending.reasoning = <<>> /\ next.pending.blocks = <<>>
    BY <2>1, <2>4, <2>5, <2>6
  <2>8. Dialogue(mode, later, open, next)
    BY <1>0, <1>3, <1>6, <2>1, <2>4, <2>7, SaidTalks
  <2>9. QED
    BY <2>2, <2>3, <2>8 DEF message, later
<1>9. CASE CallsOf(blocks) # {}
  <2> DEFINE said == CallChat(mode, message)
             T == KindAt("text", blocks, BeforeCalls(blocks)) \cup CallsOf(blocks)
             A == KindAt("text", blocks, AmongCalls(blocks))
             pending == DeferredOf(message)
             next == [chat |-> Append(state.chat, said), pending |-> pending]
  <2>1. /\ said \in ChatMessages
        /\ ToSet(said.calls) = open
        /\ pending.reasoning = <<>>
        /\ pending.blocks = <<>> => pending = NoneDeferred
        /\ pending.blocks # <<>> => pending.awaited = open
        /\ SaysAs(mode, history, blocks, said, pending, T, A)
    BY <1>9, CallsSaid DEF message
  <2>2. Converted(mode, was, message) = next
    BY <1>5, <1>7, <1>9 DEF Converted
  <2>3. next \in States
    BY <1>5, <1>7a, <2>2, ConvertedIs
  <2> HIDE DEF said, pending, T, A
  <2>4. next.chat = Append(state.chat, said) /\ next.pending = pending
    OBVIOUS
  <2>5. Continues(Append(state.chat, said), state.chat)
    BY <1>2, <2>1, ContinuesAppended
  <2>6. open # {}
    BY <1>9 DEF Shifted
  <2> HIDE DEF next, open
  <2>7. /\ Continues(next.chat, state.chat)
        /\ SaysAs(mode, history, blocks, said, next.pending, T, A)
        /\ next.pending.reasoning = <<>>
        /\ next.pending.blocks = <<>> => next.pending = NoneDeferred
        /\ next.pending.blocks # <<>> => next.pending.awaited = open /\ open # {}
        /\ said.calls # <<>> => ToSet(said.calls) = open
    BY <2>1, <2>4, <2>5, <2>6
  <2>8. Dialogue(mode, later, open, next)
    BY <1>0, <1>3, <1>6, <2>1, <2>3, <2>4, <2>7, SaidTalks
  <2>9. QED
    BY <2>2, <2>8 DEF message, later, open
<1>10. QED
  BY <1>8, <1>9

\* A message of the assistant.
LEMMA AssistantMessageKeeps ==
  ASSUME NEW state, Conversing(state), AssistantMessage, MaxPieces \in Nat
  PROVE  \E end : Conversing(end)'
<1>1. /\ request \in Seq(Messages) /\ Conversion(replay, request) = state
      /\ heldReasoning = NoReasoning /\ quarantined = {}
      /\ Dialogue(replay, pieces, openCalls, state)
  BY DEF Conversing
<1>2. /\ state \in States /\ pieces \in Seq(Blocks) /\ Len(pieces) \in Nat
  BY <1>1, OpenIsFinite DEF Dialogue
<1>3. PICK n \in 1 .. MaxPieces - Len(pieces) :
         \E kinds \in [1 .. n -> {"text", "thinking", "redacted", "call"}] :
            /\ Add("assistant", FALSE, Numbered(kinds))
            /\ openCalls' = {Len(pieces) + k : k \in {i \in 1 .. n : kinds[i] = "call"}}
  BY DEF AssistantMessage
<1>4. PICK kinds \in [1 .. n -> {"text", "thinking", "redacted", "call"}] :
         /\ Add("assistant", FALSE, Numbered(kinds))
         /\ openCalls' = {Len(pieces) + k : k \in {i \in 1 .. n : kinds[i] = "call"}}
  BY <1>3
<1> DEFINE blocks == Numbered(kinds)
           message == RequestMessage("assistant", FALSE, blocks, <<>>)
<1>5. n \in Nat
  BY <1>2
<1>6. blocks = [k \in 1 .. n |-> Piece(kinds[k], Len(pieces) + k)]
  BY DEF Numbered
<1>7. \A k \in 1 .. n : /\ Piece(kinds[k], Len(pieces) + k) \in Blocks
                        /\ Piece(kinds[k], Len(pieces) + k).id = Len(pieces) + k
                        /\ Piece(kinds[k], Len(pieces) + k).kind = kinds[k]
  <2>1. \A k \in 1 .. n : Len(pieces) + k \in Nat /\ kinds[k] \in {"text", "thinking", "redacted", "call"}
    BY <1>2, <1>5
  <2>2. QED
    BY <2>1 DEF Piece, Blocks
<1> HIDE DEF blocks
<1>8. DOMAIN blocks = 1 .. n /\ blocks \in [1 .. n -> Blocks]
  BY <1>6, <1>7
<1>9. blocks \in Seq(Blocks)
  BY <1>5, <1>8
<1>10. \A k \in 1 .. n : blocks[k].id = Len(pieces) + k /\ blocks[k].kind = kinds[k]
  BY <1>6, <1>7
<1>11. \A k \in 1 .. n : kinds[k] \in {"text", "thinking", "redacted", "call"}
  OBVIOUS
<1>12. SaysNext(pieces, blocks)
  BY <1>2, <1>8, <1>9, <1>10, <1>11 DEF SaysNext
<1>13. openCalls' = Shifted(Len(pieces), CallsOf(blocks))
  <2>1. CallsOf(blocks) = {i \in 1 .. n : kinds[i] = "call"}
    BY <1>8, <1>10 DEF CallsOf
  <2>2. QED
    BY <1>4, <2>1 DEF Shifted
<1>14. /\ pieces' = pieces \o blocks /\ request' = Append(request, message)
       /\ UNCHANGED <<client, replay, heldReasoning, quarantined>>
  BY <1>4 DEF Add, blocks
<1>15. message \in Messages
  <2>1. <<>> \in Seq(Nat) /\ FALSE \in BOOLEAN
    OBVIOUS
  <2>2. QED
    BY <1>9, <2>1, AssistantMessageIs
<1>16. Dialogue(replay, pieces \o blocks, Shifted(Len(pieces), CallsOf(blocks)),
                Converted(replay, state, message))
  BY <1>1, <1>12, AssistantTalks
<1> HIDE DEF message
<1>17. Conversion(replay, Append(request, message)) = Converted(replay, state, message)
  BY <1>1, <1>15, ConversionIs
<1>18. PICK end : end = Converted(replay, state, message)
  OBVIOUS
<1>19. request' \in Seq(Messages) /\ Conversion(replay', request') = end
  BY <1>1, <1>14, <1>15, <1>17, <1>18
<1>20. Dialogue(replay', pieces', openCalls', end)
  BY <1>13, <1>14, <1>16, <1>18
<1>21. Conversing(end)'
  BY <1>1, <1>14, <1>19, <1>20 DEF Conversing
<1>22. QED
  BY <1>21

-----------------------------------------------------------------------------
(* Every conversation.                                                     *)

\* What is inductive of ChatIsTheConversation.
ConversationIs ==
    /\ client \in {"messages", "responses"}
    /\ client = "responses" => \E state : Responses(state)
    /\ client = "messages" => \E state : Conversing(state)

\* The first request says nothing.
LEMMA NothingSaid ==
  ASSUME NEW mode
  PROVE  /\ Conversion(mode, <<>>) = Unconverted /\ Undeferred(Unconverted)
         /\ <<>> \in Seq(Messages) /\ Unconverted.chat = <<>>
<1>1. <<>> \in Seq(Messages)
  OBVIOUS
<1>2. Conversion(mode, <<>>) = Unconverted /\ Conversion(mode, <<>>) \in States
  BY <1>1, ConversionIs
<1>3. QED
  BY <1>1, <1>2 DEF Undeferred, Unconverted

\* The first state.
LEMMA ConversationInit ==
  ASSUME ConvInit
  PROVE  ConversationIs
<1>1. /\ client \in {"messages", "responses"} /\ pieces = <<>> /\ openCalls = {}
      /\ request = <<>> /\ heldReasoning = NoReasoning /\ quarantined = {}
  BY DEF ConvInit
<1>2. /\ Conversion(replay, <<>>) = Unconverted /\ Undeferred(Unconverted)
      /\ <<>> \in Seq(Messages) /\ Unconverted.chat = <<>>
  BY NothingSaid
<1>3. DOMAIN <<>> = {} /\ <<>> \in Seq(Blocks)
  OBVIOUS
<1>4. IsHistory(<<>>, {}, {})
  BY <1>3 DEF IsHistory, Distinct
<1>5. MustBeTold(<<>>) = {}
  BY <1>3 DEF MustBeTold
<1>6. Tells(<<>>, <<>>, {})
  <2>1. Spots(<<>>) = {}
    BY <1>3 DEF Spots
  <2>2. QED
    BY <2>1 DEF Tells
<1>7. \A held : Thought(replay, <<>>, <<>>, held)
  BY <1>3 DEF Thought
<1>8. \A who, ends : CallsFollow(who, <<>>, <<>>, {}, {}, NoReasoning, ends)
  BY <1>3 DEF CallsFollow
<1>9. \E state : Responses(state)
  <2>1. EndsWith(IsCallMessage) = FALSE
    BY <1>1 DEF EndsWith
  <2>2. Converts(replay, request, Unconverted)
    BY <1>1, <1>2 DEF Converts
  <2>3. OneTurn(pieces, openCalls)
    BY <1>1 DEF OneTurn
  <2>4. CallsHeld
    BY <1>1 DEF CallsHeld
  <2>5. Tells(Unconverted.chat, pieces, MustBeTold(pieces))
    BY <1>1, <1>2, <1>5, <1>6
  <2>6. Thought(replay, Unconverted.chat, pieces, heldReasoning)
    BY <1>1, <1>2, <1>7
  <2>7. CallsFollow(client, Unconverted.chat, pieces, openCalls, quarantined, heldReasoning,
                    EndsWith(IsCallMessage))
    BY <1>1, <1>2, <1>8
  <2>8. /\ pieces \in Seq(Blocks) /\ heldReasoning \in HeldReasoning
        /\ IsHistory(pieces, openCalls, quarantined)
    BY <1>1, <1>3, <1>4, NoReasoningIs
  <2>9. Responses(Unconverted)
    BY <2>8, <2>1, <2>2, <2>3, <2>6, <2>7, <2>4, <2>5 DEF Responses
  <2>10. QED
    BY <2>9
<1>10. \E state : Conversing(state)
  <2>1. Unconverted.pending = NoneDeferred
    BY <1>2 DEF Undeferred
  <2>2. NoneDeferred.blocks = <<>> /\ NoneDeferred.reasoning = <<>>
    BY DEF NoneDeferred
  <2>3. Unconverted \in States
    BY <1>2 DEF Undeferred
  <2>4. Defers(<<>>, {}, <<>>, {})
    BY DefersNothing
  <2>5. MustBeTold(<<>>) \ {} = {}
    BY <1>5
  <2>6. \E D : /\ Defers(<<>>, {}, Unconverted.pending.blocks, D)
               /\ Tells(Unconverted.chat, <<>>, MustBeTold(<<>>) \ D)
    BY <1>2, <1>6, <2>1, <2>2, <2>4, <2>5
  <2>7. Thought(replay, Unconverted.chat, <<>>, Unsaid(Unconverted.pending.blocks))
    BY <1>2, <1>7
  <2>8. Telling(replay, <<>>, {}, Unconverted)
    BY <1>3, <1>4, <2>1, <2>2, <2>3, <2>6, <2>7 DEF Telling
  <2>9. CallsFollow("messages", Unconverted.chat, <<>>, {}, {}, NoReasoning, TRUE)
    BY <1>2, <1>8
  <2>10. Dialogue(replay, <<>>, {}, Unconverted)
    BY <2>1, <2>2, <2>8, <2>9 DEF Dialogue
  <2>11. Conversing(Unconverted)
    BY <1>1, <1>2, <2>10 DEF Conversing
  <2>12. QED
    BY <2>11
<1>11. QED
  BY <1>1, <1>9, <1>10 DEF ConversationIs

\* Every step keeps it.
LEMMA ConversationGoesOn ==
  ASSUME ConversationIs, [ConvNext]_convVars, MaxPieces \in Nat
  PROVE  ConversationIs'
<1>1. CASE Item
  <2>1. client = "responses" /\ client' = client
    BY <1>1 DEF Item
  <2>2. PICK state : Responses(state)
    BY <2>1 DEF ConversationIs
  <2>3. \E end : Responses(end)'
    BY <1>1, <2>2, ItemKeeps
  <2>4. QED
    BY <2>1, <2>3 DEF ConversationIs
<1>2. CASE AssistantMessage
  <2>1. client = "messages" /\ client' = client
    BY <1>2 DEF AssistantMessage, Add
  <2>2. PICK state : Conversing(state)
    BY <2>1 DEF ConversationIs
  <2>3. \E end : Conversing(end)'
    BY <1>2, <2>2, AssistantMessageKeeps
  <2>4. QED
    BY <2>1, <2>3 DEF ConversationIs
<1>3. CASE UserMessage
  <2>1. client = "messages" /\ client' = client
    BY <1>3 DEF UserMessage, UserList, Add
  <2>2. PICK state : Conversing(state)
    BY <2>1 DEF ConversationIs
  <2>3. \E end : Conversing(end)'
    BY <1>3, <2>2, UserMessageKeeps
  <2>4. QED
    BY <2>1, <2>3 DEF ConversationIs
<1>4. CASE UNCHANGED convVars
  <2>1. UNCHANGED <<client, replay, pieces, openCalls, request, heldReasoning, quarantined>>
    BY <1>4 DEF convVars
  <2>2. ASSUME NEW state, Responses(state)
        PROVE  Responses(state)'
    BY <2>1, <2>2 DEF Responses, CallsHeld, EndsWith
  <2>3. ASSUME NEW state, Conversing(state)
        PROVE  Conversing(state)'
    BY <2>1, <2>3 DEF Conversing
  <2>4. CASE client = "responses"
    <3>1. PICK state : Responses(state)
      BY <2>4 DEF ConversationIs
    <3>2. Responses(state)'
      BY <2>2, <3>1
    <3>3. QED
      BY <2>1, <2>4, <3>2 DEF ConversationIs
  <2>5. CASE client = "messages"
    <3>1. PICK state : Conversing(state)
      BY <2>5 DEF ConversationIs
    <3>2. Conversing(state)'
      BY <2>3, <3>1
    <3>3. QED
      BY <2>1, <2>5, <3>2 DEF ConversationIs
  <2>6. QED
    BY <2>4, <2>5 DEF ConversationIs
<1>5. QED
  BY <1>1, <1>2, <1>3, <1>4 DEF ConvNext

-----------------------------------------------------------------------------
(* What a request sends.                                                   *)

\* The calls of what is sent are answered, or given up, or a text has come between.
LEMMA CallsAnswered ==
  ASSUME NEW who, NEW history, NEW open, NEW bad, IsHistory(history, open, bad),
         NEW chat \in Seq(ChatMessages), NEW new, Continues(new, chat),
         \A m \in DOMAIN new : new[m].calls # <<>> =>
            m \in DOMAIN chat /\ new[m].calls = chat[m].calls,
         NEW held, NEW ends, CallsFollow(who, chat, history, open, bad, held, ends),
         NEW m \in DOMAIN new, new[m].calls # <<>>
  PROVE  \/ ~ ToSet(new[m].calls) \subseteq AnsweredCalls(history)
         \/ who = "responses" /\ TextAfter(history, ToSet(new[m].calls))
         \/ TalkedOver(history, ToSet(new[m].calls))
         \/ ResultsFollow(new, m)
<1>1. m \in DOMAIN chat /\ new[m].calls = chat[m].calls /\ chat[m].calls # <<>>
  OBVIOUS
<1>2. \A c \in open : c \notin AnsweredCalls(history)
  BY DEF IsHistory, AnsweredCalls
<1>3. CASE Settled(who, chat, m, history, open)
  <2>1. CASE GivenUp(ToSet(chat[m].calls), history, open)
    BY <1>1, <2>1 DEF GivenUp
  <2>2. CASE who = "responses" /\ TextAfter(history, ToSet(chat[m].calls))
    BY <1>1, <2>2
  <2>3. CASE TalkedOver(history, ToSet(chat[m].calls))
    BY <1>1, <2>3
  <2>4. CASE ResultsFollow(chat, m)
    BY <1>1, <2>4, ResultsFollowLater
  <2>5. QED
    BY <1>3, <2>1, <2>2, <2>3, <2>4 DEF Settled
<1>4. CASE Waits(who, chat, m, history, open, bad, held, ends)
  <2>1. PICK c \in ToSet(chat[m].calls) : c \in open
    BY <1>4 DEF Waits
  <2>2. QED
    BY <1>1, <1>2, <2>1
<1>5. QED
  BY <1>1, <1>3, <1>4 DEF CallsFollow

\* What is sent tells the reasoning, and has nothing deferred.
SendsAll(chat, mode, history) ==
    /\ Tells(chat, history, MustBeTold(history))
    /\ mode # "disabled" => \A p \in DOMAIN history : history[p].kind = "thinking" =>
          \E m \in DOMAIN chat : p \in ToSet(chat[m].reasoning)

\* What is sent for a Responses client.
LEMMA ResponsesSend ==
  ASSUME NEW state, Responses(state), client = "responses"
  PROVE  /\ SendsAll(Chat, replay, pieces) /\ CallsAreAnsweredAtOnce
         /\ IsHistory(pieces, openCalls, quarantined)
<1>1. /\ Converts(replay, request, state) /\ state.chat \in Seq(ChatMessages)
      /\ heldReasoning \in HeldReasoning /\ IsHistory(pieces, openCalls, quarantined)
      /\ Tells(state.chat, pieces, MustBeTold(pieces))
      /\ Thought(replay, state.chat, pieces, heldReasoning)
      /\ CallsFollow(client, state.chat, pieces, openCalls, quarantined, heldReasoning,
                     EndsWith(IsCallMessage))
  BY ResponsesAre
<1>2. PICK next : /\ Converts(replay, Flushed(request, heldReasoning), next)
                  /\ Flushes(replay, next.chat, state.chat, heldReasoning)
  BY <1>1, FlushedConverts
<1>3. Conversion(replay, Flushed(request, heldReasoning)) = next /\ Undeferred(next)
  BY <1>2 DEF Converts
<1>4. Joined(replay, next) = next
  BY <1>3, UndeferredIs
<1>5. Chat = next.chat
  BY <1>3, <1>4 DEF Chat
<1>6. ToldBefore(next.chat, state, FALSE)
  <2>1. CASE heldReasoning = NoReasoning
    <3>1. next.chat = state.chat
      BY <1>1, <1>2, <2>1, FlushesIs
    <3>2. ToldBefore(state.chat, state, FALSE)
      BY <2>1, StateToldBefore
    <3>3. QED
      BY <3>1, <3>2
  <2>2. CASE heldReasoning # NoReasoning
    <3> DEFINE flushed == next.chat
               ends == FALSE
    <3>1. Flushes(replay, flushed, state.chat, heldReasoning) /\ ~ ends
      BY <1>2
    <3> HIDE DEF flushed, ends
    <3>2. ToldBefore(flushed, state, ends)
      BY <2>2, <3>1, FlushedToldBefore
    <3>3. QED
      BY <3>2 DEF flushed, ends
  <2>3. QED
    BY <2>1, <2>2
<1> DEFINE new == next.chat
<1>7. /\ Continues(new, state.chat)
      /\ Replayed(replay, new, heldReasoning.texts)
      /\ Tells(new, pieces, MustBeTold(pieces))
      /\ \A m \in DOMAIN new : new[m].calls # <<>> =>
            m \in DOMAIN state.chat /\ new[m].calls = state.chat[m].calls
  BY <1>6 DEF ToldBefore
<1> HIDE DEF new
<1>8. SendsAll(new, replay, pieces)
  <2>1. ASSUME replay # "disabled", NEW p \in DOMAIN pieces, pieces[p].kind = "thinking"
        PROVE  \E m \in DOMAIN new : p \in ToSet(new[m].reasoning)
    <3>1. CASE p \in ToSet(heldReasoning.texts)
      BY <1>7, <2>1, <3>1 DEF Replayed
    <3>2. CASE \E m \in DOMAIN state.chat : p \in ToSet(state.chat[m].reasoning)
      <4>1. PICK n, k \in Nat :
              /\ DOMAIN state.chat = 1 .. n /\ DOMAIN new = 1 .. n + k
              /\ \A m \in 1 .. n : ToSet(state.chat[m].reasoning) \subseteq ToSet(new[m].reasoning)
        BY <1>7 DEF Continues
      <4>2. \A m \in 1 .. n : m \in 1 .. n + k
        BY <4>1
      <4>3. QED
        BY <3>2, <4>1, <4>2
    <3>3. QED
      BY <1>1, <2>1, <3>1, <3>2 DEF Thought
  <2>2. QED
    BY <1>7, <2>1 DEF SendsAll
<1>9. ASSUME NEW m \in DOMAIN new, new[m].calls # <<>>
      PROVE  \/ ~ ToSet(new[m].calls) \subseteq AnsweredCalls(pieces)
             \/ client = "responses" /\ TextAfter(pieces, ToSet(new[m].calls))
             \/ TalkedOver(pieces, ToSet(new[m].calls))
             \/ ResultsFollow(new, m)
  BY <1>1, <1>7, <1>9, CallsAnswered
<1>10. Chat = new
  BY <1>5 DEF new
<1>11. CallsAreAnsweredAtOnce
  BY <1>9, <1>10 DEF CallsAreAnsweredAtOnce
<1>12. QED
  BY <1>1, <1>8, <1>10, <1>11

\* What is sent for an Anthropic client.
LEMMA MessagesSend ==
  ASSUME NEW state, Conversing(state), client = "messages"
  PROVE  /\ SendsAll(Chat, replay, pieces) /\ CallsAreAnsweredAtOnce
         /\ IsHistory(pieces, openCalls, quarantined)
<1>1. /\ Conversion(replay, request) = state /\ heldReasoning = NoReasoning
      /\ quarantined = {} /\ Telling(replay, pieces, openCalls, state)
      /\ CallsFollow("messages", state.chat, pieces, openCalls, {}, NoReasoning, TRUE)
  BY DEF Conversing, Dialogue
<1> DEFINE joined == Joined(replay, state)
           new == joined.chat
<1>2. Flushed(request, heldReasoning) = request
  BY <1>1 DEF Flushed
<1>3. Chat = new
  BY <1>1, <1>2 DEF Chat
<1>4. state.chat \in Seq(ChatMessages) /\ IsHistory(pieces, openCalls, {})
  BY <1>1, OpenIsFinite
<1>5. TellsDeferred(replay, pieces, openCalls, state, joined)
  BY <1>1, DeferredTold
<1> HIDE DEF joined
<1>6. /\ Telling(replay, pieces, openCalls, joined) /\ joined.pending.blocks = <<>>
      /\ Continues(new, state.chat)
      /\ \A m \in DOMAIN new : new[m].calls # <<>> =>
            m \in DOMAIN state.chat /\ new[m].calls = state.chat[m].calls
  BY <1>5 DEF TellsDeferred
<1>7. /\ Tells(new, pieces, MustBeTold(pieces))
      /\ Thought(replay, new, pieces, Unsaid(<<>>))
  BY <1>6, AllTold
<1>8. SendsAll(new, replay, pieces)
  <2>1. ToSet(Unsaid(<<>>).texts) = {}
    BY NothingUnsaid
  <2>2. QED
    BY <1>7, <2>1 DEF SendsAll, Thought
<1> HIDE DEF new
<1>9. ASSUME NEW m \in DOMAIN new, new[m].calls # <<>>
      PROVE  \/ ~ ToSet(new[m].calls) \subseteq AnsweredCalls(pieces)
             \/ "messages" = "responses" /\ TextAfter(pieces, ToSet(new[m].calls))
             \/ TalkedOver(pieces, ToSet(new[m].calls))
             \/ ResultsFollow(new, m)
  BY <1>1, <1>4, <1>6, <1>9, CallsAnswered
<1>10. CallsAreAnsweredAtOnce
  BY <1>3, <1>9 DEF CallsAreAnsweredAtOnce
<1>11. QED
  BY <1>1, <1>3, <1>4, <1>8, <1>10

\* The invariant implies the property.
LEMMA ConversationTold ==
  ASSUME ConversationIs
  PROVE  ChatIsTheConversation
<1>1. /\ SendsAll(Chat, replay, pieces) /\ CallsAreAnsweredAtOnce
      /\ IsHistory(pieces, openCalls, quarantined)
  <2>1. CASE client = "responses"
    <3>1. PICK state : Responses(state)
      BY <2>1 DEF ConversationIs
    <3>2. QED
      BY <2>1, <3>1, ResponsesSend
  <2>2. CASE client = "messages"
    <3>1. PICK state : Conversing(state)
      BY <2>2 DEF ConversationIs
    <3>2. QED
      BY <2>2, <3>1, MessagesSend
  <2>3. QED
    BY <2>1, <2>2 DEF ConversationIs
<1>2. \A p \in DOMAIN pieces : pieces[p].kind = "thinking" => pieces[p].id = p
  BY <1>1 DEF IsHistory
<1>3. ChatTellsHistory
  BY <1>1, <1>2 DEF SendsAll, ChatTellsHistory
<1>4. QED
  BY <1>1, <1>3 DEF ChatIsTheConversation

\* A chat provider is told the whole conversation, in an order it accepts.
THEOREM ChatIsTheConversationCorrect ==
  ConvSpec => []ChatIsTheConversation
<1>1. ConvInit => ConversationIs
  BY ConversationInit
<1>2. ConversationIs /\ [ConvNext]_convVars => ConversationIs'
  BY ConversationGoesOn, ConversionAssumption
<1>3. ConversationIs => ChatIsTheConversation
  BY ConversationTold
<1>4. QED
  BY <1>1, <1>2, <1>3, PTL DEF ConvSpec
=============================================================================
