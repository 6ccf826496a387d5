--------------------------- MODULE Streams_proofs ---------------------------
(***************************************************************************)
(* Proofs about what a client is sent: ChatStream, for any number of       *)
(* calls, chunks and retries; MahbubBridge, for any number of events of    *)
(* the two streams it joins; and NativeStream, for any number of blocks,   *)
(* events and retries.                                                     *)
(*                                                                         *)
(* They rest on lemmas about what the ledger's operators do to the events  *)
(* sent so far and to the blocks that the ledger records, for any number   *)
(* of calls and blocks.  An event is legal by its place in the whole       *)
(* sequence, so that no part of it has to be cut out.                      *)
(***************************************************************************)
EXTENDS ChatStream, MahbubBridge, NativeStream, PrefixInduction,
        FunctionTheorems, FiniteSetTheorems, SequenceTheorems, TLAPS

-----------------------------------------------------------------------------
(***************************************************************************)
(* Events and their order.                                                 *)
(***************************************************************************)
Event ==
    [kind : {"start", "error", "usage", "end"}, block : {0}, type : {"message"}]
      \cup [kind : {"open", "delta", "stop"}, block : Nat \ {0}, type : BlockTypes]

Block == [type : BlockTypes, args : Args, deltas : Nat]

Is(s, k, kind, b) == s[k].kind = kind /\ s[k].block = b

\* What assert_anthropic_stream_contract asks of the event at place k.
LegalAt(s, k) ==
    LET e      == s[k]
        before == 1 .. k - 1
    IN  /\ e.kind = "start" <=> k = 1
        /\ \A j \in before : s[j].kind # "end"
        /\ e.kind = "open" => \A j \in before : ~ Is(s, j, "open", e.block)
        /\ e.kind = "delta" =>
             \E j \in before : Is(s, j, "open", e.block) /\ s[j].type = e.type
        /\ e.kind \in {"delta", "stop"} =>
             /\ \E j \in before : Is(s, j, "open", e.block)
             /\ \A j \in before : ~ Is(s, j, "stop", e.block)
        /\ e.kind = "end" =>
             /\ \E j \in before : s[j].kind = "open"
             /\ \A j \in before : s[j].kind = "open" =>
                  \E i \in before : Is(s, i, "stop", s[j].block)

WellFormed(s) == s \in Seq(Event) /\ \A k \in 1 .. Len(s) : LegalAt(s, k)

Deltas(s, b) == Cardinality({k \in 1 .. Len(s) : Is(s, k, "delta", b)})

\* The blocks have been announced by s, which is not at its end, and those of open have
\* not been closed.
Records(s, blocks, open) ==
    /\ WellFormed(s)
    /\ blocks \in Seq(Block)
    /\ open \subseteq 1 .. Len(blocks)
    /\ \A k \in 1 .. Len(s) :
         /\ s[k].kind # "end"
         /\ s[k].kind = "open" =>
              s[k].block \in 1 .. Len(blocks) /\ s[k].type = blocks[s[k].block].type
    /\ \A b \in 1 .. Len(blocks) :
         /\ \E k \in 1 .. Len(s) : Is(s, k, "open", b)
         /\ b \in open <=> \A k \in 1 .. Len(s) : ~ Is(s, k, "stop", b)

\* Every delta that is recorded, of the blocks in N, has been sent.
Tally(N, s, blocks) ==
    \A b \in 1 .. Len(blocks) : b \in N => Deltas(s, b) = blocks[b].deltas

LEMMA LegalByPrefix ==
    ASSUME NEW s \in Seq(Event), NEW t \in Seq(Event), NEW k \in 1 .. Len(s),
           Len(s) <= Len(t), \A i \in 1 .. Len(s) : s[i] = t[i]
    PROVE  LegalAt(s, k) <=> LegalAt(t, k)
<1>1. \A i \in 1 .. k : i \in 1 .. Len(s) /\ s[i] = t[i]
  OBVIOUS
<1>2. s[k] = t[k] /\ \A i \in 1 .. k - 1 : s[i] = t[i]
  BY <1>1
<1> DEFINE e      == s[k]
           before == 1 .. k - 1
<1>3. \A kind, b : \A j \in before : Is(s, j, kind, b) <=> Is(t, j, kind, b)
  BY <1>2 DEF Is
<1>4. (\A j \in before : s[j].kind # "end") <=> (\A j \in before : t[j].kind # "end")
  BY <1>2
<1>5. (\E j \in before : s[j].kind = "open") <=> (\E j \in before : t[j].kind = "open")
  BY <1>2
<1>6. (\E j \in before : Is(s, j, "open", e.block) /\ s[j].type = e.type)
        <=> (\E j \in before : Is(t, j, "open", e.block) /\ t[j].type = e.type)
  BY <1>2, <1>3
<1>7. (\A j \in before : s[j].kind = "open" => \E i \in before : Is(s, i, "stop", s[j].block))
        <=> (\A j \in before : t[j].kind = "open" => \E i \in before : Is(t, i, "stop", t[j].block))
  BY <1>2, <1>3
<1>8. e = t[k]
  BY <1>2
<1> QED BY <1>3, <1>4, <1>5, <1>6, <1>7, <1>8 DEF LegalAt

LEMMA WellFormedPrefix ==
    ASSUME NEW s \in Seq(Event), NEW t \in Seq(Event), WellFormed(t),
           Len(s) <= Len(t), \A i \in 1 .. Len(s) : s[i] = t[i]
    PROVE  WellFormed(s)
<1>1. \A k \in 1 .. Len(s) : k \in 1 .. Len(t)
  OBVIOUS
<1> QED BY <1>1, LegalByPrefix DEF WellFormed

LEMMA WellFormedAppend ==
    ASSUME NEW s, NEW e \in Event, WellFormed(s), LegalAt(Append(s, e), Len(s) + 1)
    PROVE  WellFormed(Append(s, e))
<1> DEFINE t == Append(s, e)
<1>1. /\ s \in Seq(Event) /\ t \in Seq(Event) /\ Len(t) = Len(s) + 1 /\ Len(s) \in Nat
      /\ \A i \in 1 .. Len(s) : s[i] = t[i]
  BY AppendProperties, LenProperties DEF WellFormed
<1>2. ASSUME NEW k \in 1 .. Len(t) PROVE LegalAt(t, k)
  <2>1. CASE k \in 1 .. Len(s)
    <3>1. LegalAt(s, k)
      BY <2>1 DEF WellFormed
    <3> HIDE DEF t
    <3> QED BY <1>1, <2>1, <3>1, LegalByPrefix
  <2>2. CASE k = Len(s) + 1
    BY <2>2
  <2> QED BY <1>1, <2>1, <2>2
<1> QED BY <1>1, <1>2 DEF WellFormed

LEMMA DeltasAppend ==
    ASSUME NEW s \in Seq(Event), NEW e \in Event, NEW b
    PROVE  /\ Deltas(s, b) \in Nat
           /\ Deltas(Append(s, e), b) =
                IF e.kind = "delta" /\ e.block = b THEN Deltas(s, b) + 1 ELSE Deltas(s, b)
<1> DEFINE t == Append(s, e)
           D == {k \in 1 .. Len(s) : Is(s, k, "delta", b)}
           E == {k \in 1 .. Len(t) : Is(t, k, "delta", b)}
<1>1. /\ Len(t) = Len(s) + 1 /\ Len(s) \in Nat /\ t[Len(s) + 1] = e
      /\ \A i \in 1 .. Len(s) : s[i] = t[i]
  BY AppendProperties, LenProperties
<1>2. IsFiniteSet(D) /\ Cardinality(D) \in Nat
  <2>1. IsFiniteSet(1 .. Len(s)) /\ D \in SUBSET (1 .. Len(s))
    BY <1>1, FS_Interval
  <2> HIDE DEF D
  <2> QED BY <2>1, FS_Subset, FS_CardinalityType
<1>3. \A k : k \in 1 .. Len(s) => (k \in E <=> k \in D)
  <2> HIDE DEF t
  <2> QED BY <1>1 DEF Is
<1>4. E \subseteq 1 .. Len(s) + 1 /\ D \subseteq 1 .. Len(s) /\ Len(s) + 1 \notin D
  <2> HIDE DEF t
  <2> QED BY <1>1
<1>5. Len(s) + 1 \in E <=> e.kind = "delta" /\ e.block = b
  <2> HIDE DEF t
  <2> QED BY <1>1 DEF Is
<1>6. \A k \in 1 .. Len(s) + 1 : k \in 1 .. Len(s) \/ k = Len(s) + 1
  BY <1>1
<1>7. E = IF e.kind = "delta" /\ e.block = b THEN D \cup {Len(s) + 1} ELSE D
  <2> HIDE DEF D, E, t
  <2> DEFINE p == Len(s) + 1
  <2>1. \A k \in E : k \in D \/ (k = p /\ e.kind = "delta" /\ e.block = b)
    BY <1>3, <1>4, <1>5, <1>6, Zenon
  <2>2. \A k \in D : k \in E
    BY <1>3, <1>4, Zenon
  <2>3. e.kind = "delta" /\ e.block = b => p \in E
    BY <1>5, Zenon
  <2>4. CASE e.kind = "delta" /\ e.block = b
    <3>1. /\ \A k \in E : k \in D \cup {p}
          /\ \A k \in D \cup {p} : k \in E
      BY <2>1, <2>2, <2>3, <2>4, Zenon
    <3> QED BY <2>4, <3>1, Zenon
  <2>5. CASE ~ (e.kind = "delta" /\ e.block = b)
    BY <2>1, <2>2, <2>5
  <2> QED BY <2>4, <2>5
<1>8. Cardinality(E) = IF e.kind = "delta" /\ e.block = b THEN Cardinality(D) + 1 ELSE Cardinality(D)
  <2> HIDE DEF D, E, t
  <2> QED BY <1>2, <1>4, <1>7, FS_AddElement
<1> QED BY <1>2, <1>8 DEF Deltas

-----------------------------------------------------------------------------
(***************************************************************************)
(* One more event.                                                         *)
(***************************************************************************)
LEMMA AppendFacts ==
    ASSUME NEW s \in Seq(Event), NEW e \in Event
    PROVE  /\ Append(s, e) \in Seq(Event) /\ Len(s) \in Nat
           /\ Len(Append(s, e)) = Len(s) + 1 /\ Append(s, e)[Len(s) + 1] = e
           /\ \A k \in 1 .. Len(s) : Append(s, e)[k] = s[k] /\ k \in 1 .. Len(s) + 1
           /\ Len(s) + 1 \in 1 .. Len(s) + 1 /\ (Len(s) + 1) - 1 = Len(s)
           /\ \A k \in 1 .. Len(s) + 1 : k \in 1 .. Len(s) \/ k = Len(s) + 1
           /\ Len(s) + 1 = 1 <=> s = <<>>
<1>1. Len(s) \in Nat /\ (Len(s) = 0 <=> s = <<>>)
  BY EmptySeq, LenProperties
<1>2. /\ (Len(s) + 1) - 1 = Len(s) /\ Len(s) + 1 \in 1 .. Len(s) + 1
      /\ Len(s) + 1 = 1 <=> s = <<>>
      /\ \A k \in 1 .. Len(s) + 1 : k \in 1 .. Len(s) \/ k = Len(s) + 1
      /\ \A k \in 1 .. Len(s) : k \in 1 .. Len(s) + 1
  BY <1>1
<1> QED BY <1>1, <1>2, AppendProperties

LEMMA RecordsOpen ==
    ASSUME NEW s, NEW blocks, NEW open, Records(s, blocks, open), s # <<>>,
           NEW x \in Block, NEW e,
           e = [kind |-> "open", block |-> Len(blocks) + 1, type |-> x.type]
    PROVE  Records(Append(s, e), Append(blocks, x), open \cup {Len(blocks) + 1})
<1> DEFINE t == Append(s, e)
           n == Len(blocks) + 1
           more == Append(blocks, x)
<1>1. s \in Seq(Event) /\ blocks \in Seq(Block) /\ WellFormed(s)
  BY DEF Records, WellFormed
<1>2. /\ n \in Nat \ {0} /\ more \in Seq(Block) /\ Len(more) = n /\ more[n] = x
      /\ \A b \in 1 .. n - 1 : more[b] = blocks[b]
      /\ n - 1 = Len(blocks) /\ n \notin 1 .. Len(blocks) /\ n \in 1 .. n
      /\ \A b \in 1 .. n : b \in 1 .. Len(blocks) \/ b = n
      /\ \A b \in 1 .. Len(blocks) : b \in 1 .. n
  <2>1. Len(blocks) \in Nat
    BY <1>1, LenProperties
  <2> QED BY <1>1, <2>1, AppendProperties
<1>3. e \in Event /\ e.kind = "open" /\ e.block = n /\ e.type = x.type
  BY <1>2 DEF Event, Block
<1>4. \A k \in 1 .. Len(s) :
         /\ s[k] \in Event /\ s[k].kind # "end"
         /\ s[k].kind = "open" => s[k].block # n
         /\ s[k].kind = "stop" => s[k].block # n
  <2> SUFFICES ASSUME NEW k \in 1 .. Len(s)
               PROVE  /\ s[k] \in Event /\ s[k].kind # "end"
                      /\ s[k].kind = "open" => s[k].block # n
                      /\ s[k].kind = "stop" => s[k].block # n
      OBVIOUS
  <2>1. s[k] \in Event /\ s[k].kind # "end" /\ (s[k].kind = "open" => s[k].block # n)
    BY <1>1, <1>2, ElementOfSeq DEF Records
  <2>2. CASE s[k].kind = "stop"
    <3>1. PICK j \in 1 .. k - 1 : Is(s, j, "open", s[k].block)
      BY <1>1, <2>2 DEF WellFormed, LegalAt
    <3>2. j \in 1 .. Len(s)
      BY <1>1, LenProperties
    <3>3. s[j].block # n
      BY <1>2, <3>1, <3>2 DEF Records, Is
    <3> QED BY <2>1, <3>1, <3>3 DEF Is
  <2> QED BY <2>1, <2>2
<1> HIDE DEF n, more
<1>5. /\ t \in Seq(Event) /\ Len(s) \in Nat
      /\ Len(t) = Len(s) + 1 /\ t[Len(s) + 1] = e
      /\ \A k \in 1 .. Len(s) : t[k] = s[k] /\ k \in 1 .. Len(s) + 1
      /\ Len(s) + 1 \in 1 .. Len(s) + 1 /\ (Len(s) + 1) - 1 = Len(s)
      /\ \A k \in 1 .. Len(s) + 1 : k \in 1 .. Len(s) \/ k = Len(s) + 1
      /\ Len(s) + 1 # 1
  BY <1>1, <1>3, AppendFacts
<1> HIDE DEF t
<1>6. WellFormed(t)
  <2>1. LegalAt(t, Len(s) + 1)
    BY <1>3, <1>4, <1>5 DEF LegalAt, Is
  <2> QED BY <1>1, <1>3, <2>1, WellFormedAppend DEF t
<1>7. \A k \in 1 .. Len(t) :
         /\ t[k].kind # "end"
         /\ t[k].kind = "open" => t[k].block \in 1 .. n /\ t[k].type = more[t[k].block].type
  <2> SUFFICES ASSUME NEW k \in 1 .. Len(t)
               PROVE  /\ t[k].kind # "end"
                      /\ t[k].kind = "open" =>
                           t[k].block \in 1 .. n /\ t[k].type = more[t[k].block].type
      OBVIOUS
  <2>1. CASE k \in 1 .. Len(s)
    BY <1>2, <1>5, <2>1 DEF Records
  <2>2. CASE k = Len(s) + 1
    BY <1>2, <1>3, <1>5, <2>2
  <2> QED BY <1>5, <2>1, <2>2
<1>8. \A b \in 1 .. n :
         /\ \E k \in 1 .. Len(t) : Is(t, k, "open", b)
         /\ b \in open \cup {n} <=> \A k \in 1 .. Len(t) : ~ Is(t, k, "stop", b)
  <2> SUFFICES ASSUME NEW b \in 1 .. n
               PROVE  /\ \E k \in 1 .. Len(t) : Is(t, k, "open", b)
                      /\ b \in open \cup {n} <=> \A k \in 1 .. Len(t) : ~ Is(t, k, "stop", b)
      OBVIOUS
  <2>1. CASE b \in 1 .. Len(blocks)
    <3>1. b # n /\ (\E k \in 1 .. Len(s) : Is(s, k, "open", b))
          /\ (b \in open <=> \A k \in 1 .. Len(s) : ~ Is(s, k, "stop", b))
      BY <1>2, <2>1 DEF Records
    <3> QED BY <1>3, <1>5, <3>1 DEF Is
  <2>2. CASE b = n
    BY <1>3, <1>4, <1>5, <2>2 DEF Is
  <2> QED BY <1>2, <2>1, <2>2
<1>9. open \cup {n} \subseteq 1 .. n
  BY <1>2 DEF Records
<1> QED BY <1>2, <1>6, <1>7, <1>8, <1>9 DEF Records, t, n, more

\* The blocks may change, except for their number and types.
SameBlocks(blocks, more) ==
    /\ more \in Seq(Block) /\ Len(more) = Len(blocks)
    /\ \A b \in 1 .. Len(blocks) : more[b].type = blocks[b].type

LEMMA RecordsSame ==
    ASSUME NEW s, NEW blocks, NEW more, NEW open,
           Records(s, blocks, open), SameBlocks(blocks, more)
    PROVE  Records(s, more, open)
BY DEF Records, SameBlocks

\* A delta of an open block, or an event of the message that is not its first or last.
LEMMA RecordsOther ==
    ASSUME NEW s, NEW blocks, NEW open, Records(s, blocks, open), NEW e \in Event,
           \/ e.kind = "delta" /\ e.block \in open /\ e.type = blocks[e.block].type
           \/ e.kind \in {"usage", "error"} /\ s # <<>>
    PROVE  Records(Append(s, e), blocks, open)
<1> DEFINE t == Append(s, e)
<1>1. s \in Seq(Event) /\ blocks \in Seq(Block) /\ WellFormed(s) /\ Len(blocks) \in Nat
  BY LenProperties DEF Records, WellFormed
<1>2. /\ t \in Seq(Event) /\ Len(s) \in Nat
      /\ Len(t) = Len(s) + 1 /\ t[Len(s) + 1] = e
      /\ \A k \in 1 .. Len(s) : t[k] = s[k] /\ k \in 1 .. Len(s) + 1
      /\ Len(s) + 1 \in 1 .. Len(s) + 1 /\ (Len(s) + 1) - 1 = Len(s)
      /\ \A k \in 1 .. Len(s) + 1 : k \in 1 .. Len(s) \/ k = Len(s) + 1
      /\ Len(s) + 1 = 1 <=> s = <<>>
  BY <1>1, <1>1, AppendFacts
<1> HIDE DEF t
<1>3. s # <<>>
  <2>1. CASE e.kind = "delta"
    <3>1. e.block \in 1 .. Len(blocks)
      BY <2>1 DEF Records
    <3>2. PICK k \in 1 .. Len(s) : Is(s, k, "open", e.block)
      BY <3>1 DEF Records
    <3> QED BY <3>2, EmptySeq
  <2> QED BY <2>1
<1>4. LegalAt(t, Len(s) + 1)
  <2>1. CASE e.kind = "delta"
    <3>1. e.block \in open /\ e.block \in 1 .. Len(blocks) /\ e.type = blocks[e.block].type
      BY <2>1 DEF Records
    <3>2. PICK j \in 1 .. Len(s) : Is(s, j, "open", e.block)
      BY <3>1 DEF Records
    <3>3. s[j].type = e.type /\ \A k \in 1 .. Len(s) : ~ Is(s, k, "stop", e.block)
      BY <3>1, <3>2 DEF Records, Is
    <3>4. \A k \in 1 .. Len(s) : s[k].kind # "end"
      BY DEF Records
    <3> QED BY <1>2, <1>3, <2>1, <3>2, <3>3, <3>4 DEF LegalAt, Is
  <2>2. CASE e.kind \in {"usage", "error"}
    <3>1. \A k \in 1 .. Len(s) : s[k].kind # "end"
      BY DEF Records
    <3> QED BY <1>2, <1>3, <2>2, <3>1 DEF LegalAt
  <2> QED BY <2>1, <2>2
<1>5. WellFormed(t)
  BY <1>1, <1>4, WellFormedAppend DEF t
<1>6. e.kind # "open" /\ e.kind # "stop" /\ e.kind # "end"
  OBVIOUS
<1>7. \A k \in 1 .. Len(t) :
         /\ t[k].kind # "end"
         /\ t[k].kind = "open" =>
              t[k].block \in 1 .. Len(blocks) /\ t[k].type = blocks[t[k].block].type
  BY <1>2, <1>6 DEF Records
<1>8. \A b \in 1 .. Len(blocks) :
         /\ \E k \in 1 .. Len(t) : Is(t, k, "open", b)
         /\ b \in open <=> \A k \in 1 .. Len(t) : ~ Is(t, k, "stop", b)
  <2> SUFFICES ASSUME NEW b \in 1 .. Len(blocks)
               PROVE  /\ \E k \in 1 .. Len(t) : Is(t, k, "open", b)
                      /\ b \in open <=> \A k \in 1 .. Len(t) : ~ Is(t, k, "stop", b)
      OBVIOUS
  <2>1. /\ \E k \in 1 .. Len(s) : Is(s, k, "open", b)
        /\ b \in open <=> \A k \in 1 .. Len(s) : ~ Is(s, k, "stop", b)
    BY DEF Records
  <2> QED BY <1>2, <1>6, <2>1 DEF Is
<1> QED BY <1>1, <1>5, <1>7, <1>8 DEF Records, t

LEMMA RecordsStop ==
    ASSUME NEW s, NEW blocks, NEW open, Records(s, blocks, open), NEW e \in Event,
           e.kind = "stop", e.block \in open
    PROVE  Records(Append(s, e), blocks, open \ {e.block})
<1> DEFINE t == Append(s, e)
<1>1. s \in Seq(Event) /\ blocks \in Seq(Block) /\ WellFormed(s) /\ Len(blocks) \in Nat
  BY LenProperties DEF Records, WellFormed
<1>2. /\ t \in Seq(Event) /\ Len(s) \in Nat
      /\ Len(t) = Len(s) + 1 /\ t[Len(s) + 1] = e
      /\ \A k \in 1 .. Len(s) : t[k] = s[k] /\ k \in 1 .. Len(s) + 1
      /\ Len(s) + 1 \in 1 .. Len(s) + 1 /\ (Len(s) + 1) - 1 = Len(s)
      /\ \A k \in 1 .. Len(s) + 1 : k \in 1 .. Len(s) \/ k = Len(s) + 1
      /\ Len(s) + 1 = 1 <=> s = <<>>
  BY <1>1, <1>1, AppendFacts
<1> HIDE DEF t
<1>3. e.block \in 1 .. Len(blocks)
  BY DEF Records
<1>4. PICK j \in 1 .. Len(s) : Is(s, j, "open", e.block)
  BY <1>3 DEF Records
<1>5. /\ s # <<>> /\ \A k \in 1 .. Len(s) : s[k].kind # "end" /\ ~ Is(s, k, "stop", e.block)
  BY <1>3, <1>4, EmptySeq DEF Records
<1>6. LegalAt(t, Len(s) + 1)
  BY <1>2, <1>4, <1>5 DEF LegalAt, Is
<1>7. WellFormed(t)
  BY <1>1, <1>6, WellFormedAppend DEF t
<1>8. \A k \in 1 .. Len(t) :
         /\ t[k].kind # "end"
         /\ t[k].kind = "open" =>
              t[k].block \in 1 .. Len(blocks) /\ t[k].type = blocks[t[k].block].type
  BY <1>2 DEF Records
<1>9. \A b \in 1 .. Len(blocks) :
         /\ \E k \in 1 .. Len(t) : Is(t, k, "open", b)
         /\ b \in open \ {e.block} <=> \A k \in 1 .. Len(t) : ~ Is(t, k, "stop", b)
  <2> SUFFICES ASSUME NEW b \in 1 .. Len(blocks)
               PROVE  /\ \E k \in 1 .. Len(t) : Is(t, k, "open", b)
                      /\ b \in open \ {e.block} <=> \A k \in 1 .. Len(t) : ~ Is(t, k, "stop", b)
      OBVIOUS
  <2>1. /\ \E k \in 1 .. Len(s) : Is(s, k, "open", b)
        /\ b \in open <=> \A k \in 1 .. Len(s) : ~ Is(s, k, "stop", b)
    BY DEF Records
  <2> QED BY <1>2, <2>1 DEF Is
<1>10. open \ {e.block} \subseteq 1 .. Len(blocks)
  BY DEF Records
<1> QED BY <1>1, <1>7, <1>8, <1>9, <1>10 DEF Records, t

\* The message ends when there is a block, and none is open.
LEMMA RecordsEnd ==
    ASSUME NEW s, NEW blocks, Records(s, blocks, {}), blocks # <<>>, NEW e \in Event,
           e.kind = "end"
    PROVE  WellFormed(Append(s, e))
<1> DEFINE open == {}
<1> DEFINE t == Append(s, e)
<1>1. s \in Seq(Event) /\ blocks \in Seq(Block) /\ WellFormed(s) /\ Len(blocks) \in Nat
  BY LenProperties DEF Records, WellFormed
<1>2. /\ t \in Seq(Event) /\ Len(s) \in Nat
      /\ Len(t) = Len(s) + 1 /\ t[Len(s) + 1] = e
      /\ \A k \in 1 .. Len(s) : t[k] = s[k] /\ k \in 1 .. Len(s) + 1
      /\ Len(s) + 1 \in 1 .. Len(s) + 1 /\ (Len(s) + 1) - 1 = Len(s)
      /\ \A k \in 1 .. Len(s) + 1 : k \in 1 .. Len(s) \/ k = Len(s) + 1
      /\ Len(s) + 1 = 1 <=> s = <<>>
  BY <1>1, <1>1, AppendFacts
<1> HIDE DEF t
<1>3. 1 \in 1 .. Len(blocks)
  BY <1>1, EmptySeq
<1>4. PICK j \in 1 .. Len(s) : Is(s, j, "open", 1)
  BY <1>3 DEF Records
<1>5. s # <<>> /\ \A k \in 1 .. Len(s) : s[k].kind # "end"
  BY <1>4, EmptySeq DEF Records
<1>6. ASSUME NEW k \in 1 .. Len(s), s[k].kind = "open"
      PROVE  \E i \in 1 .. Len(s) : Is(s, i, "stop", s[k].block)
  BY <1>6 DEF Records
<1>7. LegalAt(t, Len(s) + 1)
  BY <1>2, <1>4, <1>5, <1>6 DEF LegalAt, Is
<1> QED BY <1>1, <1>7, WellFormedAppend DEF t

LEMMA RecordsStart ==
    ASSUME NEW e \in Event, e.kind = "start"
    PROVE  Records(Append(<<>>, e), <<>>, {})
<1> DEFINE s == <<>>
           t == Append(s, e)
<1>1. s \in Seq(Event) /\ Len(s) = 0 /\ WellFormed(s)
  BY EmptySeq DEF WellFormed
<1>2. t \in Seq(Event) /\ Len(t) = 1 /\ t[1] = e
  BY <1>1, AppendFacts
<1>3. <<>> \in Seq(Block) /\ Len(<<>>) = 0
  BY EmptySeq
<1> HIDE DEF t, s
<1>4. LegalAt(t, 1)
  BY <1>2 DEF LegalAt
<1>5. WellFormed(t)
  BY <1>2, <1>4 DEF WellFormed
<1> QED BY <1>2, <1>3, <1>5 DEF Records, t, s

-----------------------------------------------------------------------------
(***************************************************************************)
(* An event for each of several blocks.                                    *)
(***************************************************************************)
OneEach(q, kind, S) ==
    /\ q \in Seq(Event) /\ Len(q) \in Nat
    /\ \A i \in 1 .. Len(q) : q[i].kind = kind /\ q[i].block \in S
    /\ \A i, j \in 1 .. Len(q) : q[i].block = q[j].block => i = j
    /\ \A b \in S : \E i \in 1 .. Len(q) : q[i].block = b

LEMMA ForEachFacts ==
    ASSUME NEW S \in SUBSET (Nat \ {0}), IsFiniteSet(S), NEW kind \in {"delta", "stop"}
    PROVE  /\ OneEach(ForEach(kind, S), kind, S)
           /\ \A i \in 1 .. Len(ForEach(kind, S)) : ForEach(kind, S)[i].type = "tool"
<1> DEFINE o == InOrder(S)
           q == ForEach(kind, S)
           n == Cardinality(S)
<1>1. /\ DOMAIN o = 1 .. n /\ n \in Nat
      /\ \A i \in 1 .. n : o[i] \in S
      /\ \A i, j \in 1 .. n : o[i] = o[j] => i = j
      /\ \A b \in S : \E i \in 1 .. n : o[i] = b
  <2>1. S \in SUBSET Nat
    OBVIOUS
  <2> HIDE DEF o
  <2> QED BY <2>1, InOrderLists DEF o
<1>2. q = [i \in 1 .. n |-> [kind |-> kind, block |-> o[i], type |-> "tool"]]
  BY <1>1 DEF ForEach
<1> HIDE DEF o, n, q
<1>3. \A i \in 1 .. n : [kind |-> kind, block |-> o[i], type |-> "tool"] \in Event
  BY <1>1 DEF Event, BlockTypes
<1>4. q \in Seq(Event)
  BY <1>1, <1>2, <1>3, IsASeq
<1>5. Len(q) = n
  BY <1>1, <1>2, <1>4, LenProperties
<1> QED BY <1>1, <1>2, <1>4, <1>5 DEF q, OneEach

LEMMA ConcatFacts ==
    ASSUME NEW s \in Seq(Event), NEW q \in Seq(Event)
    PROVE  /\ s \o q \in Seq(Event) /\ Len(s) \in Nat /\ Len(q) \in Nat
           /\ Len(s \o q) = Len(s) + Len(q)
           /\ \A k \in 1 .. Len(s) : (s \o q)[k] = s[k] /\ k \in 1 .. Len(s \o q)
           /\ \A i \in 1 .. Len(q) : /\ (s \o q)[Len(s) + i] = q[i]
                                     /\ Len(s) + i \in 1 .. Len(s \o q)
           /\ \A k \in 1 .. Len(s \o q) :
                k \in 1 .. Len(s) \/ \E i \in 1 .. Len(q) : k = Len(s) + i
<1>1. Len(s) \in Nat /\ Len(q) \in Nat
  BY LenProperties
<1>2. \A k \in 1 .. Len(s) + Len(q) : k \in 1 .. Len(s) \/ k - Len(s) \in 1 .. Len(q)
  BY <1>1
<1>3. \A k \in 1 .. Len(s) + Len(q) : k = Len(s) + (k - Len(s))
  BY <1>1
<1>4. \A k \in 1 .. Len(s) + Len(q) :
        k \in 1 .. Len(s) \/ \E i \in 1 .. Len(q) : k = Len(s) + i
  BY <1>2, <1>3
<1>5. /\ s \o q \in Seq(Event) /\ Len(s \o q) = Len(s) + Len(q)
      /\ \A i \in 1 .. Len(s) + Len(q) :
           (s \o q)[i] = IF i <= Len(s) THEN s[i] ELSE q[i - Len(s)]
  BY ConcatProperties
<1> HIDE DEF Event
<1>6. \A k \in 1 .. Len(s) : k <= Len(s) /\ k \in 1 .. Len(s) + Len(q)
  BY <1>1
<1>7. \A i \in 1 .. Len(q) : /\ Len(s) + i \in 1 .. Len(s) + Len(q)
                             /\ ~ (Len(s) + i <= Len(s)) /\ (Len(s) + i) - Len(s) = i
  BY <1>1
<1> QED BY <1>1, <1>4, <1>5, <1>6, <1>7

LEMMA RecordsEach ==
    ASSUME NEW s, NEW blocks, NEW open, Records(s, blocks, open), NEW S \in SUBSET open,
           NEW kind \in {"delta", "stop"}, NEW q, OneEach(q, kind, S),
           \A i \in 1 .. Len(q) : q[i].type = blocks[q[i].block].type
    PROVE  Records(s \o q, blocks, IF kind = "stop" THEN open \ S ELSE open)
<1> DEFINE t == s \o q
           L == Len(s)
<1>1. s \in Seq(Event) /\ blocks \in Seq(Block) /\ WellFormed(s) /\ Len(blocks) \in Nat
  BY LenProperties DEF Records, WellFormed
<1>2. /\ q \in Seq(Event) /\ Len(q) \in Nat
      /\ \A i \in 1 .. Len(q) : /\ q[i].kind = kind /\ q[i].block \in S
                                /\ q[i].type = blocks[q[i].block].type
      /\ \A i, j \in 1 .. Len(q) : q[i].block = q[j].block => i = j
      /\ \A b \in S : \E i \in 1 .. Len(q) : q[i].block = b
  BY DEF OneEach
<1>3. /\ t \in Seq(Event) /\ L \in Nat /\ Len(t) = L + Len(q)
      /\ \A k \in 1 .. L : t[k] = s[k] /\ k \in 1 .. Len(t)
      /\ \A i \in 1 .. Len(q) : t[L + i] = q[i] /\ L + i \in 1 .. Len(t)
      /\ \A k \in 1 .. Len(t) : k \in 1 .. L \/ \E i \in 1 .. Len(q) : k = L + i
  BY <1>1, <1>2, ConcatFacts
<1> HIDE DEF t
<1>4. ASSUME NEW b \in S
      PROVE  /\ \E j \in 1 .. L : Is(s, j, "open", b) /\ s[j].type = blocks[b].type
             /\ \A j \in 1 .. L : ~ Is(s, j, "stop", b)
             /\ b \in 1 .. Len(blocks)
  <2>1. b \in 1 .. Len(blocks)
    BY DEF Records
  <2>2. PICK j \in 1 .. L : Is(s, j, "open", b)
    BY <2>1 DEF Records
  <2>3. s[j].type = blocks[b].type
    BY <2>2 DEF Records, Is
  <2> QED BY <2>1, <2>2, <2>3 DEF Records
<1>5. ASSUME NEW i \in 1 .. Len(q)
      PROVE  LegalAt(t, L + i)
  <2> DEFINE b == q[i].block
  <2>1. t[L + i] = q[i] /\ q[i].kind = kind /\ q[i].type = blocks[b].type /\ b \in S
    BY <1>2, <1>3
  <2>2. PICK j \in 1 .. L : Is(s, j, "open", b) /\ s[j].type = blocks[b].type
    BY <1>4, <2>1
  <2>3. j \in 1 .. (L + i) - 1 /\ t[j] = s[j] /\ L + i # 1
    BY <1>2, <1>3
  <2>4. ASSUME NEW k \in 1 .. (L + i) - 1
        PROVE  t[k].kind # "end" /\ ~ Is(t, k, "stop", b)
    <3>1. CASE k \in 1 .. L
      <4>1. t[k] = s[k] /\ s[k].kind # "end"
        BY <1>3, <3>1 DEF Records
      <4> QED BY <1>4, <2>1, <3>1, <4>1 DEF Is
    <3>2. CASE k \notin 1 .. L
      <4>1. k - L \in 1 .. Len(q) /\ k = L + (k - L) /\ k - L # i
        <5>1. L \in Nat /\ Len(q) \in Nat /\ i \in 1 .. Len(q)
          BY <1>2, <1>3
        <5> QED BY <3>2, <5>1
      <4>2. t[k] = q[k - L]
        BY <1>3, <4>1
      <4> QED BY <1>2, <4>1, <4>2 DEF Is
    <3> QED BY <3>1, <3>2
  <2> QED BY <2>1, <2>2, <2>3, <2>4 DEF LegalAt, Is
<1>6. WellFormed(t)
  <2>1. ASSUME NEW k \in 1 .. L PROVE LegalAt(t, k)
    <3>1. LegalAt(s, k) /\ Len(s) <= Len(t)
      BY <1>1, <1>2, <1>3 DEF WellFormed
    <3> QED BY <1>1, <1>3, <3>1, LegalByPrefix
  <2> QED BY <1>3, <1>5, <2>1 DEF WellFormed
<1>7. ASSUME NEW k \in 1 .. Len(t)
      PROVE  /\ t[k].kind # "end"
             /\ t[k].kind = "open" =>
                  t[k].block \in 1 .. Len(blocks) /\ t[k].type = blocks[t[k].block].type
  <2>1. CASE k \in 1 .. L
    BY <1>3, <2>1 DEF Records
  <2>2. ASSUME NEW i \in 1 .. Len(q), k = L + i
        PROVE  t[k].kind # "end" /\ t[k].kind # "open"
    BY <1>2, <1>3, <2>2
  <2> QED BY <1>3, <2>1, <2>2
<1>8. ASSUME NEW b \in 1 .. Len(blocks)
      PROVE  /\ \E k \in 1 .. Len(t) : Is(t, k, "open", b)
             /\ b \in (IF kind = "stop" THEN open \ S ELSE open)
                  <=> \A k \in 1 .. Len(t) : ~ Is(t, k, "stop", b)
  <2>1. /\ \E k \in 1 .. L : Is(s, k, "open", b)
        /\ b \in open <=> \A k \in 1 .. L : ~ Is(s, k, "stop", b)
    BY DEF Records
  <2>2. \E k \in 1 .. Len(t) : Is(t, k, "open", b)
    BY <1>3, <2>1 DEF Is
  <2>3. (\A k \in 1 .. Len(t) : ~ Is(t, k, "stop", b))
           <=> /\ \A k \in 1 .. L : ~ Is(s, k, "stop", b)
               /\ \A i \in 1 .. Len(q) : ~ Is(q, i, "stop", b)
    <3>1. \A k \in 1 .. L : (Is(t, k, "stop", b) <=> Is(s, k, "stop", b)) /\ k \in 1 .. Len(t)
      BY <1>3 DEF Is
    <3>2. \A i \in 1 .. Len(q) :
            (Is(t, L + i, "stop", b) <=> Is(q, i, "stop", b)) /\ L + i \in 1 .. Len(t)
      BY <1>3 DEF Is
    <3> QED BY <1>3, <3>1, <3>2
  <2>4. (\A i \in 1 .. Len(q) : ~ Is(q, i, "stop", b)) <=> kind = "delta" \/ b \notin S
    BY <1>2 DEF Is
  <2> QED BY <2>1, <2>2, <2>3, <2>4
<1>9. (IF kind = "stop" THEN open \ S ELSE open) \subseteq 1 .. Len(blocks)
  BY DEF Records
<1> QED BY <1>1, <1>6, <1>7, <1>8, <1>9 DEF Records, t

LEMMA RecordsForEach ==
    ASSUME NEW s, NEW blocks, NEW open, Records(s, blocks, open), NEW S \in SUBSET open,
           \A b \in S : blocks[b].type = "tool", NEW kind \in {"delta", "stop"}
    PROVE  /\ ForEach(kind, S) \in Seq(Event)
           /\ Records(s \o ForEach(kind, S), blocks,
                      IF kind = "stop" THEN open \ S ELSE open)
<1> DEFINE q == ForEach(kind, S)
<1>1. blocks \in Seq(Block) /\ Len(blocks) \in Nat
  BY LenProperties DEF Records
<1>2. S \subseteq 1 .. Len(blocks) /\ IsFiniteSet(1 .. Len(blocks))
  BY <1>1, FS_Interval DEF Records
<1>3. S \in SUBSET (Nat \ {0})
  BY <1>1, <1>2
<1>4. IsFiniteSet(S)
  BY <1>2, FS_Subset
<1>5. OneEach(q, kind, S) /\ \A i \in 1 .. Len(q) : q[i].type = "tool"
  BY <1>3, <1>4, ForEachFacts
<1> HIDE DEF q
<1>6. \A i \in 1 .. Len(q) : q[i].type = blocks[q[i].block].type
  BY <1>5 DEF OneEach
<1>7. Records(s \o q, blocks, IF kind = "stop" THEN open \ S ELSE open)
  BY <1>5, <1>6, RecordsEach
<1> QED BY <1>5, <1>7 DEF OneEach, q

LEMMA DeltasForEach ==
    ASSUME NEW s \in Seq(Event), NEW S \in SUBSET (Nat \ {0}), IsFiniteSet(S),
           NEW kind \in {"delta", "stop"}, NEW b
    PROVE  Deltas(s \o ForEach(kind, S), b) =
             IF kind = "delta" /\ b \in S THEN Deltas(s, b) + 1 ELSE Deltas(s, b)
<1> DEFINE q == ForEach(kind, S)
           t == s \o q
           L == Len(s)
           D == {k \in 1 .. L : Is(s, k, "delta", b)}
           E == {k \in 1 .. Len(t) : Is(t, k, "delta", b)}
<1>1. /\ q \in Seq(Event) /\ Len(q) \in Nat
      /\ \A i \in 1 .. Len(q) : q[i].kind = kind /\ q[i].block \in S
      /\ \A i, j \in 1 .. Len(q) : q[i].block = q[j].block => i = j
      /\ \A d \in S : \E i \in 1 .. Len(q) : q[i].block = d
  <2>1. OneEach(q, kind, S)
    BY ForEachFacts
  <2> HIDE DEF q
  <2> QED BY <2>1 DEF OneEach
<1> HIDE DEF q
<1>2. /\ L \in Nat /\ \A k \in 1 .. L : t[k] = s[k] /\ k \in 1 .. Len(t)
      /\ \A i \in 1 .. Len(q) : t[L + i] = q[i] /\ L + i \in 1 .. Len(t)
      /\ \A k \in 1 .. Len(t) : k \in 1 .. L \/ \E i \in 1 .. Len(q) : k = L + i
  BY <1>1, ConcatFacts
<1> HIDE DEF t
<1>3. IsFiniteSet(D)
  <2>1. IsFiniteSet(1 .. L) /\ D \in SUBSET (1 .. L)
    BY <1>2, FS_Interval
  <2> HIDE DEF D
  <2> QED BY <2>1, FS_Subset
<1>4. \A k \in D : k \in E /\ k \in 1 .. L
  BY <1>2 DEF Is
<1>5. \A k \in E : k \in D \/ (kind = "delta" /\ \E i \in 1 .. Len(q) : k = L + i /\ q[i].block = b)
  <2> SUFFICES ASSUME NEW k \in E, k \notin D
               PROVE  kind = "delta" /\ \E i \in 1 .. Len(q) : k = L + i /\ q[i].block = b
      OBVIOUS
  <2>1. k \in 1 .. Len(t) /\ Is(t, k, "delta", b)
    OBVIOUS
  <2>2. k \notin 1 .. L
    BY <1>2, <2>1 DEF Is
  <2>3. PICK i \in 1 .. Len(q) : k = L + i
    BY <1>2, <2>1, <2>2
  <2>4. t[k] = q[i] /\ q[i].kind = kind
    BY <1>1, <1>2, <2>3
  <2>5. q[i].kind = "delta" /\ q[i].block = b
    BY <2>1, <2>4 DEF Is
  <2> HIDE DEF D, E
  <2> QED BY <2>3, <2>4, <2>5
<1>6. CASE kind = "delta" /\ b \in S
  <2>1. PICK i \in 1 .. Len(q) : q[i].block = b
    BY <1>1, <1>6
  <2>2. L + i \in E
    BY <1>1, <1>2, <1>6, <2>1 DEF Is
  <2>3. L + i \notin D
    BY <1>1, <1>2
  <2>4. \A k \in E : k \in D \/ k = L + i
    BY <1>1, <1>5, <2>1
  <2> HIDE DEF D, E
  <2>5. E = D \cup {L + i}
    BY <1>4, <2>2, <2>4
  <2> QED BY <1>3, <1>6, <2>3, <2>5, FS_AddElement DEF Deltas, D, E, t, q
<1>7. CASE ~ (kind = "delta" /\ b \in S)
  <2>1. \A k \in E : k \in D
    <3> HIDE DEF D, E
    <3>1. \A i \in 1 .. Len(q) : q[i].block \in S
      BY <1>1
    <3> QED BY <1>5, <1>7, <3>1
  <2> HIDE DEF D, E
  <2>2. E = D
    BY <1>4, <2>1
  <2> QED BY <1>7, <2>2 DEF Deltas, D, E, t, q
<1> QED BY <1>6, <1>7
-----------------------------------------------------------------------------
(***************************************************************************)
(* The ledger.                                                             *)
(***************************************************************************)
CallState ==
    [kind : ToolKind \cup {"unnamed"}, block : Nat,
     early : BOOLEAN, held : BOOLEAN, done : BOOLEAN]

Ledger ==
    [started : BOOLEAN, blocks : Seq(Block), text : Nat, thinking : Nat,
     textOpen : BOOLEAN, thinkingOpen : BOOLEAN, tools : [Calls -> CallState],
     said : BOOLEAN, thought : BOOLEAN, log : Seq(Event)]

\* The events s and then those of the log announce the blocks of l; those of open are
\* still open, and every delta is counted: of all blocks if N is Nat, of none if it is {}.
Produced(N, s, l, open) ==
    /\ s \in Seq(Event) /\ l \in Ledger
    /\ Records(s \o l.log, l.blocks, open)
    /\ Tally(N, s \o l.log, l.blocks)

\* The same as l, but for its log and perhaps some fields.
SameFlags(l, m) == m.started = l.started /\ m.said = l.said /\ m.thought = l.thought
SameContent(l, m) ==
    /\ m.text = l.text /\ m.thinking = l.thinking
    /\ m.textOpen = l.textOpen /\ m.thinkingOpen = l.thinkingOpen

\* What OpenBlock, Delta and StopBlock make of l.
Opened(l, m, type) ==
    LET b == Len(l.blocks) + 1
    IN  /\ m.blocks = Append(l.blocks, [type |-> type, args |-> "none", deltas |-> 0])
        /\ Len(m.blocks) = b /\ m.blocks[b].type = type
        /\ \A d \in 1 .. Len(l.blocks) : m.blocks[d] = l.blocks[d] /\ d # b
        /\ m.tools = l.tools /\ SameFlags(l, m)
        /\ m.text = (IF type = "text" THEN b ELSE l.text)
        /\ m.textOpen <=> l.textOpen \/ type = "text"
        /\ m.thinking = (IF type = "thinking" THEN b ELSE l.thinking)
        /\ m.thinkingOpen <=> l.thinkingOpen \/ type = "thinking"

Extended(l, m, b, args) ==
    /\ Len(m.blocks) = Len(l.blocks) /\ b \in 1 .. Len(l.blocks)
    /\ \A d \in 1 .. Len(l.blocks) : m.blocks[d].type = l.blocks[d].type
    /\ \A d \in 1 .. Len(l.blocks) : d # b => m.blocks[d] = l.blocks[d]
    /\ m.blocks[b].args = args
    /\ m.tools = l.tools /\ SameFlags(l, m) /\ SameContent(l, m)

Stopped(l, m, b) ==
    /\ m.blocks = l.blocks /\ m.tools = l.tools /\ SameFlags(l, m)
    /\ m.text = l.text /\ m.thinking = l.thinking
    /\ m.textOpen <=> l.textOpen /\ l.text # b
    /\ m.thinkingOpen <=> l.thinkingOpen /\ l.thinking # b

LEMMA LogAppend ==
    ASSUME NEW s \in Seq(Event), NEW q \in Seq(Event), NEW e \in Event
    PROVE  s \o Append(q, e) = Append(s \o q, e) /\ Append(q, e) \in Seq(Event)
<1>1. Append(q, e) = q \o <<e>> /\ Append(q, e) \in Seq(Event)
  BY AppendIsConcat, AppendProperties
<1>2. s \o q \in Seq(Event)
  BY ConcatProperties
<1>3. Append(s \o q, e) = (s \o q) \o <<e>>
  BY <1>2, AppendIsConcat
<1>4. <<e>> \in Seq(Event)
  OBVIOUS
<1> QED BY <1>1, <1>3, <1>4, ConcatAssociative

LEMMA LogConcat ==
    ASSUME NEW s \in Seq(Event), NEW q \in Seq(Event), NEW r \in Seq(Event)
    PROVE  s \o (q \o r) = (s \o q) \o r /\ q \o r \in Seq(Event)
<1>1. q \o r \in Seq(Event)
  BY ConcatProperties
<1> QED BY <1>1, ConcatAssociative

\* The first of the events q joins the events s.
LEMMA TakesHead ==
    ASSUME NEW s \in Seq(Event), NEW q \in Seq(Event), q # <<>>
    PROVE  /\ Head(q) \in Event /\ Tail(q) \in Seq(Event)
           /\ Append(s, Head(q)) \in Seq(Event) /\ Append(s, Head(q)) \o Tail(q) = s \o q
           /\ (s \o q)[Len(s) + 1] = Head(q) /\ Len(s) + 1 \in 1 .. Len(s \o q)
           /\ \A i \in 1 .. Len(s) : (s \o q)[i] = s[i]
<1> DEFINE e == Head(q)
           rest == Tail(q)
<1>1. /\ e \in Event /\ rest \in Seq(Event) /\ Len(rest) = Len(q) - 1
      /\ \A i \in 1 .. Len(rest) : rest[i] = q[i + 1]
      /\ e = q[1] /\ Len(q) \in Nat \ {0}
  BY HeadTailProperties, EmptySeq
<1> HIDE DEF e, rest
<1> DEFINE a == Append(s, e)
           x == a \o rest
           y == s \o q
<1>2. /\ a \in Seq(Event) /\ Len(a) = Len(s) + 1
      /\ Len(s) \in Nat /\ a[Len(s) + 1] = e
      /\ \A i \in 1 .. Len(s) : a[i] = s[i]
  BY <1>1, AppendFacts
<1>3. /\ x \in Seq(Event) /\ Len(x) = Len(a) + Len(rest)
      /\ \A i \in 1 .. Len(a) + Len(rest) : x[i] = IF i <= Len(a) THEN a[i] ELSE rest[i - Len(a)]
  <2> HIDE DEF a
  <2> QED BY <1>1, <1>2, ConcatProperties
<1>4. /\ y \in Seq(Event) /\ Len(y) = Len(s) + Len(q)
      /\ \A i \in 1 .. Len(s) + Len(q) : y[i] = IF i <= Len(s) THEN s[i] ELSE q[i - Len(s)]
  BY ConcatProperties
<1> HIDE DEF x, y, a
<1>5. Len(x) = Len(y) /\ Len(x) \in Nat
  BY <1>1, <1>2, <1>3, <1>4
<1>6. ASSUME NEW i \in 1 .. Len(x) PROVE x[i] = y[i]
  <2>1. CASE i <= Len(s)
    BY <1>2, <1>3, <1>4, <1>5, <2>1
  <2>2. CASE i = Len(s) + 1
    <3>1. i <= Len(a) /\ ~ (i <= Len(s)) /\ i - Len(s) = 1
      BY <1>2, <1>5, <2>2
    <3>2. x[i] = e /\ y[i] = q[1]
      BY <1>2, <1>3, <1>4, <1>5, <2>2, <3>1
    <3> QED BY <1>1, <3>2
  <2>3. CASE i > Len(s) + 1
    <3>1. /\ ~ (i <= Len(a)) /\ ~ (i <= Len(s))
          /\ i - Len(a) \in 1 .. Len(rest) /\ (i - Len(a)) + 1 = i - Len(s)
      BY <1>1, <1>2, <1>3, <1>5, <2>3
    <3>2. x[i] = rest[i - Len(a)] /\ y[i] = q[i - Len(s)]
      BY <1>3, <1>4, <1>5, <3>1
    <3> QED BY <1>1, <3>1, <3>2
  <2> QED BY <1>2, <1>5, <2>1, <2>2, <2>3
<1>7. x = y
  BY <1>3, <1>4, <1>5, <1>6, SeqEqual
<1>8. /\ Len(s) + 1 \in 1 .. Len(s) + Len(q)
      /\ ~ (Len(s) + 1 <= Len(s)) /\ (Len(s) + 1) - Len(s) = 1
      /\ \A i \in 1 .. Len(s) : i \in 1 .. Len(s) + Len(q) /\ i <= Len(s)
  BY <1>1, <1>2
<1>9. /\ y[Len(s) + 1] = e /\ Len(s) + 1 \in 1 .. Len(y)
      /\ \A i \in 1 .. Len(s) : y[i] = s[i]
  BY <1>1, <1>4, <1>8
<1> QED BY <1>1, <1>2, <1>7, <1>9 DEF a, e, rest, x, y

LEMMA DeltasNone ==
    ASSUME NEW s, NEW blocks, NEW open, Records(s, blocks, open)
    PROVE  Deltas(s, Len(blocks) + 1) = 0
<1> DEFINE n == Len(blocks) + 1
           D == {k \in 1 .. Len(s) : Is(s, k, "delta", n)}
<1>1. Len(blocks) \in Nat /\ Len(s) \in Nat
  BY LenProperties DEF Records, WellFormed
<1>2. ASSUME NEW k \in 1 .. Len(s), Is(s, k, "delta", n) PROVE FALSE
  <2>1. PICK j \in 1 .. k - 1 : Is(s, j, "open", n)
    BY <1>2 DEF Records, WellFormed, LegalAt, Is
  <2>2. j \in 1 .. Len(s)
    BY <1>1
  <2>3. n \in 1 .. Len(blocks)
    BY <2>1, <2>2 DEF Records, Is
  <2> QED BY <1>1, <2>3
<1>3. D = {}
  BY <1>2
<1> QED BY <1>3, FS_EmptySet DEF Deltas

LEMMA OpenBlockDoes ==
    ASSUME NEW N, NEW s, NEW l, NEW open, Produced(N, s, l, open), s \o l.log # <<>>,
           NEW type \in BlockTypes
    PROVE  LET m == OpenBlock(l, type)
               b == Len(l.blocks) + 1
           IN  /\ Produced(N, s, m, open \cup {b}) /\ b \in Nat \ {0} /\ b \notin open
               /\ s \o m.log # <<>> /\ Opened(l, m, type)
<1> DEFINE m == OpenBlock(l, type)
           b == Len(l.blocks) + 1
           e == [kind |-> "open", block |-> b, type |-> type]
           x == [type |-> type, args |-> "none", deltas |-> 0]
           t == s \o l.log
<1>1. l \in Ledger /\ s \in Seq(Event) /\ l.blocks \in Seq(Block) /\ l.log \in Seq(Event)
  BY DEF Produced, Ledger
<1>2. Len(l.blocks) \in Nat /\ b \in Nat \ {0}
  BY <1>1, LenProperties
<1>3. e \in Event /\ x \in Block /\ x.type = type /\ x.deltas = 0
  BY <1>2 DEF Event, Block, Args
<1> HIDE DEF e, x, b
<1>4. /\ m.blocks = Append(l.blocks, x) /\ m.log = Append(l.log, e)
      /\ m.tools = l.tools /\ SameFlags(l, m)
      /\ m.text = (IF type = "text" THEN b ELSE l.text)
      /\ m.textOpen <=> l.textOpen \/ type = "text"
      /\ m.thinking = (IF type = "thinking" THEN b ELSE l.thinking)
      /\ m.thinkingOpen <=> l.thinkingOpen \/ type = "thinking"
  BY <1>1 DEF OpenBlock, Emit, Ledger, SameFlags, e, x, b
<1>5. Append(l.blocks, x) \in Seq(Block) /\ Append(l.log, e) \in Seq(Event)
  BY <1>1, <1>3, AppendProperties
<1>6. m \in Ledger
  BY <1>1, <1>2, <1>5 DEF OpenBlock, Emit, Ledger, e, x, b
<1> HIDE DEF m
<1>7. s \o m.log = Append(t, e) /\ t \in Seq(Event)
  <2>1. s \o Append(l.log, e) = Append(s \o l.log, e)
    BY <1>1, <1>3, LogAppend
  <2>2. s \o l.log \in Seq(Event)
    BY <1>1, ConcatProperties
  <2> QED BY <1>4, <2>1, <2>2
<1>8. /\ Len(m.blocks) = b /\ m.blocks[b] = x
      /\ \A d \in 1 .. Len(l.blocks) : m.blocks[d] = l.blocks[d]
  BY <1>1, <1>3, <1>4, AppendProperties DEF b
<1>9. \A d \in 1 .. b : d \in 1 .. Len(l.blocks) \/ d = b
  BY <1>2 DEF b
<1>10. Records(t, l.blocks, open) /\ Tally(N, t, l.blocks)
  BY DEF Produced
<1>11. Records(Append(t, e), Append(l.blocks, x), open \cup {b})
  <2> HIDE DEF t
  <2>1. t # <<>>
    BY DEF t
  <2> QED BY <1>3, <1>10, <2>1, RecordsOpen DEF e, b
<1>12. Tally(N, Append(t, e), m.blocks)
  <2>1. \A d : Deltas(Append(t, e), d) = Deltas(t, d)
    BY <1>3, <1>7, DeltasAppend DEF e
  <2>2. Deltas(t, b) = 0
    BY <1>10, DeltasNone DEF b
  <2> QED BY <1>3, <1>8, <1>9, <1>10, <2>1, <2>2 DEF Tally
<1>13. Produced(N, s, m, open \cup {b})
  BY <1>1, <1>4, <1>6, <1>7, <1>11, <1>12 DEF Produced
<1>14. b \notin open /\ \A d \in 1 .. Len(l.blocks) : d # b
  BY <1>2, <1>10 DEF Records, b
<1>15. Append(t, e) # <<>>
  BY <1>3, <1>7, AppendProperties
<1>16. Opened(l, m, type)
  BY <1>3, <1>4, <1>8, <1>14 DEF Opened, b, x
<1> QED BY <1>2, <1>7, <1>13, <1>14, <1>15, <1>16 DEF m, b

LEMMA DeltaDoes ==
    ASSUME NEW N, NEW s, NEW l, NEW open, Produced(N, s, l, open), NEW b \in open, NEW args \in Args
    PROVE  LET m == Delta(l, b, args)
           IN  Produced(N, s, m, open) /\ s \o m.log # <<>> /\ Extended(l, m, b, args)
<1> DEFINE m == Delta(l, b, args)
           e == [kind |-> "delta", block |-> b, type |-> l.blocks[b].type]
           x == [l.blocks[b] EXCEPT !.args = args, !.deltas = @ + 1]
           more == [l.blocks EXCEPT ![b] = x]
           t == s \o l.log
<1>1. /\ l \in Ledger /\ s \in Seq(Event) /\ l.blocks \in Seq(Block) /\ l.log \in Seq(Event)
      /\ Records(t, l.blocks, open) /\ Tally(N, t, l.blocks)
  BY DEF Produced, Ledger
<1>2. b \in 1 .. Len(l.blocks) /\ Len(l.blocks) \in Nat
  BY <1>1, LenProperties DEF Records
<1>3. l.blocks[b] \in Block
  BY <1>1, <1>2, ElementOfSeq
<1>4. x \in Block /\ x.type = l.blocks[b].type /\ x.args = args /\ x.deltas = l.blocks[b].deltas + 1
  <2> DEFINE y == l.blocks[b]
  <2>1. y \in Block
    BY <1>3
  <2> HIDE DEF y
  <2>2. y.deltas + 1 \in Nat
    BY <2>1 DEF Block
  <2>3. [y EXCEPT !.args = args, !.deltas = y.deltas + 1] \in Block
    BY <2>1, <2>2 DEF Block
  <2> QED BY <2>1, <2>3 DEF Block, y
<1>5. e \in Event
  BY <1>2, <1>3 DEF Event, Block
<1>6. /\ more \in Seq(Block) /\ Len(more) = Len(l.blocks)
      /\ \A d \in 1 .. Len(l.blocks) : more[d] = IF d = b THEN x ELSE l.blocks[d]
  <2> HIDE DEF x
  <2> QED BY <1>1, <1>2, <1>4, ExceptSeq
<1>7. /\ m.blocks = more /\ m.log = Append(l.log, e)
      /\ m.tools = l.tools /\ SameFlags(l, m) /\ SameContent(l, m)
  <2>1. m.blocks = more
    BY <1>1 DEF Delta, Emit, Ledger
  <2>2. m.log = Append(l.log, e)
    BY <1>1 DEF Delta, Emit, Ledger
  <2> HIDE DEF e, x, more, t
  <2>3. m.tools = l.tools /\ SameFlags(l, m) /\ SameContent(l, m)
    BY <1>1 DEF Delta, Emit, Ledger, SameFlags, SameContent
  <2> QED BY <2>1, <2>2, <2>3
<1> HIDE DEF e, x, more, t
<1>8. Append(l.log, e) \in Seq(Event)
  BY <1>1, <1>5, AppendProperties
<1>9. m \in Ledger
  <2>1. m = [[l EXCEPT !.log = Append(l.log, e)] EXCEPT !.blocks = more]
    BY <1>1 DEF Delta, Emit, Ledger, e, x, more
  <2> HIDE DEF m
  <2> QED BY <1>1, <1>6, <1>8, <2>1 DEF Ledger
<1> HIDE DEF m
<1>10. s \o m.log = Append(t, e) /\ t \in Seq(Event)
  BY <1>1, <1>5, <1>7, LogAppend, ConcatProperties DEF t
<1>11. SameBlocks(l.blocks, more)
  BY <1>4, <1>6 DEF SameBlocks
<1>12. Records(Append(t, e), l.blocks, open)
  <2>1. e.kind = "delta" /\ e.block \in open /\ e.type = l.blocks[e.block].type
    BY DEF e
  <2> QED BY <1>1, <1>5, <2>1, RecordsOther
<1>13. Records(Append(t, e), more, open)
  BY <1>11, <1>12, RecordsSame
<1>14. Tally(N, Append(t, e), more)
  <2>1. \A d : Deltas(Append(t, e), d) = IF d = b THEN Deltas(t, d) + 1 ELSE Deltas(t, d)
    <3>1. e.kind = "delta" /\ e.block = b
      BY DEF e
    <3> QED BY <1>5, <1>10, <3>1, DeltasAppend
  <2> QED BY <1>1, <1>2, <1>4, <1>6, <2>1 DEF Tally
<1>15. Produced(N, s, m, open)
  BY <1>1, <1>7, <1>9, <1>10, <1>13, <1>14 DEF Produced
<1>16. Append(t, e) # <<>>
  BY <1>5, <1>10, AppendProperties
<1>17. Extended(l, m, b, args)
  BY <1>2, <1>4, <1>6, <1>7 DEF Extended
<1> QED BY <1>10, <1>15, <1>16, <1>17 DEF m

LEMMA StopBlockDoes ==
    ASSUME NEW N, NEW s, NEW l, NEW open, Produced(N, s, l, open), NEW b \in open
    PROVE  LET m == StopBlock(l, b)
           IN  Produced(N, s, m, open \ {b}) /\ s \o m.log # <<>> /\ Stopped(l, m, b)
<1> DEFINE m == StopBlock(l, b)
           e == [kind |-> "stop", block |-> b, type |-> l.blocks[b].type]
           t == s \o l.log
<1>1. /\ l \in Ledger /\ s \in Seq(Event) /\ l.blocks \in Seq(Block) /\ l.log \in Seq(Event)
      /\ Records(t, l.blocks, open) /\ Tally(N, t, l.blocks)
  BY DEF Produced, Ledger
<1>2. b \in 1 .. Len(l.blocks) /\ Len(l.blocks) \in Nat
  BY <1>1, LenProperties DEF Records
<1>3. l.blocks[b] \in Block
  BY <1>1, <1>2, ElementOfSeq
<1>4. e \in Event /\ e.kind = "stop" /\ e.block = b
  BY <1>2, <1>3 DEF Event, Block
<1>5. /\ m.blocks = l.blocks /\ m.log = Append(l.log, e)
      /\ m.tools = l.tools /\ SameFlags(l, m)
      /\ m.text = l.text /\ m.thinking = l.thinking
      /\ m.textOpen <=> l.textOpen /\ l.text # b
      /\ m.thinkingOpen <=> l.thinkingOpen /\ l.thinking # b
  BY <1>1 DEF StopBlock, Emit, Ledger, SameFlags
<1> HIDE DEF e, t
<1>6. Append(l.log, e) \in Seq(Event)
  BY <1>1, <1>4, AppendProperties
<1>7. m \in Ledger
  BY <1>1, <1>6 DEF StopBlock, Emit, Ledger, e
<1> HIDE DEF m
<1>8. s \o m.log = Append(t, e) /\ t \in Seq(Event)
  BY <1>1, <1>4, <1>5, LogAppend, ConcatProperties DEF t
<1>9. Records(Append(t, e), l.blocks, open \ {b})
  BY <1>1, <1>4, RecordsStop
<1>10. Tally(N, Append(t, e), l.blocks)
  <2>1. \A d : Deltas(Append(t, e), d) = Deltas(t, d)
    BY <1>4, <1>8, DeltasAppend
  <2> QED BY <1>1, <2>1 DEF Tally
<1>11. Append(t, e) # <<>>
  BY <1>4, <1>8, AppendProperties
<1>12. Stopped(l, m, b)
  BY <1>5 DEF Stopped
<1> QED BY <1>1, <1>5, <1>7, <1>8, <1>9, <1>10, <1>11, <1>12 DEF Produced, m

(***************************************************************************)
(* Which blocks are open: the current text, the current thinking, and one  *)
(* for every call that has started.                                        *)
(***************************************************************************)
Owned(l, open) ==
    /\ l.text \in 0 .. Len(l.blocks) /\ l.thinking \in 0 .. Len(l.blocks)
    /\ l.textOpen => l.text \in open /\ l.blocks[l.text].type = "text"
    /\ l.thinkingOpen => l.thinking \in open /\ l.blocks[l.thinking].type = "thinking"
    /\ \A c \in Calls : l.tools[c].block # 0 =>
         /\ l.tools[c].block \in open /\ l.blocks[l.tools[c].block].type = "tool"
         /\ l.tools[c].kind \in ToolKind
    /\ \A c, d \in Calls : l.tools[c].block = l.tools[d].block /\ c # d => l.tools[c].block = 0
    /\ \A c \in Calls : l.tools[c].held => l.tools[c].block # 0

HasOwner(l, b) ==
    \/ l.textOpen /\ b = l.text
    \/ l.thinkingOpen /\ b = l.thinking
    \/ \E c \in Calls : l.tools[c].block = b

\* A ledger whose message has begun and can go on.
Coherent(N, s, l, open) ==
    /\ Produced(N, s, l, open) /\ s \o l.log # <<>>
    /\ Owned(l, open) /\ \A b \in open : HasOwner(l, b)

Going(N, s, l) == \E open : Coherent(N, s, l, open)

LEMMA ProducedTypes ==
    ASSUME NEW N, NEW s, NEW l, NEW open, Produced(N, s, l, open)
    PROVE  /\ l \in Ledger /\ s \in Seq(Event) /\ l.blocks \in Seq(Block)
           /\ Len(l.blocks) \in Nat /\ open \subseteq 1 .. Len(l.blocks)
           /\ \A b \in 1 .. Len(l.blocks) : l.blocks[b] \in Block /\ b # 0
           /\ DOMAIN l.blocks = 1 .. Len(l.blocks)
           /\ \A c \in Calls : l.tools[c] \in CallState
           /\ l.log \in Seq(Event) /\ s \o l.log \in Seq(Event)
<1>1. l \in Ledger /\ s \in Seq(Event) /\ open \subseteq 1 .. Len(l.blocks)
  BY DEF Produced, Records
<1>2. l.blocks \in Seq(Block) /\ l.log \in Seq(Event) /\ l.tools \in [Calls -> CallState]
  BY <1>1 DEF Ledger
<1>3. Len(l.blocks) \in Nat /\ DOMAIN l.blocks = 1 .. Len(l.blocks)
  BY <1>2, LenProperties
<1>4. \A b \in 1 .. Len(l.blocks) : l.blocks[b] \in Block /\ b # 0
  BY <1>2, <1>3, ElementOfSeq
<1>5. s \o l.log \in Seq(Event)
  BY <1>1, <1>2, ConcatProperties
<1> QED BY <1>1, <1>2, <1>3, <1>4, <1>5

\* One block of content is closed.
LEMMA StopThinking ==
    ASSUME NEW N, NEW s, NEW l, NEW open, Coherent(N, s, l, open), l.thinkingOpen
    PROVE  LET m == StopBlock(l, l.thinking)
           IN  /\ Coherent(N, s, m, open \ {l.thinking})
               /\ ~ m.thinkingOpen /\ (m.textOpen <=> l.textOpen)
               /\ m.blocks = l.blocks /\ m.tools = l.tools /\ SameFlags(l, m)
<1> DEFINE m == StopBlock(l, l.thinking)
           b == l.thinking
<1>1. b \in open /\ l.blocks[b].type = "thinking" /\ Produced(N, s, l, open) /\ Owned(l, open)
  BY DEF Coherent, Owned
<1>2. Produced(N, s, m, open \ {b}) /\ s \o m.log # <<>> /\ Stopped(l, m, b)
  BY <1>1, StopBlockDoes
<1> HIDE DEF m
<1>3. ~ m.thinkingOpen /\ (m.textOpen <=> l.textOpen)
  BY <1>1, <1>2 DEF Stopped, Owned
<1>4. Owned(m, open \ {b})
  BY <1>1, <1>2, <1>3 DEF Owned, Stopped
<1>5. \A d \in open \ {b} : HasOwner(m, d)
  <2> SUFFICES ASSUME NEW d \in open, d # b PROVE HasOwner(m, d)
      OBVIOUS
  <2>1. HasOwner(l, d)
    BY DEF Coherent
  <2> QED BY <1>2, <1>3, <2>1 DEF HasOwner, Stopped
<1> QED BY <1>2, <1>3, <1>4, <1>5 DEF Coherent, Stopped, m

LEMMA StopText ==
    ASSUME NEW N, NEW s, NEW l, NEW open, Coherent(N, s, l, open), l.textOpen
    PROVE  LET m == StopBlock(l, l.text)
           IN  /\ Coherent(N, s, m, open \ {l.text})
               /\ ~ m.textOpen /\ (m.thinkingOpen <=> l.thinkingOpen)
               /\ m.blocks = l.blocks /\ m.tools = l.tools /\ SameFlags(l, m)
<1> DEFINE m == StopBlock(l, l.text)
           b == l.text
<1>1. b \in open /\ l.blocks[b].type = "text" /\ Produced(N, s, l, open) /\ Owned(l, open)
  BY DEF Coherent, Owned
<1>2. Produced(N, s, m, open \ {b}) /\ s \o m.log # <<>> /\ Stopped(l, m, b)
  BY <1>1, StopBlockDoes
<1> HIDE DEF m
<1>3. ~ m.textOpen /\ (m.thinkingOpen <=> l.thinkingOpen)
  BY <1>1, <1>2 DEF Stopped, Owned
<1>4. Owned(m, open \ {b})
  BY <1>1, <1>2, <1>3 DEF Owned, Stopped
<1>5. \A d \in open \ {b} : HasOwner(m, d)
  <2> SUFFICES ASSUME NEW d \in open, d # b PROVE HasOwner(m, d)
      OBVIOUS
  <2>1. HasOwner(l, d)
    BY DEF Coherent
  <2> QED BY <1>2, <1>3, <2>1 DEF HasOwner, Stopped
<1> QED BY <1>2, <1>3, <1>4, <1>5 DEF Coherent, Stopped, m

\* ensure_text_block and ensure_thinking_block: the new block, if one is needed.
LEMMA OpenContent ==
    ASSUME NEW N, NEW s, NEW l, NEW open, Coherent(N, s, l, open), NEW type \in {"text", "thinking"},
           IF type = "text" THEN ~ l.textOpen ELSE ~ l.thinkingOpen
    PROVE  LET m == OpenBlock(l, type)
           IN  /\ Coherent(N, s, m, open \cup {Len(l.blocks) + 1})
               /\ IF type = "text" THEN m.textOpen ELSE m.thinkingOpen
               /\ HasTool(m) <=> HasTool(l)
               /\ SameFlags(l, m) /\ m.tools = l.tools
<1> DEFINE m == OpenBlock(l, type)
           b == Len(l.blocks) + 1
<1>1. Produced(N, s, l, open) /\ s \o l.log # <<>> /\ type \in BlockTypes /\ Owned(l, open)
  BY DEF Coherent, BlockTypes
<1>2. /\ Produced(N, s, m, open \cup {b}) /\ b \in Nat \ {0} /\ b \notin open
      /\ s \o m.log # <<>> /\ Opened(l, m, type)
  BY <1>1, OpenBlockDoes
<1> HIDE DEF m
<1>3. Len(l.blocks) \in Nat /\ open \subseteq 1 .. Len(l.blocks)
  BY <1>1, ProducedTypes
<1>4. /\ Len(m.blocks) = b /\ m.blocks[b].type = type
      /\ \A d \in 1 .. Len(l.blocks) : m.blocks[d] = l.blocks[d] /\ d # b
      /\ m.tools = l.tools /\ SameFlags(l, m)
      /\ m.text = (IF type = "text" THEN b ELSE l.text)
      /\ m.textOpen <=> l.textOpen \/ type = "text"
      /\ m.thinking = (IF type = "thinking" THEN b ELSE l.thinking)
      /\ m.thinkingOpen <=> l.thinkingOpen \/ type = "thinking"
  BY <1>2 DEF Opened
<1>5. /\ \A d \in 0 .. Len(l.blocks) : d \in 0 .. b
      /\ b \in 0 .. b /\ \A d \in open : m.blocks[d] = l.blocks[d]
      /\ \A d \in 1 .. b : d \in 1 .. Len(l.blocks) \/ d = b
      /\ \A d \in 1 .. Len(l.blocks) : d \in 1 .. b
      /\ b \in 1 .. b
  BY <1>3, <1>4
<1>6. DOMAIN m.blocks = 1 .. b /\ DOMAIN l.blocks = 1 .. Len(l.blocks)
  BY <1>1, <1>2, <1>4, ProducedTypes
<1> HIDE DEF b
<1>7. Owned(m, open \cup {b})
  BY <1>1, <1>4, <1>5 DEF Owned
<1>8. \A d \in open \cup {b} : HasOwner(m, d)
  <2>1. ASSUME NEW d \in open PROVE HasOwner(l, d)
    BY DEF Coherent
  <2>2. CASE type = "text"
    <3>1. m.textOpen /\ m.text = b /\ m.thinking = l.thinking /\ m.tools = l.tools
          /\ (m.thinkingOpen <=> l.thinkingOpen) /\ ~ l.textOpen
      BY <1>4, <2>2
    <3>2. HasOwner(m, b)
      BY <3>1, Zenon DEF HasOwner
    <3>3. ASSUME NEW d \in open PROVE HasOwner(m, d)
      <4>1. CASE l.textOpen /\ d = l.text
        BY <3>1, <4>1, Zenon DEF HasOwner
      <4>2. CASE l.thinkingOpen /\ d = l.thinking
        BY <3>1, <4>2, Zenon DEF HasOwner
      <4>3. CASE \E c \in Calls : l.tools[c].block = d
        BY <3>1, <4>3, Zenon DEF HasOwner
      <4> QED BY <2>1, <4>1, <4>2, <4>3 DEF HasOwner
    <3> QED BY <3>2, <3>3
  <2>3. CASE type = "thinking"
    <3>1. m.thinkingOpen /\ m.thinking = b /\ m.text = l.text /\ m.tools = l.tools
          /\ (m.textOpen <=> l.textOpen) /\ ~ l.thinkingOpen
      BY <1>4, <2>3
    <3>2. HasOwner(m, b)
      BY <3>1, Zenon DEF HasOwner
    <3>3. ASSUME NEW d \in open PROVE HasOwner(m, d)
      <4>1. CASE l.textOpen /\ d = l.text
        BY <3>1, <4>1, Zenon DEF HasOwner
      <4>2. CASE l.thinkingOpen /\ d = l.thinking
        BY <3>1, <4>2, Zenon DEF HasOwner
      <4>3. CASE \E c \in Calls : l.tools[c].block = d
        BY <3>1, <4>3, Zenon DEF HasOwner
      <4> QED BY <2>1, <4>1, <4>2, <4>3 DEF HasOwner
    <3> QED BY <3>2, <3>3
  <2> QED BY <2>2, <2>3
<1>9. HasTool(m) <=> HasTool(l)
  BY <1>4, <1>5, <1>6 DEF HasTool
<1> QED BY <1>2, <1>4, <1>7, <1>8, <1>9 DEF Coherent, m, b

\* Tools are neither added nor changed.
SameTools(l, m) == m.tools = l.tools /\ (HasTool(m) <=> HasTool(l))

LEMMA CloseContentDoes ==
    ASSUME NEW N, NEW s, NEW l, NEW open, Coherent(N, s, l, open)
    PROVE  LET m == CloseContent(l)
           IN  /\ Going(N, s, m) /\ ~ m.textOpen /\ ~ m.thinkingOpen
               /\ m.blocks = l.blocks /\ m.tools = l.tools /\ SameFlags(l, m)
<1> DEFINE k == IF l.thinkingOpen THEN StopBlock(l, l.thinking) ELSE l
           m == IF k.textOpen THEN StopBlock(k, k.text) ELSE k
<1>1. PICK o : /\ Coherent(N, s, k, o) /\ ~ k.thinkingOpen
               /\ k.blocks = l.blocks /\ k.tools = l.tools /\ SameFlags(l, k)
  <2>1. CASE l.thinkingOpen
    BY <2>1, StopThinking
  <2>2. CASE ~ l.thinkingOpen
    BY <2>2 DEF SameFlags
  <2> QED BY <2>1, <2>2
<1> HIDE DEF k
<1>2. /\ Going(N, s, m) /\ ~ m.textOpen /\ ~ m.thinkingOpen
      /\ m.blocks = k.blocks /\ m.tools = k.tools /\ SameFlags(k, m)
  <2>1. CASE k.textOpen
    BY <1>1, <2>1, StopText DEF Going
  <2>2. CASE ~ k.textOpen
    BY <1>1, <2>2 DEF Going, SameFlags
  <2> QED BY <2>1, <2>2
<1>3. m = CloseContent(l)
  BY DEF k, CloseContent
<1> HIDE DEF m
<1> QED BY <1>1, <1>2, <1>3 DEF SameFlags

\* A delta of the current block of text or thinking, and a flag that is set.
LEMMA DeltaKeeps ==
    ASSUME NEW N, NEW s, NEW l, NEW open, Coherent(N, s, l, open), NEW b \in open, NEW args \in Args
    PROVE  /\ Coherent(N, s, Delta(l, b, args), open)
           /\ SameTools(l, Delta(l, b, args)) /\ Extended(l, Delta(l, b, args), b, args)
<1> DEFINE m == Delta(l, b, args)
<1>1. Produced(N, s, l, open) /\ Owned(l, open)
  BY DEF Coherent
<1>2. Produced(N, s, m, open) /\ s \o m.log # <<>> /\ Extended(l, m, b, args)
  BY <1>1, DeltaDoes
<1>3. DOMAIN m.blocks = 1 .. Len(m.blocks) /\ DOMAIN l.blocks = 1 .. Len(l.blocks)
      /\ open \subseteq 1 .. Len(l.blocks)
  BY <1>1, <1>2, ProducedTypes
<1> HIDE DEF m
<1>4. Owned(m, open)
  <2>1. /\ m.text = l.text /\ m.thinking = l.thinking /\ m.tools = l.tools
        /\ m.textOpen = l.textOpen /\ m.thinkingOpen = l.thinkingOpen
        /\ Len(m.blocks) = Len(l.blocks)
        /\ \A d \in open : m.blocks[d].type = l.blocks[d].type
    BY <1>2, <1>3 DEF Extended, SameContent
  <2> QED BY <1>1, <2>1 DEF Owned
<1>5. \A d \in open : HasOwner(m, d)
  <2> SUFFICES ASSUME NEW d \in open PROVE HasOwner(m, d)
      OBVIOUS
  <2>1. HasOwner(l, d)
    BY DEF Coherent
  <2> QED BY <1>2, <2>1 DEF HasOwner, Extended, SameContent
<1>6. SameTools(l, m)
  BY <1>2, <1>3 DEF SameTools, HasTool, Extended
<1> QED BY <1>2, <1>4, <1>5, <1>6 DEF Coherent, m

LEMMA FlagKeeps ==
    ASSUME NEW N, NEW s, NEW l, NEW open, Coherent(N, s, l, open)
    PROVE  /\ Coherent(N, s, [l EXCEPT !.said = TRUE], open)
           /\ Coherent(N, s, [l EXCEPT !.thought = TRUE], open)
           /\ SameTools(l, [l EXCEPT !.said = TRUE]) /\ SameTools(l, [l EXCEPT !.thought = TRUE])
<1>1. l \in Ledger
  BY DEF Coherent, Produced
<1> SUFFICES ASSUME NEW m \in {[l EXCEPT !.said = TRUE], [l EXCEPT !.thought = TRUE]}
             PROVE  Coherent(N, s, m, open) /\ SameTools(l, m)
    BY Zenon
<1>2. /\ m \in Ledger /\ m.log = l.log /\ m.blocks = l.blocks /\ m.tools = l.tools
      /\ SameContent(l, m)
  BY <1>1 DEF Ledger, SameContent
<1> HIDE DEF Ledger
<1>3. Produced(N, s, m, open) /\ s \o m.log # <<>>
  BY <1>2 DEF Coherent, Produced
<1>4. Owned(m, open)
  BY <1>2 DEF Coherent, Owned, SameContent
<1>5. \A d \in open : HasOwner(m, d)
  <2> SUFFICES ASSUME NEW d \in open PROVE HasOwner(m, d)
      OBVIOUS
  <2>1. HasOwner(l, d)
    BY DEF Coherent
  <2> QED BY <1>2, <2>1 DEF HasOwner, SameContent
<1>6. SameTools(l, m)
  BY <1>2 DEF SameTools, HasTool
<1> QED BY <1>3, <1>4, <1>5, <1>6 DEF Coherent

\* emit_text_delta and emit_thinking_delta.
LEMMA SayKeeps ==
    ASSUME NEW N, NEW s, NEW l, Going(N, s, l)
    PROVE  Going(N, s, Say(l)) /\ SameTools(l, Say(l)) /\ Say(l).blocks # <<>>
<1> DEFINE k == IF l.thinkingOpen THEN StopBlock(l, l.thinking) ELSE l
           m == IF k.textOpen THEN k ELSE OpenBlock(k, "text")
           n == Delta(m, m.text, "none")
<1>1. PICK o : Coherent(N, s, k, o) /\ SameTools(l, k)
  <2>1. PICK open : Coherent(N, s, l, open)
    BY DEF Going
  <2>2. CASE l.thinkingOpen
    BY <2>1, <2>2, StopThinking DEF SameTools, HasTool
  <2>3. CASE ~ l.thinkingOpen
    BY <2>1, <2>3 DEF SameTools
  <2> QED BY <2>2, <2>3
<1> HIDE DEF k
<1>2. PICK p : Coherent(N, s, m, p) /\ m.textOpen /\ SameTools(k, m)
  <2>1. CASE k.textOpen
    BY <1>1, <2>1 DEF SameTools
  <2>2. CASE ~ k.textOpen
    <3>1. "text" \in {"text", "thinking"}
      OBVIOUS
    <3>2. /\ Coherent(N, s, OpenBlock(k, "text"), o \cup {Len(k.blocks) + 1})
          /\ OpenBlock(k, "text").textOpen
          /\ HasTool(OpenBlock(k, "text")) <=> HasTool(k)
          /\ OpenBlock(k, "text").tools = k.tools
      BY <1>1, <2>2, <3>1, OpenContent
    <3> QED BY <2>2, <3>2 DEF SameTools
  <2> QED BY <2>1, <2>2
<1>3. Say(l) = [n EXCEPT !.said = TRUE]
  BY DEF Say, EnsureText, k, m, n
<1> HIDE DEF m
<1>4. m.text \in p /\ "none" \in Args
  BY <1>2 DEF Coherent, Owned, Args
<1>5. Coherent(N, s, n, p) /\ SameTools(m, n) /\ Extended(m, n, m.text, "none")
  BY <1>2, <1>4, DeltaKeeps
<1> HIDE DEF n
<1>6. Coherent(N, s, Say(l), p) /\ SameTools(n, Say(l))
  <2>1. Coherent(N, s, [n EXCEPT !.said = TRUE], p) /\ SameTools(n, [n EXCEPT !.said = TRUE])
    BY <1>5, FlagKeeps
  <2> QED BY <1>3, <2>1
<1>7. Say(l).blocks # <<>>
  <2>1. p \subseteq 1 .. Len(Say(l).blocks)
    BY <1>6 DEF Coherent, Produced, Records
  <2>2. Len(<<>>) = 0
    OBVIOUS
  <2>3. m.text \in 1 .. Len(Say(l).blocks)
    BY <1>4, <2>1
  <2> QED BY <2>2, <2>3
<1> QED BY <1>1, <1>2, <1>5, <1>6, <1>7 DEF Going, SameTools

LEMMA ThinkKeeps ==
    ASSUME NEW N, NEW s, NEW l, Going(N, s, l)
    PROVE  Going(N, s, Think(l)) /\ SameTools(l, Think(l)) /\ Think(l).blocks # <<>>
<1> DEFINE k == IF l.textOpen THEN StopBlock(l, l.text) ELSE l
           m == IF k.thinkingOpen THEN k ELSE OpenBlock(k, "thinking")
           n == Delta(m, m.thinking, "none")
<1>1. PICK o : Coherent(N, s, k, o) /\ SameTools(l, k)
  <2>1. PICK open : Coherent(N, s, l, open)
    BY DEF Going
  <2>2. CASE l.textOpen
    BY <2>1, <2>2, StopText DEF SameTools, HasTool
  <2>3. CASE ~ l.textOpen
    BY <2>1, <2>3 DEF SameTools
  <2> QED BY <2>2, <2>3
<1> HIDE DEF k
<1>2. PICK p : Coherent(N, s, m, p) /\ m.thinkingOpen /\ SameTools(k, m)
  <2>1. CASE k.thinkingOpen
    BY <1>1, <2>1 DEF SameTools
  <2>2. CASE ~ k.thinkingOpen
    <3>1. "thinking" \in {"text", "thinking"}
      OBVIOUS
    <3>2. /\ Coherent(N, s, OpenBlock(k, "thinking"), o \cup {Len(k.blocks) + 1})
          /\ OpenBlock(k, "thinking").thinkingOpen
          /\ HasTool(OpenBlock(k, "thinking")) <=> HasTool(k)
          /\ OpenBlock(k, "thinking").tools = k.tools
      BY <1>1, <2>2, <3>1, OpenContent
    <3> QED BY <2>2, <3>2 DEF SameTools
  <2> QED BY <2>1, <2>2
<1>3. Think(l) = [n EXCEPT !.thought = TRUE]
  BY DEF Think, EnsureThinking, k, m, n
<1> HIDE DEF m
<1>4. m.thinking \in p /\ "none" \in Args
  BY <1>2 DEF Coherent, Owned, Args
<1>5. Coherent(N, s, n, p) /\ SameTools(m, n) /\ Extended(m, n, m.thinking, "none")
  BY <1>2, <1>4, DeltaKeeps
<1> HIDE DEF n
<1>6. Coherent(N, s, Think(l), p) /\ SameTools(n, Think(l))
  <2>1. Coherent(N, s, [n EXCEPT !.thought = TRUE], p) /\ SameTools(n, [n EXCEPT !.thought = TRUE])
    BY <1>5, FlagKeeps
  <2> QED BY <1>3, <2>1
<1>7. Think(l).blocks # <<>>
  <2>1. p \subseteq 1 .. Len(Think(l).blocks)
    BY <1>6 DEF Coherent, Produced, Records
  <2>2. Len(<<>>) = 0
    OBVIOUS
  <2>3. m.thinking \in 1 .. Len(Think(l).blocks)
    BY <1>4, <2>1
  <2> QED BY <2>2, <2>3
<1> QED BY <1>1, <1>2, <1>5, <1>6, <1>7 DEF Going, SameTools

\* A tool without a call: it is open only meanwhile.
LEMMA HeuristicToolKeeps ==
    ASSUME NEW N, NEW s, NEW l, Going(N, s, l), NEW args \in Args
    PROVE  Going(N, s, HeuristicTool(l, args)) /\ HeuristicTool(l, args).blocks # <<>>
<1> DEFINE k == CloseContent(l)
           m == OpenBlock(k, "tool")
           b == Len(m.blocks)
           n == Delta(m, b, args)
           r == StopBlock(n, b)
<1>1. PICK o : Coherent(N, s, k, o) /\ ~ k.textOpen /\ ~ k.thinkingOpen
  BY CloseContentDoes DEF Going
<1> HIDE DEF k
<1>2. Produced(N, s, k, o) /\ Owned(k, o) /\ "tool" \in BlockTypes
  BY <1>1 DEF Coherent, BlockTypes
<1>3. /\ Produced(N, s, m, o \cup {b}) /\ b \in Nat \ {0} /\ b \notin o
      /\ s \o m.log # <<>> /\ Opened(k, m, "tool")
  <2>1. /\ Produced(N, s, m, o \cup {Len(k.blocks) + 1}) /\ Len(k.blocks) + 1 \in Nat \ {0}
        /\ Len(k.blocks) + 1 \notin o /\ s \o m.log # <<>> /\ Opened(k, m, "tool")
    BY <1>1, <1>2, OpenBlockDoes DEF Coherent
  <2> HIDE DEF m
  <2>2. b = Len(k.blocks) + 1
    BY <2>1 DEF Opened
  <2> QED BY <2>1, <2>2
<1> HIDE DEF m
<1>4. Produced(N, s, n, o \cup {b}) /\ Extended(m, n, b, args)
  <2>1. b \in o \cup {b}
    OBVIOUS
  <2> HIDE DEF b
  <2> QED BY <1>3, <2>1, DeltaDoes
<1> HIDE DEF n
<1>5. Produced(N, s, r, o) /\ s \o r.log # <<>> /\ Stopped(n, r, b)
  <2>1. b \in o \cup {b} /\ (o \cup {b}) \ {b} = o
    BY <1>3
  <2> HIDE DEF b
  <2> QED BY <1>4, <2>1, StopBlockDoes
<1>6. /\ o \subseteq 1 .. Len(k.blocks) /\ Len(k.blocks) \in Nat
      /\ b \in 1 .. Len(n.blocks) /\ Len(n.blocks) = Len(k.blocks) + 1
      /\ \A d \in 0 .. Len(k.blocks) : d \in 0 .. Len(k.blocks) + 1
  <2>1. o \subseteq 1 .. Len(k.blocks) /\ Len(k.blocks) \in Nat
    BY <1>2, ProducedTypes
  <2> QED BY <1>3, <1>4, <2>1 DEF Opened, Extended
<1> HIDE DEF r, b
<1>7. /\ r.tools = k.tools /\ r.text = k.text /\ r.thinking = k.thinking
      /\ ~ r.textOpen /\ ~ r.thinkingOpen /\ r.blocks = n.blocks
  BY <1>1, <1>3, <1>4, <1>5 DEF Opened, Extended, Stopped, SameContent
<1>8. \A d \in o : r.blocks[d].type = k.blocks[d].type
  <2>1. \A d \in 1 .. Len(k.blocks) : m.blocks[d] = k.blocks[d] /\ d \in 1 .. Len(m.blocks)
    BY <1>3, <1>6 DEF Opened
  <2> QED BY <1>4, <1>6, <1>7, <2>1 DEF Extended
<1>9. Owned(r, o)
  <2>1. r.text \in 0 .. Len(r.blocks) /\ r.thinking \in 0 .. Len(r.blocks)
    BY <1>2, <1>6, <1>7 DEF Owned
  <2>2. \A c \in Calls : r.tools[c].block # 0 =>
          /\ r.tools[c].block \in o /\ r.blocks[r.tools[c].block].type = "tool"
          /\ r.tools[c].kind \in ToolKind
    BY <1>2, <1>7, <1>8 DEF Owned
  <2>3. /\ \A c, d \in Calls :
             r.tools[c].block = r.tools[d].block /\ c # d => r.tools[c].block = 0
        /\ \A c \in Calls : r.tools[c].held => r.tools[c].block # 0
    BY <1>2, <1>7 DEF Owned
  <2> QED BY <1>7, <2>1, <2>2, <2>3 DEF Owned
<1>10. \A d \in o : HasOwner(r, d)
  <2>1. \A d \in o : HasOwner(k, d)
    BY <1>1 DEF Coherent
  <2> QED BY <1>1, <1>7, <2>1 DEF HasOwner
<1>11. Going(N, s, r)
  BY <1>5, <1>9, <1>10 DEF Going, Coherent
<1>12. r.blocks # <<>>
  <2>1. Len(<<>>) = 0
    OBVIOUS
  <2> QED BY <1>6, <1>7, <2>1
<1> QED BY <1>11, <1>12 DEF HeuristicTool, r, n, b, m, k

\* What is known of the calls may change, except for their blocks.
LEMMA ToolsKeep ==
    ASSUME NEW N, NEW s, NEW l, NEW open, Coherent(N, s, l, open), NEW tools \in [Calls -> CallState],
           \A c \in Calls :
             /\ tools[c].block = l.tools[c].block
             /\ tools[c].held => tools[c].block # 0
             /\ tools[c].block # 0 => tools[c].kind \in ToolKind
    PROVE  Coherent(N, s, [l EXCEPT !.tools = tools], open)
<1> DEFINE m == [l EXCEPT !.tools = tools]
<1>1. l \in Ledger /\ Owned(l, open)
  BY DEF Coherent, Produced
<1>2. /\ m \in Ledger /\ m.log = l.log /\ m.blocks = l.blocks /\ m.tools = tools
      /\ m.text = l.text /\ m.thinking = l.thinking
      /\ m.textOpen = l.textOpen /\ m.thinkingOpen = l.thinkingOpen
  BY <1>1 DEF Ledger
<1> HIDE DEF m
<1>3. Produced(N, s, m, open) /\ s \o m.log # <<>>
  BY <1>2 DEF Coherent, Produced
<1>4. Owned(m, open)
  BY <1>1, <1>2 DEF Owned
<1>5. \A d \in open : HasOwner(m, d)
  <2>1. \A d \in open : HasOwner(l, d)
    BY DEF Coherent
  <2> QED BY <1>2, <2>1 DEF HasOwner
<1> QED BY <1>3, <1>4, <1>5 DEF Coherent, m

\* process_tool_call up to the arguments: a call keeps its block, or gets a new one.
LEMMA NameCallKeeps ==
    ASSUME NEW N, NEW s, NEW l, Going(N, s, l), NEW c \in Calls, NEW kind \in ToolKind \cup {"unnamed"}
    PROVE  Going(N, s, NameCall(l, c, kind))
<1> DEFINE k == CloseContent(l)
           tools == [k.tools EXCEPT ![c].kind = IF @ = "unnamed" THEN kind ELSE @]
           m == [k EXCEPT !.tools = tools]
           n == OpenBlock(m, "tool")
           b == Len(m.blocks) + 1
           more == [n.tools EXCEPT ![c].block = b]
           r == [n EXCEPT !.tools = more]
<1>1. PICK o : Coherent(N, s, k, o) /\ ~ k.textOpen /\ ~ k.thinkingOpen
  BY CloseContentDoes DEF Going
<1>2. k \in Ledger /\ Owned(k, o)
  BY <1>1 DEF Coherent, Produced
<1>3. m = [k EXCEPT !.tools[c].kind = IF @ = "unnamed" THEN kind ELSE @]
  BY <1>2 DEF Ledger
<1>4. r = [n EXCEPT !.tools[c].block = Len(m.blocks) + 1]
  OBVIOUS
<1>5. NameCall(l, c, kind) =
        IF m.tools[c].kind = "unnamed" \/ m.tools[c].block # 0 THEN m ELSE r
  BY <1>3, <1>4 DEF NameCall
<1> HIDE DEF k
<1>6. /\ tools \in [Calls -> CallState]
      /\ \A d \in Calls : /\ tools[d].block = k.tools[d].block
                          /\ tools[d].held = k.tools[d].held
                          /\ k.tools[d].kind \in ToolKind => tools[d].kind = k.tools[d].kind
  <2>1. k.tools \in [Calls -> CallState]
    BY <1>2 DEF Ledger
  <2>2. "unnamed" \notin ToolKind
    BY DEF ToolKind
  <2> HIDE DEF ToolKind
  <2> QED BY <2>1, <2>2 DEF CallState
<1> HIDE DEF tools
<1>7. Coherent(N, s, m, o)
  <2>1. \A d \in Calls : /\ tools[d].block = k.tools[d].block
                         /\ tools[d].held => tools[d].block # 0
                         /\ tools[d].block # 0 => tools[d].kind \in ToolKind
    BY <1>2, <1>6 DEF Owned
  <2> QED BY <1>1, <1>6, <2>1, ToolsKeep
<1>8. ~ m.textOpen /\ ~ m.thinkingOpen /\ m.tools \in [Calls -> CallState]
  BY <1>1, <1>2, <1>6 DEF Ledger
<1> HIDE DEF m
<1>9. CASE ~ (m.tools[c].kind = "unnamed" \/ m.tools[c].block # 0)
  <2>1. m.tools[c].kind \in ToolKind /\ m.tools[c].block = 0 /\ ~ m.tools[c].held
    <3>1. m.tools[c] \in CallState /\ Owned(m, o)
      BY <1>7, <1>8 DEF Coherent
    <3> QED BY <1>9, <3>1 DEF Owned, CallState
  <2>2. Produced(N, s, m, o) /\ s \o m.log # <<>> /\ "tool" \in BlockTypes /\ Owned(m, o)
    BY <1>7 DEF Coherent, BlockTypes
  <2>3. /\ Produced(N, s, n, o \cup {b}) /\ b \in Nat \ {0} /\ b \notin o
        /\ s \o n.log # <<>> /\ Opened(m, n, "tool")
    BY <2>2, OpenBlockDoes
  <2> HIDE DEF n
  <2>4. /\ n.tools = m.tools /\ n.text = m.text /\ n.thinking = m.thinking
        /\ ~ n.textOpen /\ ~ n.thinkingOpen
        /\ Len(n.blocks) = b /\ n.blocks[b].type = "tool"
        /\ \A d \in 1 .. Len(m.blocks) : n.blocks[d] = m.blocks[d]
    BY <1>8, <2>3 DEF Opened
  <2>5. n \in Ledger
    BY <2>3 DEF Produced
  <2>6. /\ more \in [Calls -> CallState]
        /\ more[c].block = b /\ more[c].kind = m.tools[c].kind /\ ~ more[c].held
        /\ \A d \in Calls : d # c => more[d] = m.tools[d]
    <3>1. n.tools \in [Calls -> CallState] /\ n.tools[c] \in CallState
      BY <1>8, <2>4
    <3>2. more[c] = [n.tools[c] EXCEPT !.block = b]
      BY <3>1
    <3>3. more[c] \in CallState /\ more[c].block = b /\ more[c].kind = n.tools[c].kind
          /\ more[c].held = n.tools[c].held
      BY <2>3, <3>1, <3>2 DEF CallState
    <3> HIDE DEF b
    <3> QED BY <2>1, <2>4, <3>1, <3>3
  <2>7. /\ o \subseteq 1 .. Len(m.blocks) /\ Len(m.blocks) \in Nat
        /\ \A d \in 0 .. Len(m.blocks) : d \in 0 .. Len(m.blocks) + 1
    BY <2>2, ProducedTypes
  <2> HIDE DEF more
  <2>8. /\ r \in Ledger /\ r.log = n.log /\ r.blocks = n.blocks /\ r.tools = more
        /\ r.text = n.text /\ r.thinking = n.thinking
        /\ ~ r.textOpen /\ ~ r.thinkingOpen
    BY <2>4, <2>5, <2>6 DEF Ledger
  <2> HIDE DEF r
  <2>9. Produced(N, s, r, o \cup {b}) /\ s \o r.log # <<>>
    BY <2>3, <2>8 DEF Produced
  <2>10. Owned(r, o \cup {b})
    <3>1. r.text \in 0 .. Len(r.blocks) /\ r.thinking \in 0 .. Len(r.blocks)
      BY <2>2, <2>4, <2>7, <2>8 DEF Owned
    <3>2. \A d \in Calls : r.tools[d].block # 0 =>
            /\ r.tools[d].block \in o \cup {b} /\ r.blocks[r.tools[d].block].type = "tool"
            /\ r.tools[d].kind \in ToolKind
      <4> SUFFICES ASSUME NEW d \in Calls, r.tools[d].block # 0
                   PROVE  /\ r.tools[d].block \in o \cup {b}
                          /\ r.blocks[r.tools[d].block].type = "tool"
                          /\ r.tools[d].kind \in ToolKind
          OBVIOUS
      <4>1. CASE d = c
        BY <2>1, <2>4, <2>6, <2>8, <4>1
      <4>2. CASE d # c
        <5>1. m.tools[d].block \in o /\ m.blocks[m.tools[d].block].type = "tool"
              /\ m.tools[d].kind \in ToolKind
          BY <2>2, <2>6, <2>8, <4>2 DEF Owned
        <5> QED BY <2>4, <2>6, <2>7, <2>8, <4>2, <5>1
      <4> QED BY <4>1, <4>2
    <3>3. \A d, e \in Calls :
            r.tools[d].block = r.tools[e].block /\ d # e => r.tools[d].block = 0
      <4>1. \A d \in Calls : d # c => r.tools[d].block # b
        <5>1. 0 # b
          BY <2>3
        <5> HIDE DEF b
        <5> QED BY <2>2, <2>3, <2>6, <2>8, <5>1 DEF Owned
      <4> QED BY <2>2, <2>6, <2>8, <4>1 DEF Owned
    <3>4. \A d \in Calls : r.tools[d].held => r.tools[d].block # 0
      BY <2>2, <2>6, <2>8 DEF Owned
    <3> QED BY <2>8, <3>1, <3>2, <3>3, <3>4 DEF Owned
  <2>11. \A d \in o \cup {b} : HasOwner(r, d)
    <3>1. HasOwner(r, b)
      BY <2>6, <2>8 DEF HasOwner
    <3>2. ASSUME NEW d \in o PROVE HasOwner(r, d)
      <4>1. PICK e \in Calls : m.tools[e].block = d
        BY <1>7, <1>8 DEF Coherent, HasOwner
      <4>2. e # c
        <5>1. 0 \notin o
          BY <2>7
        <5> QED BY <2>1, <4>1, <5>1
      <4> QED BY <2>6, <2>8, <4>1, <4>2 DEF HasOwner
    <3> QED BY <3>1, <3>2
  <2> QED BY <1>5, <1>9, <2>9, <2>10, <2>11 DEF Going, Coherent
<1>10. CASE m.tools[c].kind = "unnamed" \/ m.tools[c].block # 0
  BY <1>5, <1>7, <1>10 DEF Going
<1> QED BY <1>9, <1>10

\* _emit_tool_arg_delta, for a call that has a block.
LEMMA GiveArgsKeeps ==
    ASSUME NEW N, NEW s, NEW l, Going(N, s, l), NEW c \in Calls, l.tools[c].block # 0,
           NEW args \in Outcomes(l, c)
    PROVE  Going(N, s, [GiveArgs(l, c, args) EXCEPT !.tools[c].early = FALSE])
<1> DEFINE b == l.tools[c].block
           d == Delta(l, b, args)
           done == l.tools[c].kind = "task"
           first == [d.tools EXCEPT ![c] = [@ EXCEPT !.held = FALSE, !.done = done]]
           fed == [first EXCEPT ![c] = [@ EXCEPT !.early = FALSE]]
           kept  == [l.tools EXCEPT ![c] = [@ EXCEPT !.held = ~ l.tools[c].done, !.early = FALSE]]
           m == [GiveArgs(l, c, args) EXCEPT !.tools[c].early = FALSE]
<1>1. PICK open : Coherent(N, s, l, open)
  BY DEF Going
<1>2. /\ l \in Ledger /\ l.tools \in [Calls -> CallState]
      /\ \A e \in Calls : l.tools[e].held => l.tools[e].block # 0
      /\ \A e \in Calls : l.tools[e].block # 0 => l.tools[e].kind \in ToolKind
      /\ b \in open
  BY <1>1 DEF Coherent, Produced, Owned, Ledger
<1>3. args \in Args
  BY <1>2 DEF Outcomes, Args, ToolKind
<1>4. CASE args # "none"
  <2>1. Coherent(N, s, d, open) /\ d.tools = l.tools
    BY <1>1, <1>2, <1>3, DeltaKeeps DEF SameTools
  <2>2. d \in Ledger
    BY <2>1 DEF Coherent, Produced
  <2>3. m = [d EXCEPT !.tools = fed]
    <3>1. m = [[d EXCEPT !.tools[c].held = FALSE, !.tools[c].done = done]
                 EXCEPT !.tools[c].early = FALSE]
      BY <1>4 DEF GiveArgs
    <3> DEFINE k == [d EXCEPT !.tools[c].held = FALSE, !.tools[c].done = done]
    <3>2. d.tools \in [Calls -> CallState] /\ d.tools[c] \in CallState
      BY <1>2, <2>1
    <3>3. done \in BOOLEAN
      OBVIOUS
    <3> HIDE DEF d, m, done
    <3>4. k = [d EXCEPT !.tools = first]
      BY <2>2, <3>2 DEF Ledger
    <3>5. first \in [Calls -> CallState]
      BY <3>2, <3>3 DEF CallState
    <3> HIDE DEF first
    <3>6. m = [[d EXCEPT !.tools = first] EXCEPT !.tools[c].early = FALSE]
      BY <3>1, <3>4
    <3> QED BY <2>2, <3>5, <3>6 DEF Ledger
  <2> HIDE DEF d, m
  <2>4. /\ fed \in [Calls -> CallState]
        /\ \A e \in Calls : /\ fed[e].block = l.tools[e].block
                            /\ fed[e].kind = l.tools[e].kind
                            /\ fed[e].held => l.tools[e].held
    <3>1. done \in BOOLEAN
      OBVIOUS
    <3> HIDE DEF done
    <3>2. /\ first \in [Calls -> CallState]
          /\ \A e \in Calls : /\ first[e].block = l.tools[e].block
                              /\ first[e].kind = l.tools[e].kind
                              /\ first[e].held => l.tools[e].held
      BY <1>2, <2>1, <3>1 DEF CallState
    <3> HIDE DEF first
    <3> QED BY <3>2 DEF CallState
  <2> HIDE DEF fed
  <2>5. Coherent(N, s, m, open)
    <3>1. \A e \in Calls : /\ fed[e].block = d.tools[e].block
                           /\ fed[e].held => fed[e].block # 0
                           /\ fed[e].block # 0 => fed[e].kind \in ToolKind
      BY <1>2, <2>1, <2>4
    <3> QED BY <2>1, <2>3, <2>4, <3>1, ToolsKeep
  <2> QED BY <2>5 DEF Going, m
<1>5. CASE args = "none"
  <2>1. m = [l EXCEPT !.tools = kept]
    <3>1. m = [[l EXCEPT !.tools[c].held = ~ l.tools[c].done] EXCEPT !.tools[c].early = FALSE]
      BY <1>5 DEF GiveArgs
    <3> HIDE DEF m
    <3> QED BY <1>2, <3>1 DEF Ledger
  <2> HIDE DEF m
  <2>2. /\ kept \in [Calls -> CallState]
        /\ \A e \in Calls : /\ kept[e].block = l.tools[e].block
                            /\ kept[e].kind = l.tools[e].kind
                            /\ e # c => kept[e].held = l.tools[e].held
    BY <1>2 DEF CallState
  <2> HIDE DEF kept
  <2>3. Coherent(N, s, m, open)
    <3>1. \A e \in Calls : /\ kept[e].block = l.tools[e].block
                           /\ kept[e].held => kept[e].block # 0
                           /\ kept[e].block # 0 => kept[e].kind \in ToolKind
      BY <1>2, <2>2
    <3> QED BY <1>1, <2>1, <2>2, <3>1, ToolsKeep
  <2> QED BY <2>3 DEF Going, m
<1> QED BY <1>4, <1>5

\* process_tool_call.
LEMMA CallDeltaKeeps ==
    ASSUME NEW N, NEW s, NEW l, Going(N, s, l), NEW c \in Calls,
           NEW kind \in ToolKind \cup {"unnamed"}, NEW hasArgs \in BOOLEAN,
           NEW r \in CallDelta(l, c, kind, hasArgs)
    PROVE  Going(N, s, r)
<1> DEFINE m == NameCall(l, c, kind)
           some  == m.tools[c].early \/ hasArgs
           ready == [m.tools EXCEPT ![c] = [@ EXCEPT !.early = some]]
<1>1. Going(N, s, m)
  BY NameCallKeeps
<1>2. \/ m.tools[c].block = 0 /\ r = [m EXCEPT !.tools[c].early = @ \/ hasArgs]
      \/ r = m
      \/ /\ m.tools[c].block # 0
         /\ \E args \in Outcomes(m, c) :
              r = [GiveArgs(m, c, args) EXCEPT !.tools[c].early = FALSE]
  BY DEF CallDelta
<1> HIDE DEF m
<1>3. CASE r = [m EXCEPT !.tools[c].early = @ \/ hasArgs]
  <2>1. PICK open : Coherent(N, s, m, open)
    BY <1>1 DEF Going
  <2>2. /\ m \in Ledger /\ m.tools \in [Calls -> CallState]
        /\ \A e \in Calls : m.tools[e].held => m.tools[e].block # 0
        /\ \A e \in Calls : m.tools[e].block # 0 => m.tools[e].kind \in ToolKind
    BY <2>1 DEF Coherent, Produced, Owned, Ledger
  <2>3. r = [m EXCEPT !.tools = ready]
    <3>1. r = [m EXCEPT !.tools[c].early = some]
      BY <1>3
    <3> HIDE DEF some
    <3> QED BY <2>2, <3>1 DEF Ledger
  <2>4. /\ ready \in [Calls -> CallState]
        /\ \A e \in Calls : /\ ready[e].block = m.tools[e].block
                            /\ ready[e].kind = m.tools[e].kind
                            /\ ready[e].held = m.tools[e].held
    <3>1. some \in BOOLEAN
      OBVIOUS
    <3> HIDE DEF some
    <3> QED BY <2>2, <3>1 DEF CallState
  <2> HIDE DEF ready
  <2>5. \A e \in Calls : /\ ready[e].block = m.tools[e].block
                         /\ ready[e].held => ready[e].block # 0
                         /\ ready[e].block # 0 => ready[e].kind \in ToolKind
    BY <2>2, <2>4
  <2> QED BY <2>1, <2>3, <2>4, <2>5, ToolsKeep DEF Going
<1> QED BY <1>1, <1>2, <1>3, GiveArgsKeeps

\* flush_tool_argument_alias_buffers and flush_task_arg_buffers: one more delta for every
\* call whose arguments are held.
LEMMA FlushHeldKeeps ==
    ASSUME NEW N, NEW s, NEW l, Going(N, s, l)
    PROVE  Going(N, s, FlushHeld(l)) /\ Len(FlushHeld(l).blocks) = Len(l.blocks)
<1> DEFINE Held(kind) == BlocksOf(l, {c \in Calls : l.tools[c].held /\ l.tools[c].kind = kind})
           aliases == Held("alias")
           tasks == Held("task")
           first == ForEach("delta", aliases)
           second == ForEach("delta", tasks)
           log == l.log \o first \o second
           Flushed(b) ==
             [l.blocks[b] EXCEPT !.args = IF b \in tasks THEN "whole" ELSE "partial",
                                 !.deltas = @ + 1]
           blocks == [b \in DOMAIN l.blocks |->
                        IF b \in tasks \cup aliases THEN Flushed(b) ELSE l.blocks[b]]
           tools == [c \in Calls |->
                       [l.tools[c] EXCEPT !.held = FALSE, !.done = @ \/ l.tools[c].block \in tasks]]
           t == s \o l.log
           m == FlushHeld(l)
<1> HIDE DEF m
<1>1. PICK open : Coherent(N, s, l, open)
  BY DEF Going
<1>2. /\ Produced(N, s, l, open) /\ t # <<>> /\ Owned(l, open)
      /\ Records(t, l.blocks, open) /\ Tally(N, t, l.blocks)
  BY <1>1 DEF Coherent, Produced
<1>3. /\ l \in Ledger /\ s \in Seq(Event) /\ l.blocks \in Seq(Block)
      /\ Len(l.blocks) \in Nat /\ open \subseteq 1 .. Len(l.blocks)
      /\ \A b \in 1 .. Len(l.blocks) : l.blocks[b] \in Block /\ b # 0
      /\ DOMAIN l.blocks = 1 .. Len(l.blocks)
      /\ \A c \in Calls : l.tools[c] \in CallState
      /\ l.log \in Seq(Event) /\ t \in Seq(Event)
  BY <1>2, ProducedTypes
<1>4. m = [l EXCEPT !.log = log, !.blocks = blocks, !.tools = tools]
  BY DEF FlushHeld, m
<1>5. /\ aliases \subseteq open /\ tasks \subseteq open
      /\ \A b \in aliases \cup tasks : l.blocks[b].type = "tool"
      /\ \A b \in aliases : b \notin tasks
  <2>1. ASSUME NEW kind, NEW b \in Held(kind)
        PROVE  \E c \in Calls : l.tools[c].block = b /\ l.tools[c].kind = kind /\ b # 0
    BY DEF BlocksOf
  <2>2. ASSUME NEW b \in aliases \cup tasks PROVE b \in open /\ l.blocks[b].type = "tool"
    <3> HIDE DEF Held
    <3>1. \E c \in Calls : l.tools[c].block = b /\ b # 0
      BY <2>1
    <3> QED BY <1>2, <3>1 DEF Owned
  <2>3. ASSUME NEW b \in aliases, b \in tasks PROVE FALSE
    <3> HIDE DEF Held
    <3>1. /\ \E c \in Calls : l.tools[c].block = b /\ l.tools[c].kind = "alias" /\ b # 0
          /\ \E d \in Calls : l.tools[d].block = b /\ l.tools[d].kind = "task"
      BY <2>1, <2>3
    <3>2. PICK c \in Calls : l.tools[c].block = b /\ l.tools[c].kind = "alias" /\ b # 0
      BY <3>1
    <3>3. PICK d \in Calls : l.tools[d].block = b /\ l.tools[d].kind = "task"
      BY <3>1
    <3> QED BY <1>2, <3>2, <3>3 DEF Owned
  <2> HIDE DEF Held
  <2> QED BY <2>2, <2>3
<1> HIDE DEF aliases, tasks
<1>6. /\ IsFiniteSet(aliases) /\ aliases \in SUBSET (Nat \ {0})
      /\ IsFiniteSet(tasks) /\ tasks \in SUBSET (Nat \ {0})
  <2>1. /\ IsFiniteSet(1 .. Len(l.blocks))
        /\ \A b \in 1 .. Len(l.blocks) : b \in Nat \ {0}
    <3> DEFINE n == Len(l.blocks)
    <3>1. n \in Nat
      BY <1>3
    <3> HIDE DEF n
    <3>2. IsFiniteSet(1 .. n) /\ \A b \in 1 .. n : b \in Nat \ {0}
      BY <3>1, FS_Interval
    <3> QED BY <3>2 DEF n
  <2>2. aliases \subseteq 1 .. Len(l.blocks) /\ tasks \subseteq 1 .. Len(l.blocks)
    BY <1>3, <1>5
  <2> QED BY <2>1, <2>2, FS_Subset
<1>7. /\ first \in Seq(Event) /\ second \in Seq(Event)
      /\ Records((t \o first) \o second, l.blocks, open)
  <2>1. "delta" \in {"delta", "stop"} /\ "delta" # "stop"
    OBVIOUS
  <2>2. aliases \in SUBSET open /\ tasks \in SUBSET open
    BY <1>5
  <2>3. first \in Seq(Event) /\ Records(t \o first, l.blocks, open)
    BY <1>2, <1>5, <2>1, <2>2, RecordsForEach
  <2>4. second \in Seq(Event) /\ Records((t \o first) \o second, l.blocks, open)
    BY <1>5, <2>1, <2>2, <2>3, RecordsForEach
  <2> QED BY <2>3, <2>4
<1>8. \A b : Deltas((t \o first) \o second, b) =
               IF b \in tasks \cup aliases THEN Deltas(t, b) + 1 ELSE Deltas(t, b)
  <2> SUFFICES ASSUME NEW b
               PROVE  Deltas((t \o first) \o second, b) =
                        IF b \in tasks \cup aliases THEN Deltas(t, b) + 1 ELSE Deltas(t, b)
      OBVIOUS
  <2> HIDE DEF t
  <2>1. "delta" \in {"delta", "stop"} /\ "delta" = "delta"
    OBVIOUS
  <2>2. Deltas(t \o first, b) = IF b \in aliases THEN Deltas(t, b) + 1 ELSE Deltas(t, b)
    BY <1>3, <1>6, <2>1, DeltasForEach
  <2>3. t \o first \in Seq(Event)
    BY <1>3, <1>7, ConcatProperties
  <2>4. Deltas((t \o first) \o second, b) =
          IF b \in tasks THEN Deltas(t \o first, b) + 1 ELSE Deltas(t \o first, b)
    <3> DEFINE u == t \o first
    <3>1. u \in Seq(Event)
      BY <2>3
    <3> HIDE DEF u
    <3>2. Deltas(u \o second, b) = IF b \in tasks THEN Deltas(u, b) + 1 ELSE Deltas(u, b)
      BY <1>6, <2>1, <3>1, DeltasForEach
    <3> QED BY <3>2 DEF u
  <2> QED BY <1>5, <2>2, <2>4
<1> HIDE DEF first, second
<1>9. log \in Seq(Event) /\ s \o log = (t \o first) \o second
  <2> DEFINE q == l.log
             r == q \o first
  <2>1. s \in Seq(Event) /\ q \in Seq(Event) /\ first \in Seq(Event) /\ second \in Seq(Event)
    BY <1>3, <1>7
  <2> HIDE DEF q
  <2>2. s \o r = (s \o q) \o first /\ r \in Seq(Event)
    BY <2>1, LogConcat, Zenon
  <2> HIDE DEF r
  <2>3. s \o (r \o second) = (s \o r) \o second /\ r \o second \in Seq(Event)
    <3>1. r \in Seq(Event)
      BY <2>2
    <3> QED BY <2>1, <3>1, LogConcat
  <2>4. log = r \o second
    BY DEF q, r
  <2>5. t = s \o q
    BY DEF q
  <2> HIDE DEF log, t
  <2> QED BY <2>2, <2>3, <2>4, <2>5
<1>10. /\ DOMAIN blocks = 1 .. Len(l.blocks)
       /\ \A b \in 1 .. Len(l.blocks) :
            /\ blocks[b] \in Block /\ blocks[b].type = l.blocks[b].type
            /\ blocks[b].deltas = IF b \in tasks \cup aliases THEN l.blocks[b].deltas + 1
                                  ELSE l.blocks[b].deltas
  <2> SUFFICES ASSUME NEW b \in 1 .. Len(l.blocks)
               PROVE  /\ blocks[b] \in Block /\ blocks[b].type = l.blocks[b].type
                      /\ blocks[b].deltas = IF b \in tasks \cup aliases THEN l.blocks[b].deltas + 1
                                            ELSE l.blocks[b].deltas
      BY <1>3
  <2> DEFINE x == l.blocks[b]
             args == IF b \in tasks THEN "whole" ELSE "partial"
  <2>1. args \in Args
    BY DEF Args
  <2>2. x \in Block
    BY <1>3
  <2>3. blocks[b] = IF b \in tasks \cup aliases
                    THEN [x EXCEPT !.args = args, !.deltas = x.deltas + 1] ELSE x
    BY <1>3
  <2> HIDE DEF x, blocks, args
  <2>4. x.deltas + 1 \in Nat
    BY <2>2 DEF Block
  <2>5. blocks[b] \in Block /\ blocks[b].type = x.type
    BY <2>1, <2>2, <2>3, <2>4 DEF Block
  <2>6. blocks[b].deltas = IF b \in tasks \cup aliases THEN x.deltas + 1 ELSE x.deltas
    BY <2>2, <2>3 DEF Block
  <2> QED BY <2>5, <2>6 DEF x
<1>11. blocks \in Seq(Block) /\ Len(blocks) = Len(l.blocks)
  <2> HIDE DEF blocks
  <2>1. blocks = [b \in 1 .. Len(l.blocks) |-> blocks[b]]
    BY <1>10 DEF blocks
  <2>2. blocks \in Seq(Block)
    <3> DEFINE n == Len(l.blocks)
    <3>1. blocks \in [1 .. n -> Block] /\ n \in Nat
      BY <1>3, <1>10, <2>1
    <3> HIDE DEF n
    <3> QED BY <3>1, SeqDef
  <2> QED BY <1>3, <1>10, <2>2, LenProperties
<1>12. /\ tools \in [Calls -> CallState]
       /\ \A c \in Calls : /\ tools[c].block = l.tools[c].block
                           /\ tools[c].kind = l.tools[c].kind /\ ~ tools[c].held
  <2> SUFFICES ASSUME NEW c \in Calls
               PROVE  /\ tools[c] \in CallState /\ tools[c].block = l.tools[c].block
                      /\ tools[c].kind = l.tools[c].kind /\ ~ tools[c].held
      OBVIOUS
  <2> DEFINE done == l.tools[c].done \/ l.tools[c].block \in tasks
  <2>1. done \in BOOLEAN
    OBVIOUS
  <2>2. tools[c] = [l.tools[c] EXCEPT !.held = FALSE, !.done = done]
    OBVIOUS
  <2> HIDE DEF tools, done
  <2> QED BY <1>3, <2>1, <2>2 DEF CallState
<1> HIDE DEF log, blocks, tools, t
<1>13. /\ m \in Ledger /\ m.log = log /\ m.blocks = blocks /\ m.tools = tools
       /\ m.text = l.text /\ m.thinking = l.thinking
       /\ m.textOpen = l.textOpen /\ m.thinkingOpen = l.thinkingOpen
  BY <1>3, <1>4, <1>9, <1>11, <1>12 DEF Ledger
<1>14. Produced(N, s, m, open) /\ s \o m.log # <<>>
  <2>1. Records(s \o m.log, blocks, open)
    <3>1. SameBlocks(l.blocks, blocks)
      BY <1>10, <1>11 DEF SameBlocks
    <3> QED BY <1>7, <1>9, <1>13, <3>1, RecordsSame
  <2>2. Tally(N, s \o m.log, blocks)
    BY <1>2, <1>8, <1>9, <1>10, <1>11, <1>13 DEF Tally
  <2>3. s \o m.log # <<>>
    <3>1. t \o first \in Seq(Event)
      BY <1>3, <1>7, ConcatProperties
    <3>2. Len((t \o first) \o second) = (Len(t) + Len(first)) + Len(second)
      BY <1>3, <1>7, <3>1, ConcatProperties
    <3>3. Len(t) \in Nat /\ Len(first) \in Nat /\ Len(second) \in Nat /\ Len(t) # 0
      BY <1>2, <1>3, <1>7, EmptySeq, LenProperties
    <3>4. Len(<<>>) = 0
      OBVIOUS
    <3> QED BY <1>9, <1>13, <3>2, <3>3, <3>4
  <2> QED BY <1>3, <1>13, <2>1, <2>2, <2>3 DEF Produced
<1>15. Owned(m, open)
  <2>1. \A b \in open : blocks[b].type = l.blocks[b].type
    BY <1>3, <1>10
  <2> QED BY <1>2, <1>11, <1>12, <1>13, <2>1 DEF Owned
<1>16. \A b \in open : HasOwner(m, b)
  <2>1. \A b \in open : HasOwner(l, b)
    BY <1>1 DEF Coherent
  <2> QED BY <1>12, <1>13, <2>1 DEF HasOwner
<1> QED BY <1>11, <1>13, <1>14, <1>15, <1>16 DEF Going, Coherent, m

\* A message gets content before it ends.
LEMMA FillKeeps ==
    ASSUME NEW N, NEW s, NEW l, Going(N, s, l)
    PROVE  Going(N, s, Fill(l)) /\ Fill(l).blocks # <<>>
<1>1. CASE Fill(l) = Say(l)
  BY <1>1, SayKeeps
<1>2. CASE Fill(l) = l /\ Generated(l)
  <2>1. PICK open : Coherent(N, s, l, open)
    BY DEF Going
  <2>2. Produced(N, s, l, open) /\ Owned(l, open)
    BY <2>1 DEF Coherent
  <2>3. /\ l.text \in 0 .. Len(l.blocks) /\ l.thinking \in 0 .. Len(l.blocks)
        /\ DOMAIN l.blocks = 1 .. Len(l.blocks) /\ Len(l.blocks) \in Nat
    BY <2>2, ProducedTypes DEF Owned
  <2>4. Len(l.blocks) # 0
    BY <1>2, <2>3 DEF Generated, HasTool
  <2>5. Len(<<>>) = 0
    OBVIOUS
  <2> QED BY <1>2, <2>4, <2>5
<1> QED BY <1>1, <1>2 DEF Fill

-----------------------------------------------------------------------------
(***************************************************************************)
(* The beginning and the ends of a message.                                *)
(***************************************************************************)
\* close_all_blocks closes what is open.
LEMMA CloseAllDoes ==
    ASSUME NEW N, NEW s, NEW l, Going(N, s, l)
    PROVE  LET m == CloseAll(l)
           IN  Produced(N, s, m, {}) /\ s \o m.log # <<>> /\ m.blocks = l.blocks
<1> DEFINE k == CloseContent(l)
           S == BlocksOf(k, Calls)
           q == ForEach("stop", S)
           t == s \o k.log
           m == CloseAll(l)
<1>1. PICK open : /\ Coherent(N, s, k, open) /\ ~ k.textOpen /\ ~ k.thinkingOpen
                  /\ k.blocks = l.blocks
  BY CloseContentDoes DEF Going
<1> HIDE DEF k
<1>2. /\ Produced(N, s, k, open) /\ t # <<>> /\ Owned(k, open)
      /\ Records(t, k.blocks, open) /\ Tally(N, t, k.blocks)
  BY <1>1 DEF Coherent, Produced
<1>3. /\ k \in Ledger /\ s \in Seq(Event) /\ k.blocks \in Seq(Block)
      /\ Len(k.blocks) \in Nat /\ open \subseteq 1 .. Len(k.blocks)
      /\ k.log \in Seq(Event) /\ t \in Seq(Event)
  BY <1>2, ProducedTypes
<1>4. S = open
  <2>1. \A b \in S : b \in open
    BY <1>2 DEF BlocksOf, Owned
  <2>2. ASSUME NEW b \in open PROVE b \in S
    <3>1. PICK c \in Calls : k.tools[c].block = b
      BY <1>1 DEF Coherent, HasOwner
    <3>2. b # 0
      BY <1>3
    <3> QED BY <3>1, <3>2 DEF BlocksOf
  <2> HIDE DEF S
  <2> QED BY <2>1, <2>2
<1>5. \A b \in S : k.blocks[b].type = "tool"
  BY <1>2 DEF BlocksOf, Owned
<1> HIDE DEF S
<1>6. "stop" \in {"delta", "stop"} /\ "stop" = "stop" /\ "stop" # "delta"
  OBVIOUS
<1>7. q \in Seq(Event) /\ Records(t \o q, k.blocks, {})
  <2>1. q \in Seq(Event) /\ Records(t \o q, k.blocks, open \ S)
    <3> HIDE DEF t
    <3> QED BY <1>2, <1>4, <1>5, <1>6, RecordsForEach
  <2> QED BY <1>4, <2>1
<1>8. Tally(N, t \o q, k.blocks)
  <2>1. IsFiniteSet(S) /\ S \in SUBSET (Nat \ {0})
    <3> DEFINE n == Len(k.blocks)
    <3>1. n \in Nat /\ S \subseteq 1 .. n
      BY <1>3, <1>4
    <3> HIDE DEF n
    <3>2. IsFiniteSet(1 .. n) /\ \A b \in 1 .. n : b \in Nat \ {0}
      BY <3>1, FS_Interval
    <3> QED BY <3>1, <3>2, FS_Subset
  <2> HIDE DEF t
  <2>2. \A b : Deltas(t \o q, b) = Deltas(t, b)
    BY <1>3, <1>6, <2>1, DeltasForEach
  <2> QED BY <1>2, <2>2 DEF Tally
<1> HIDE DEF q
<1>9. s \o (k.log \o q) = t \o q /\ k.log \o q \in Seq(Event)
  BY <1>3, <1>7, LogConcat
<1>10. m = [k EXCEPT !.log = k.log \o q]
  BY DEF CloseAll, k, q, S
<1>11. t \o q # <<>>
  <2> HIDE DEF t
  <2>1. Len(t \o q) = Len(t) + Len(q) /\ Len(t) \in Nat /\ Len(q) \in Nat /\ Len(t) # 0
    BY <1>2, <1>3, <1>7, ConcatFacts, EmptySeq
  <2>2. Len(<<>>) = 0
    OBVIOUS
  <2> QED BY <2>1, <2>2
<1> HIDE DEF m, t
<1>12. m \in Ledger /\ m.log = k.log \o q /\ m.blocks = k.blocks
  BY <1>3, <1>9, <1>10 DEF Ledger
<1> QED BY <1>1, <1>3, <1>7, <1>8, <1>9, <1>11, <1>12 DEF Produced, m

\* An event of the message that is not its last.
LEMMA OtherDoes ==
    ASSUME NEW N, NEW s, NEW l, NEW open, Produced(N, s, l, open), s \o l.log # <<>>,
           NEW kind \in {"usage", "error"}
    PROVE  LET m == Emit(l, kind, 0, "message")
           IN  Produced(N, s, m, open) /\ s \o m.log # <<>> /\ m.blocks = l.blocks
<1> DEFINE m == Emit(l, kind, 0, "message")
           e == [kind |-> kind, block |-> 0, type |-> "message"]
           t == s \o l.log
<1>1. /\ l \in Ledger /\ s \in Seq(Event) /\ l.log \in Seq(Event)
      /\ Records(t, l.blocks, open) /\ Tally(N, t, l.blocks) /\ t # <<>>
  BY DEF Produced, Ledger
<1>2. e \in Event /\ e.kind = kind
  BY DEF Event
<1>3. m = [l EXCEPT !.log = Append(l.log, e)]
  BY DEF Emit
<1> HIDE DEF e, t, m
<1>4. s \o Append(l.log, e) = Append(t, e) /\ Append(l.log, e) \in Seq(Event) /\ t \in Seq(Event)
  BY <1>1, <1>2, LogAppend, ConcatProperties DEF t
<1>5. m \in Ledger /\ m.log = Append(l.log, e) /\ m.blocks = l.blocks
  BY <1>1, <1>3, <1>4 DEF Ledger
<1>6. Records(Append(t, e), l.blocks, open)
  BY <1>1, <1>2, RecordsOther
<1>7. Tally(N, Append(t, e), l.blocks)
  <2>1. \A d : Deltas(Append(t, e), d) = Deltas(t, d)
    BY <1>2, <1>4, DeltasAppend
  <2> QED BY <1>1, <2>1 DEF Tally
<1>8. Append(t, e) # <<>>
  BY <1>2, <1>4, AppendProperties
<1> QED BY <1>1, <1>4, <1>5, <1>6, <1>7, <1>8 DEF Produced, m

\* The events t are a whole message, with all of those blocks.
Complete(t, blocks) ==
    /\ WellFormed(t)
    /\ \A b \in 1 .. Len(blocks) :
         /\ \E k \in 1 .. Len(t) : Is(t, k, "open", b)
         /\ \E k \in 1 .. Len(t) : Is(t, k, "stop", b)
         /\ Deltas(t, b) = blocks[b].deltas

LEMMA EndDoes ==
    ASSUME NEW N, NEW s, NEW l, Produced(N, s, l, {}), s \o l.log # <<>>, l.blocks # <<>>
    PROVE  LET m == EndMessage(Usage(l))
           IN  /\ m \in Ledger /\ m.blocks = l.blocks
               /\ m.log \in Seq(Event) /\ WellFormed(s \o m.log)
               /\ N = Nat => Complete(s \o m.log, m.blocks)
<1> DEFINE k == Usage(l)
           m == EndMessage(k)
           e == [kind |-> "end", block |-> 0, type |-> "message"]
           t == s \o k.log
<1>1. Produced(N, s, k, {}) /\ t # <<>> /\ k.blocks = l.blocks
  BY OtherDoes DEF Usage
<1> HIDE DEF k
<1>2. /\ k \in Ledger /\ s \in Seq(Event) /\ k.log \in Seq(Event) /\ k.blocks \in Seq(Block)
      /\ Records(t, k.blocks, {}) /\ Tally(N, t, k.blocks) /\ k.blocks # <<>>
  BY <1>1 DEF Produced, Ledger
<1>3. e \in Event /\ e.kind = "end"
  BY DEF Event
<1>4. m = [k EXCEPT !.log = Append(k.log, e)]
  BY DEF EndMessage, Emit
<1> HIDE DEF e, t, m
<1>5. s \o Append(k.log, e) = Append(t, e) /\ Append(k.log, e) \in Seq(Event) /\ t \in Seq(Event)
  BY <1>2, <1>3, LogAppend, ConcatProperties DEF t
<1>6. m \in Ledger /\ m.log = Append(k.log, e) /\ m.blocks = k.blocks
  BY <1>2, <1>4, <1>5 DEF Ledger
<1>7. WellFormed(Append(t, e))
  BY <1>2, <1>3, RecordsEnd
<1>8. ASSUME N = Nat PROVE Complete(Append(t, e), k.blocks)
  <2>1. /\ Len(Append(t, e)) = Len(t) + 1 /\ Len(t) \in Nat
        /\ \A i \in 1 .. Len(t) : Append(t, e)[i] = t[i] /\ i \in 1 .. Len(t) + 1
    BY <1>3, <1>5, AppendFacts
  <2> SUFFICES ASSUME NEW b \in 1 .. Len(k.blocks)
               PROVE  /\ \E i \in 1 .. Len(Append(t, e)) : Is(Append(t, e), i, "open", b)
                      /\ \E i \in 1 .. Len(Append(t, e)) : Is(Append(t, e), i, "stop", b)
                      /\ Deltas(Append(t, e), b) = k.blocks[b].deltas
      BY <1>7 DEF Complete
  <2>2. /\ \E i \in 1 .. Len(t) : Is(t, i, "open", b)
        /\ \E i \in 1 .. Len(t) : Is(t, i, "stop", b)
    BY <1>2 DEF Records
  <2>3. Deltas(t, b) = k.blocks[b].deltas
    <3>1. b \in Nat
      BY <1>2, LenProperties
    <3> QED BY <1>2, <1>8, <3>1 DEF Tally
  <2>4. Deltas(Append(t, e), b) = Deltas(t, b)
    BY <1>3, <1>5, DeltasAppend
  <2> QED BY <2>1, <2>2, <2>3, <2>4 DEF Is
<1> QED BY <1>1, <1>5, <1>6, <1>7, <1>8 DEF m, k

LEMMA SuccessTailDoes ==
    ASSUME NEW N, NEW s, NEW l, Going(N, s, l), l.blocks # <<>>
    PROVE  LET m == SuccessTail(l)
           IN  /\ m \in Ledger /\ m.blocks = l.blocks
               /\ m.log \in Seq(Event) /\ WellFormed(s \o m.log)
               /\ N = Nat => Complete(s \o m.log, m.blocks)
<1> DEFINE k == CloseAll(l)
<1>1. Produced(N, s, k, {}) /\ s \o k.log # <<>> /\ k.blocks = l.blocks
  BY CloseAllDoes
<1>2. SuccessTail(l) = EndMessage(Usage(k))
  BY DEF SuccessTail
<1> HIDE DEF k
<1> QED BY <1>1, <1>2, EndDoes

\* emit_error_tail.
LEMMA ErrorTailDoes ==
    ASSUME NEW N, NEW s, NEW l, Going(N, s, l)
    PROVE  /\ ErrorTail(l) \in Ledger /\ ErrorTail(l).log \in Seq(Event)
           /\ WellFormed(s \o ErrorTail(l).log)
<1> DEFINE m     == CloseAll(l)
           shown == OpenBlock(m, "text")
           b     == Len(shown.blocks)
           told  == Delta(shown, b, "none")
           said  == [told EXCEPT !.said = TRUE]
           r     == IF HasTool(m) THEN TopLevelError(m) ELSE StopBlock(said, b)
<1>1. Produced(N, s, m, {}) /\ s \o m.log # <<>>
  BY CloseAllDoes
<1>2. ErrorTail(l) = EndMessage(Usage(r))
  BY DEF ErrorTail
<1> HIDE DEF m
<1>3. Produced(N, s, r, {}) /\ s \o r.log # <<>> /\ r.blocks # <<>>
  <2>1. CASE HasTool(m)
    <3>1. Produced(N, s, TopLevelError(m), {}) /\ s \o TopLevelError(m).log # <<>>
          /\ TopLevelError(m).blocks = m.blocks
      BY <1>1, OtherDoes DEF TopLevelError
    <3>2. m.blocks # <<>>
      BY <2>1 DEF HasTool
    <3> QED BY <2>1, <3>1, <3>2
  <2>2. CASE ~ HasTool(m)
    <3>1. "text" \in BlockTypes /\ "none" \in Args
      BY DEF BlockTypes, Args
    <3>2. Produced(N, s, shown, {b})
      <4>1. /\ Produced(N, s, shown, {} \cup {Len(m.blocks) + 1})
            /\ Opened(m, shown, "text")
        BY <1>1, <3>1, OpenBlockDoes
      <4>2. Len(shown.blocks) = Len(m.blocks) + 1
        BY <4>1 DEF Opened
      <4>3. {} \cup {Len(m.blocks) + 1} = {Len(m.blocks) + 1}
        OBVIOUS
      <4> QED BY <4>1, <4>2, <4>3
    <3> HIDE DEF shown
    <3>3. b \in {b}
      OBVIOUS
    <3> HIDE DEF b
    <3>4. Produced(N, s, told, {b})
      BY <3>1, <3>2, <3>3, DeltaDoes
    <3> HIDE DEF told
    <3>5. Produced(N, s, said, {b})
      <4>1. told \in Ledger
        BY <3>4 DEF Produced
      <4>2. said \in Ledger /\ said.log = told.log /\ said.blocks = told.blocks
        BY <4>1 DEF Ledger
      <4> QED BY <3>4, <4>2 DEF Produced
    <3> HIDE DEF said
    <3>6. /\ Produced(N, s, StopBlock(said, b), {b} \ {b})
          /\ s \o StopBlock(said, b).log # <<>> /\ Stopped(said, StopBlock(said, b), b)
      BY <3>3, <3>5, StopBlockDoes
    <3>7. {b} \ {b} = {}
      OBVIOUS
    <3>8. b \in 1 .. Len(StopBlock(said, b).blocks)
      BY <3>5, <3>6 DEF Produced, Records, Stopped
    <3>9. StopBlock(said, b).blocks # <<>>
      <4>1. Len(<<>>) = 0
        OBVIOUS
      <4> QED BY <3>8, <4>1
    <3> QED BY <2>2, <3>6, <3>7, <3>9
  <2> QED BY <2>1, <2>2
<1> HIDE DEF r
<1> QED BY <1>2, <1>3, EndDoes

\* _new_ledger and message_start.
LEMMA StartDoes == Going(Nat, <<>>, StartMessage(NewLedger))
<1> DEFINE e == [kind |-> "start", block |-> 0, type |-> "message"]
           m == StartMessage(NewLedger)
<1>1. e \in Event /\ e.kind = "start"
  BY DEF Event
<1>2. m = [NewLedger EXCEPT !.log = Append(<<>>, e), !.started = TRUE]
  BY DEF StartMessage, Emit, NewLedger
<1>3. Append(<<>>, e) \in Seq(Event) /\ <<>> \in Seq(Event) /\ <<>> \in Seq(Block)
      /\ Append(<<>>, e) # <<>>
  <2> HIDE DEF e
  <2>1. <<>> \in Seq(Event) /\ <<>> \in Seq(Block)
    BY EmptySeq
  <2> QED BY <1>1, <2>1, AppendProperties
<1>4. /\ m \in Ledger /\ m.log = Append(<<>>, e) /\ m.blocks = <<>>
      /\ m.text = 0 /\ m.thinking = 0 /\ ~ m.textOpen /\ ~ m.thinkingOpen
      /\ \A c \in Calls : m.tools[c].block = 0 /\ ~ m.tools[c].held
  <2> HIDE DEF e, m
  <2>1. NoCall \in CallState /\ NoCall.block = 0 /\ ~ NoCall.held
    BY DEF NoCall, CallState, ToolKind
  <2>2. /\ NewLedger \in Ledger /\ NewLedger.blocks = <<>>
        /\ NewLedger.text = 0 /\ NewLedger.thinking = 0
        /\ ~ NewLedger.textOpen /\ ~ NewLedger.thinkingOpen
        /\ NewLedger.tools = [c \in Calls |-> NoCall]
    BY <1>3, <2>1 DEF NewLedger, Ledger
  <2>3. \A c \in Calls : NewLedger.tools[c] = NoCall
    BY <2>2
  <2>4. /\ m \in Ledger /\ m.log = Append(<<>>, e) /\ m.blocks = NewLedger.blocks
        /\ m.text = NewLedger.text /\ m.thinking = NewLedger.thinking
        /\ m.textOpen = NewLedger.textOpen /\ m.thinkingOpen = NewLedger.thinkingOpen
        /\ m.tools = NewLedger.tools
    BY <1>2, <1>3, <2>2 DEF Ledger
  <2> QED BY <2>1, <2>2, <2>3, <2>4
<1> HIDE DEF m
<1>5. Records(Append(<<>>, e), <<>>, {})
  BY <1>1, RecordsStart
<1> HIDE DEF e
<1>6. <<>> \o m.log = Append(<<>>, e)
  BY <1>3, <1>4, ConcatEmptySeq
<1>7. Len(<<>>) = 0
  OBVIOUS
<1>8. Produced(Nat, <<>>, m, {})
  BY <1>3, <1>4, <1>5, <1>6, <1>7 DEF Produced, Tally
<1>9. Owned(m, {})
  BY <1>4, <1>7 DEF Owned
<1> QED BY <1>3, <1>6, <1>8, <1>9 DEF Going, Coherent, m

\* What is logged may be passed on.
LEMMA LoggedKeeps ==
    ASSUME NEW N, NEW s, NEW l, Going(N, s, l)
    PROVE  /\ l.log \in Seq(Event) /\ s \in Seq(Event) /\ s \o l.log # <<>>
           /\ WellFormed(s \o l.log)
           /\ Going(N, s \o l.log, Logged(l)) /\ Logged(l).log = <<>>
           /\ Logged(l).blocks = l.blocks /\ SameTools(l, Logged(l))
<1> DEFINE t == s \o l.log
           m == Logged(l)
<1>1. PICK open : Coherent(N, s, l, open)
  BY DEF Going
<1>2. /\ l \in Ledger /\ l.log \in Seq(Event) /\ s \in Seq(Event) /\ t \in Seq(Event)
      /\ t # <<>> /\ Records(t, l.blocks, open) /\ Tally(N, t, l.blocks)
      /\ Owned(l, open) /\ \A b \in open : HasOwner(l, b)
  BY <1>1, ProducedTypes DEF Coherent, Produced
<1>3. <<>> \in Seq(Event)
  BY EmptySeq
<1>4. /\ m \in Ledger /\ m.log = <<>> /\ m.blocks = l.blocks /\ m.tools = l.tools
      /\ m.text = l.text /\ m.thinking = l.thinking
      /\ m.textOpen = l.textOpen /\ m.thinkingOpen = l.thinkingOpen
  BY <1>2, <1>3 DEF Logged, Ledger
<1> HIDE DEF m, t
<1>5. t \o m.log = t
  BY <1>2, <1>4, ConcatEmptySeq
<1>6. Produced(N, t, m, open) /\ Owned(m, open)
  BY <1>2, <1>4, <1>5 DEF Produced, Owned
<1>7. \A b \in open : HasOwner(m, b)
  BY <1>2, <1>4 DEF HasOwner
<1>8. SameTools(l, m)
  BY <1>4 DEF SameTools, HasTool
<1>9. WellFormed(t)
  BY <1>2 DEF Records
<1> QED BY <1>2, <1>4, <1>5, <1>6, <1>7, <1>8, <1>9 DEF Going, Coherent, m, t

\* Without counting, what is logged may also be lost.
LEMMA UncountedKeeps ==
    ASSUME NEW s, NEW l, Going(Nat, s, l)
    PROVE  Going({}, s, l)
BY DEF Going, Coherent, Produced, Tally

LEMMA LoggedTwice ==
    ASSUME NEW l \in Ledger
    PROVE  Logged(Logged(l)) = Logged(l)
BY DEF Logged, Ledger

\* The arguments of a call are repaired: the delta is logged, and would be lost if the
\* recovery failed after all.
LEMMA RepairKeeps ==
    ASSUME NEW s, NEW l, Going(Nat, s, l), Going({}, s, Logged(l)),
           NEW c \in Calls, NEW b, l.tools[c].block = b, b # 0
    PROVE  LET m == Delta(l, b, "whole")
           IN  /\ Going(Nat, s, m) /\ Going({}, s, Logged(m))
               /\ m.tools = l.tools /\ m.blocks # <<>>
<1> DEFINE k == Logged(l)
           d == Delta(l, b, "whole")
           m == Logged(d)
<1>1. PICK open : Coherent(Nat, s, l, open)
  BY DEF Going
<1>2. b \in open /\ "whole" \in Args /\ b \in 1 .. Len(l.blocks) /\ l \in Ledger
  BY <1>1 DEF Coherent, Owned, Args, Produced, Records
<1>3. Coherent(Nat, s, d, open) /\ SameTools(l, d) /\ Extended(l, d, b, "whole")
  BY <1>1, <1>2, DeltaKeeps
<1>4. /\ d \in Ledger /\ d.blocks \in Seq(Block) /\ d.tools = l.tools
      /\ d.text = l.text /\ d.thinking = l.thinking
      /\ d.textOpen = l.textOpen /\ d.thinkingOpen = l.thinkingOpen
      /\ SameBlocks(l.blocks, d.blocks)
  BY <1>3, ProducedTypes DEF Coherent, Extended, SameContent, SameBlocks
<1>5. d.blocks # <<>>
  <2>1. Len(<<>>) = 0
    OBVIOUS
  <2> QED BY <1>2, <1>4, <2>1 DEF SameBlocks
<1> HIDE DEF d
<1>6. PICK o : Coherent({}, s, k, o)
  BY DEF Going
<1>7. <<>> \in Seq(Event) /\ s \in Seq(Event)
  BY <1>6, EmptySeq DEF Coherent, Produced
<1>8. /\ k.log = <<>> /\ k.blocks = l.blocks /\ k.tools = l.tools
      /\ k.text = l.text /\ k.thinking = l.thinking
      /\ k.textOpen = l.textOpen /\ k.thinkingOpen = l.thinkingOpen
  BY <1>2 DEF Logged, Ledger
<1>9. /\ m \in Ledger /\ m.log = <<>> /\ m.blocks = d.blocks /\ m.tools = d.tools
      /\ m.text = d.text /\ m.thinking = d.thinking
      /\ m.textOpen = d.textOpen /\ m.thinkingOpen = d.thinkingOpen
  BY <1>4, <1>7 DEF Logged, Ledger
<1> HIDE DEF k, m
<1>10. Produced({}, s, m, o) /\ s \o m.log # <<>>
  <2>1. Records(s \o k.log, k.blocks, o) /\ s \o k.log # <<>>
    BY <1>6 DEF Coherent, Produced
  <2>2. Records(s \o k.log, m.blocks, o)
    BY <1>4, <1>8, <1>9, <2>1, RecordsSame
  <2> QED BY <1>7, <1>8, <1>9, <2>1, <2>2 DEF Produced, Tally
<1>11. Owned(m, o)
  <2>1. Owned(k, o) /\ o \subseteq 1 .. Len(l.blocks)
    BY <1>6, <1>8, ProducedTypes DEF Coherent
  <2>2. \A e \in o : m.blocks[e].type = k.blocks[e].type
    BY <1>4, <1>8, <1>9, <2>1 DEF SameBlocks
  <2>3. /\ m.text = k.text /\ m.thinking = k.thinking /\ m.tools = k.tools
        /\ m.textOpen = k.textOpen /\ m.thinkingOpen = k.thinkingOpen
        /\ Len(m.blocks) = Len(k.blocks)
    BY <1>4, <1>8, <1>9 DEF SameBlocks
  <2>4. /\ m.text \in 0 .. Len(m.blocks) /\ m.thinking \in 0 .. Len(m.blocks)
        /\ m.textOpen => m.text \in o /\ m.blocks[m.text].type = "text"
        /\ m.thinkingOpen => m.thinking \in o /\ m.blocks[m.thinking].type = "thinking"
    BY <2>1, <2>2, <2>3 DEF Owned
  <2>5. \A e \in Calls : m.tools[e].block # 0 =>
          /\ m.tools[e].block \in o /\ m.blocks[m.tools[e].block].type = "tool"
          /\ m.tools[e].kind \in ToolKind
    BY <2>1, <2>2, <2>3 DEF Owned
  <2>6. /\ \A e, f \in Calls :
             m.tools[e].block = m.tools[f].block /\ e # f => m.tools[e].block = 0
        /\ \A e \in Calls : m.tools[e].held => m.tools[e].block # 0
    BY <2>1, <2>3 DEF Owned
  <2> QED BY <2>4, <2>5, <2>6 DEF Owned
<1>12. \A e \in o : HasOwner(m, e)
  <2>1. \A e \in o : HasOwner(k, e)
    BY <1>6 DEF Coherent
  <2> QED BY <1>4, <1>8, <1>9, <2>1 DEF HasOwner
<1> QED BY <1>3, <1>4, <1>5, <1>10, <1>11, <1>12 DEF Going, Coherent, d, m

\* The blocks of the calls whose arguments are incomplete, in their order.
LEMMA InOrderOfBlocks ==
    ASSUME NEW N, NEW s, NEW l, Going(N, s, l), NEW S \in SUBSET BlocksOf(l, Calls)
    PROVE  /\ InOrder(S) \in Seq(Nat)
           /\ \A i \in 1 .. Len(InOrder(S)) :
                InOrder(S)[i] # 0 /\ \E c \in Calls : l.tools[c].block = InOrder(S)[i]
<1> DEFINE q == InOrder(S)
           n == Len(l.blocks)
<1>1. PICK open : Produced(N, s, l, open) /\ Owned(l, open)
  BY DEF Going, Coherent
<1>2. n \in Nat /\ open \subseteq 1 .. n
  BY <1>1, ProducedTypes
<1>3. \A b \in S : b # 0 /\ b \in open /\ \E c \in Calls : l.tools[c].block = b
  BY <1>1 DEF BlocksOf, Owned
<1> HIDE DEF n
<1>4. IsFiniteSet(S) /\ S \in SUBSET Nat
  <2>1. IsFiniteSet(1 .. n) /\ \A b \in 1 .. n : b \in Nat
    BY <1>2, FS_Interval
  <2>2. S \in SUBSET (1 .. n)
    BY <1>2, <1>3
  <2> QED BY <2>1, <2>2, FS_Subset
<1>5. /\ DOMAIN q = 1 .. Cardinality(S) /\ Cardinality(S) \in Nat
      /\ \A i \in 1 .. Cardinality(S) : q[i] \in S
  BY <1>4, InOrderLists
<1> DEFINE at(i) == CHOOSE b \in S : Cardinality({d \in S : d < b}) = i - 1
<1>6. q = [i \in 1 .. Cardinality(S) |-> at(i)]
  BY DEF InOrder
<1> HIDE DEF q, at
<1>7. q \in [1 .. Cardinality(S) -> Nat]
  BY <1>4, <1>5, <1>6
<1>8. q \in Seq(Nat)
  BY <1>5, <1>7, SeqDef
<1>9. Len(q) = Cardinality(S)
  BY <1>5, <1>8, LenProperties
<1> QED BY <1>3, <1>5, <1>8, <1>9 DEF q
-----------------------------------------------------------------------------
(***************************************************************************)
(* The chat transport.  What the client has seen is told apart from what   *)
(* may still be thrown away by committed alone: as long as it is FALSE,    *)
(* and the answer is not at its end, every event is in the holdback.       *)
(***************************************************************************)
Running == {"start", "open", "chunks", "continue", "repair"}

\* Nothing has left the holdback before it is committed.
Unseen == ~ committed /\ phase \in Running => sent = <<>> /\ out = <<>>

\* The counters that bound how often anything is tried.
Counted ==
    /\ committed \in BOOLEAN
    /\ phase \in Phase
    /\ chunks \in 0 .. MaxChunks
    /\ early \in 0 .. MaxEarly
    /\ repairs \in 0 .. MaxAttempts - 1
    /\ requests \in 0 .. MaxAttempts - 1

Safe == Unseen /\ Counted

\* An adapter with a ledger of its own starts with nothing to yield.
LEMMA InitSafe == ASSUME ~ ReusesLedger PROVE Init => Safe
<1> SUFFICES ASSUME Init PROVE Safe
    OBVIOUS
<1>1. Unseen
  <2>1. PICK l \in {NewLedger} : out = l.log
    BY DEF Init
  <2>2. NewLedger.log = <<>>
    BY DEF NewLedger
  <2> QED BY <2>1, <2>2 DEF Init, Unseen
<1>2. Counted
  <2>1. committed \in BOOLEAN
    BY DEF Init
  <2>2. chunks = 0 /\ early = 0 /\ repairs = 0 /\ requests = 0 /\ phase \in Phase
    BY DEF Init, Phase
  <2> QED BY <2>1, <2>2, StreamAssumption DEF Counted
<1> QED BY <1>1, <1>2 DEF Safe

LEMMA YieldKeeps == Safe /\ Yield => Safe'
BY DEF Safe, Unseen, Counted, Yield, streamVars, recoveryVars

LEMMA DisconnectKeeps == Safe /\ Disconnect => Safe'
BY DEF Safe, Unseen, Counted, Disconnect, Running, Phase, Ended, streamVars, recoveryVars

\* Whatever ends the answer leaves Running.
LEMMA ReleaseEnds ==
    ASSUME NEW l, NEW end \in Ended, Safe, Release(l, end),
           UNCHANGED <<streamVars, recoveryVars>>
    PROVE  Safe'
BY DEF Safe, Unseen, Counted, Release, Running, Phase, Ended, streamVars, recoveryVars

LEMMA FinalErrorKeeps == Safe /\ FinalError => Safe'
<1> SUFFICES ASSUME Safe, FinalError PROVE Safe'
    OBVIOUS
<1>1. "failed" \in Ended
  BY DEF Ended
<1> QED BY <1>1, ReleaseEnds DEF FinalError

\* The client cannot have seen what is thrown away: the step of EarlyRetry.
LEMMA EarlyRetryKeeps ==
    ASSUME NEW opened, Safe, phase \in Running, MayStartAgain(opened), EarlyRetry
    PROVE  Safe' /\ sent = <<>> /\ out = <<>>
<1>1. sent = <<>> /\ out = <<>>
  BY DEF Safe, Unseen, MayStartAgain
<1>2. Unseen'
  BY <1>1 DEF Unseen, EarlyRetry
<1>3. Counted'
  <2>1. committed' \in BOOLEAN
    BY DEF EarlyRetry
  <2>2. early < MaxEarly /\ early' = early + 1 /\ chunks' = 0 /\ phase' \in Phase
    BY DEF MayStartAgain, EarlyRetry, Phase
  <2>3. repairs' = repairs /\ requests' = requests
    BY DEF EarlyRetry, recoveryVars
  <2> QED BY <2>1, <2>2, <2>3, StreamAssumption DEF Safe, Counted
<1> QED BY <1>1, <1>2, <1>3 DEF Safe

LEMMA RecoverKeeps == Safe /\ phase \in Running /\ Recover => Safe' /\ early' = early
<1> SUFFICES ASSUME Safe, phase \in Running, Recover PROVE Safe' /\ early' = early
    OBVIOUS
<1>1. CASE Release(SuccessTail(ledger), "recovered") /\ UNCHANGED <<sent, streamVars, recoveryVars>>
  BY <1>1, ReleaseEnds DEF Ended, streamVars
<1>2. CASE FinalError
  BY <1>2, FinalErrorKeeps DEF FinalError, streamVars
<1>3. CASE /\ phase' \in {"repair", "continue"} /\ requests' = 0 /\ repairs' \in {0, repairs}
           /\ UNCHANGED <<sent, out, committed, streamVars>>
  BY <1>3, StreamAssumption DEF Safe, Unseen, Counted, Running, Phase, streamVars
<1> QED BY <1>1, <1>2, <1>3 DEF Recover

LEMMA FailKeeps ==
    ASSUME NEW opened, NEW retryable, Safe, phase \in Running, Fail(opened, retryable)
    PROVE  Safe' /\ (early' # early => sent = <<>> /\ out = <<>>)
<1>1. CASE MayStartAgain(opened) /\ EarlyRetry
  BY <1>1, EarlyRetryKeeps
<1>2. CASE Recover
  BY <1>2, RecoverKeeps
<1>3. CASE FinalError
  BY <1>3, FinalErrorKeeps DEF FinalError, streamVars
<1> QED BY <1>1, <1>2, <1>3 DEF Fail

LEMMA PushKeeps ==
    ASSUME NEW l, Safe, Push(l), UNCHANGED <<sent, early, recoveryVars>>,
           phase \in Running, phase' \in Running, chunks' \in 0 .. MaxChunks
    PROVE  Safe'
<1>1. Unseen'
  BY DEF Safe, Unseen, Push
<1>2. Counted'
  BY DEF Safe, Counted, Push, Running, Phase, recoveryVars
<1> QED BY <1>1, <1>2 DEF Safe

LEMMA ChunkKeeps ==
    ASSUME NEW ledgers, Safe, Chunk(ledgers)
    PROVE  Safe' /\ early' = early
<1>1. PICK l \in ledgers : Push(l)
  BY DEF Chunk
<1>2. phase \in Running /\ phase' \in Running
  BY DEF Chunk, At, Running
<1>3. chunks' \in 0 .. MaxChunks
  BY StreamAssumption DEF Chunk, Safe, Counted
<1> QED BY <1>1, <1>2, <1>3, PushKeeps DEF Chunk

\* Every step of the upstream keeps Safe, and starts again only unseen.
LEMMA UpstreamKeeps ==
    Safe /\ Upstream => Safe' /\ (early' # early => sent = <<>> /\ out = <<>>)
<1> SUFFICES ASSUME Safe, Upstream
             PROVE  Safe' /\ (early' # early => sent = <<>> /\ out = <<>>)
    OBVIOUS
<1> USE DEF At
<1>1. CASE Begin
  <2>1. PICK l : Push(l)
    BY <1>1 DEF Begin
  <2>2. phase \in Running /\ phase' \in Running
    BY <1>1 DEF Begin, Running
  <2>3. chunks' \in 0 .. MaxChunks
    BY <1>1 DEF Begin, Safe, Counted, streamVars
  <2> QED BY <1>1, <2>1, <2>2, <2>3, PushKeeps DEF Begin, streamVars
<1>2. CASE CreateSucceeds
  BY <1>2 DEF CreateSucceeds, Safe, Unseen, Counted, Running, Phase, streamVars, recoveryVars
<1>3. ASSUME NEW r \in BOOLEAN, CreateFails(r)
      PROVE  Safe' /\ (early' # early => sent = <<>> /\ out = <<>>)
  BY <1>3, FailKeeps DEF CreateFails, Running
<1>4. CASE ThinkingChunk \/ TextChunk \/ ToolTextChunk
  BY <1>4, ChunkKeeps DEF ThinkingChunk, TextChunk, ToolTextChunk
<1>5. ASSUME NEW c \in Calls, CallChunk(c)
      PROVE  Safe' /\ (early' # early => sent = <<>> /\ out = <<>>)
  <2>1. PICK kind \in ToolKind \cup {"unnamed"}, hasArgs \in BOOLEAN :
               Chunk(CallDelta(ledger, c, kind, hasArgs))
    BY <1>5 DEF CallChunk
  <2> QED BY <2>1, ChunkKeeps
<1>6. CASE FinishChunk
  BY <1>6 DEF FinishChunk, Safe, Unseen, Counted, Running, Phase, recoveryVars
<1>7. CASE Truncated
  BY <1>7, FailKeeps DEF Truncated, Running
<1>8. CASE Completes
  <2>1. PICK l : Release(l, "completed")
    BY <1>8 DEF Completes
  <2> QED BY <1>8, <2>1, ReleaseEnds DEF Completes, Ended, streamVars
<1>9. ASSUME NEW r \in BOOLEAN, StreamBreaks(r)
      PROVE  Safe' /\ (early' # early => sent = <<>> /\ out = <<>>)
  BY <1>9, FailKeeps DEF StreamBreaks, Running
<1>10. ASSUME NEW r \in BOOLEAN, RequestFails(r)
       PROVE  Safe' /\ (early' # early => sent = <<>> /\ out = <<>>)
  <2>1. CASE FinalError
    BY <2>1, FinalErrorKeeps DEF FinalError, streamVars
  <2>2. CASE /\ requests + 1 < MaxAttempts /\ requests' = requests + 1
             /\ UNCHANGED <<sent, out, held, committed, ledger, phase, streamVars,
                            todo, repairs>>
    BY <2>2, StreamAssumption DEF Safe, Unseen, Counted, streamVars
  <2> QED BY <1>10, <2>1, <2>2 DEF RequestFails
<1>11. CASE Continued
  <2>1. PICK l : Release(l, "recovered")
    BY <1>11 DEF Continued
  <2> QED BY <1>11, <2>1, ReleaseEnds DEF Continued, Ended, streamVars
<1>12. CASE ContinuesNothing
  BY <1>12, FinalErrorKeeps DEF ContinuesNothing, FinalError, streamVars
<1>13. CASE Repaired
  <2>1. CASE Tail(todo) # <<>>
    BY <1>13, <2>1, StreamAssumption DEF Repaired, Safe, Unseen, Counted, streamVars
  <2>2. CASE ~ (Tail(todo) # <<>>)
    <3> DEFINE whole == AllToolsWhole(Delta(ledger, Head(todo), "whole"))
               l     == IF whole THEN SuccessTail(Delta(ledger, Head(todo), "whole"))
                        ELSE ErrorTail(Logged(Delta(ledger, Head(todo), "whole")))
               end   == IF whole THEN "recovered" ELSE "failed"
    <3>1. Release(l, end) /\ end \in Ended
      BY <1>13, <2>2 DEF Repaired, Ended
    <3>2. UNCHANGED <<sent, streamVars, recoveryVars>>
      BY <1>13, <2>2 DEF Repaired
    <3> HIDE DEF l, end
    <3> QED BY <3>1, <3>2, ReleaseEnds DEF streamVars
  <2> QED BY <2>1, <2>2
<1>14. CASE RepairRefused
  <2>1. CASE FinalError
    BY <2>1, FinalErrorKeeps DEF FinalError, streamVars
  <2>2. CASE /\ repairs + 1 < MaxAttempts /\ repairs' = repairs + 1 /\ requests' = 0
             /\ UNCHANGED <<sent, out, held, committed, ledger, phase, streamVars, todo>>
    BY <2>2, StreamAssumption DEF Safe, Unseen, Counted, streamVars
  <2> QED BY <1>14, <2>1, <2>2 DEF RepairRefused
<1> QED BY <1>1, <1>2, <1>3, <1>4, <1>5, <1>6, <1>7, <1>8, <1>9, <1>10, <1>11, <1>12,
           <1>13, <1>14 DEF Upstream

LEMMA NextKeeps == Safe /\ [Next]_vars => Safe'
<1>1. CASE UNCHANGED vars
  BY <1>1 DEF vars, Safe, Unseen, Counted, streamVars, recoveryVars
<1> QED BY <1>1, YieldKeeps, DisconnectKeeps, UpstreamKeeps DEF Next

\* Before it is committed, nothing an attempt produces reaches the client, and every
\* counter stays within its bound (RecoveryHoldbackBuffer.push, advance_failure and
\* collect_text).
THEOREM StreamSafe == ASSUME ~ ReusesLedger PROVE Spec => []Safe
BY InitSafe, NextKeeps, PTL DEF Spec

\* A stream starts again only while the client has seen nothing of it, however many
\* chunks, calls and retries there are (RecoveryController.advance_failure).
THEOREM RetryIsInvisibleCorrect == ASSUME ~ ReusesLedger PROVE Spec => RetryIsInvisible
<1>1. Safe /\ [Next]_vars => [early' # early => sent = <<>> /\ out = <<>>]_vars
  <2>1. Yield \/ Disconnect => early' = early
    BY DEF Yield, Disconnect, streamVars
  <2> QED BY <2>1, UpstreamKeeps DEF Next
<1> QED BY <1>1, StreamSafe, PTL DEF Spec, RetryIsInvisible

-----------------------------------------------------------------------------
(***************************************************************************)
(* What the client has taken, what the generator is about to yield and     *)
(* what the holdback keeps make up one sequence, which the ledger records. *)
(***************************************************************************)
stream == (sent \o out) \o held

Typed == sent \in Seq(Event) /\ out \in Seq(Event) /\ held \in Seq(Event)

\* An attempt starts from nothing.
Fresh == phase = "start" => ledger = NewLedger /\ stream = <<>>

\* Once its message is started, the ledger can go on from the stream: with what it has
\* logged, or without, if a recovery fails.
Flowing ==
    phase \in Running \ {"start"} =>
      Going(Nat, stream, ledger) /\ Going({}, stream, Logged(ledger))

Flushed == committed => held = <<>>

Continuing == phase = "continue" => ~ HasTool(ledger)

\* What remains to be repaired are blocks of calls.
Repairing ==
    phase = "repair" =>
      /\ todo \in Seq(Nat) /\ todo # <<>>
      /\ \A i \in 1 .. Len(todo) :
           todo[i] # 0 /\ \E c \in Calls : ledger.tools[c].block = todo[i]

EndsWhole ==
    /\ phase \in Ended => held = <<>>
    /\ phase = "gone" => out = <<>>
    /\ phase \in {"completed", "recovered"} =>
         ledger.blocks \in Seq(Block) /\ Complete(stream, ledger.blocks)

Shaped ==
    /\ Typed /\ WellFormed(stream) /\ Fresh /\ Flowing /\ Flushed
    /\ Continuing /\ Repairing /\ EndsWhole /\ RecoveredToolsAreWhole

LEMMA PhasesDiffer ==
    /\ Running \cap Ended = {} /\ "start" \notin Ended
    /\ \A p \in Ended : p \notin Running /\ p # "continue" /\ p # "repair" /\ p # "start"
BY DEF Running, Ended

\* Where new events go: a is sent, h is held, and q comes after them.
Follows(a, h, q) ==
    /\ (a \o (h \o q)) \o <<>> = ((a \o <<>>) \o h) \o q
    /\ (a \o <<>>) \o (h \o q) = ((a \o <<>>) \o h) \o q
    /\ (a \o q) \o <<>> = ((a \o <<>>) \o <<>>) \o q
    /\ h \o q \in Seq(Event) /\ <<>> \in Seq(Event)

LEMMA StreamConcat ==
    ASSUME NEW a \in Seq(Event), NEW h \in Seq(Event), NEW q \in Seq(Event)
    PROVE  Follows(a, h, q)
<1>1. h \o q \in Seq(Event) /\ a \o q \in Seq(Event) /\ a \o (h \o q) \in Seq(Event)
  BY ConcatProperties
<1>2. a \o <<>> = a /\ (a \o q) \o <<>> = a \o q
      /\ (a \o (h \o q)) \o <<>> = a \o (h \o q)
  BY <1>1, ConcatEmptySeq
<1>3. a \o (h \o q) = (a \o h) \o q
  BY LogConcat
<1> QED BY <1>1, <1>2, <1>3, EmptySeq DEF Follows

LEMMA PushShapes ==
    ASSUME Typed, Flushed, out = <<>>, NEW l, Going(Nat, stream, l), Push(l), sent' = sent
    PROVE  /\ Typed' /\ WellFormed(stream)' /\ Flushed'
           /\ Going(Nat, stream, ledger)' /\ Going({}, stream, Logged(ledger))'
<1>1. /\ l.log \in Seq(Event) /\ WellFormed(stream \o l.log)
      /\ Going(Nat, stream \o l.log, Logged(l))
  BY LoggedKeeps
<1>2. l \in Ledger
  BY DEF Going, Coherent, Produced
<1>3. ledger' = Logged(l)
  BY DEF Push
<1>4. stream' = stream \o l.log /\ Typed' /\ Flushed'
  <2> DEFINE q == l.log
  <2>0. Follows(sent, held, q)
    BY <1>1, StreamConcat DEF Typed
  <2>1. CASE committed /\ out' = l.log /\ UNCHANGED <<held, committed>>
    <3>1. held = <<>>
      BY <2>1 DEF Flushed
    <3> QED BY <1>1, <2>0, <2>1, <3>1 DEF stream, Typed, Flushed, Follows
  <2>2. CASE ~ committed /\ held' = held \o l.log /\ UNCHANGED <<out, committed>>
    BY <2>0, <2>2 DEF stream, Typed, Flushed, Follows
  <2>3. CASE committed' = TRUE /\ out' = held \o l.log /\ held' = <<>>
    BY <2>0, <2>3 DEF stream, Typed, Flushed, Follows
  <2> QED BY <2>1, <2>2, <2>3 DEF Push
<1>5. Logged(Logged(l)) = Logged(l)
  BY <1>2, LoggedTwice
<1>6. Going({}, stream \o l.log, Logged(Logged(l)))
  BY <1>1, <1>5, UncountedKeeps
<1> QED BY <1>1, <1>3, <1>4, <1>6

LEMMA ReleaseShapes ==
    ASSUME Typed, out = <<>>, NEW l \in Ledger, NEW end \in Ended \ {"gone"}, Release(l, end),
           sent' = sent, l.log \in Seq(Event), WellFormed(stream \o l.log),
           end \in {"completed", "recovered"} => Complete(stream \o l.log, l.blocks),
           end = "recovered" =>
             \A b \in DOMAIN l.blocks : l.blocks[b].type = "tool" => l.blocks[b].args = "whole"
    PROVE  Shaped'
<1>1. /\ out' = held \o l.log /\ held' = <<>> /\ ledger' = Logged(l) /\ phase' = end
  BY DEF Release
<1>2. Follows(sent, held, l.log)
  BY StreamConcat DEF Typed
<1>3. stream' = stream \o l.log /\ Typed'
  BY <1>1, <1>2 DEF stream, Typed, Follows
<1>4. Logged(l).blocks = l.blocks /\ l.blocks \in Seq(Block)
  BY DEF Logged, Ledger
<1>5. WellFormed(stream)' /\ Flushed' /\ EndsWhole' /\ RecoveredToolsAreWhole'
  BY <1>1, <1>3, <1>4 DEF Flushed, EndsWhole, RecoveredToolsAreWhole
<1>6. Fresh' /\ Flowing' /\ Continuing' /\ Repairing'
  BY <1>1, PhasesDiffer DEF Fresh, Flowing, Continuing, Repairing
<1> QED BY <1>3, <1>5, <1>6 DEF Shaped

\* The end of a message that the ledger has recorded in full.
LEMMA SuccessShapes ==
    ASSUME Shaped, out = <<>>, NEW l, Going(Nat, stream, l), l.blocks # <<>>,
           NEW end \in {"completed", "recovered"}, Release(SuccessTail(l), end), sent' = sent,
           end = "recovered" => AllToolsWhole(l) \/ ~ HasTool(l)
    PROVE  Shaped'
<1> DEFINE m == SuccessTail(l)
<1>1. /\ m \in Ledger /\ m.blocks = l.blocks /\ m.log \in Seq(Event)
      /\ WellFormed(stream \o m.log) /\ Complete(stream \o m.log, m.blocks)
  BY SuccessTailDoes
<1>2. end \in Ended \ {"gone"}
  BY DEF Ended
<1>3. end = "recovered" =>
        \A b \in DOMAIN l.blocks : l.blocks[b].type = "tool" => l.blocks[b].args = "whole"
  BY DEF AllToolsWhole, HasTool
<1>4. Typed
  BY DEF Shaped
<1>5. Release(m, end)
  OBVIOUS
<1> HIDE DEF m
<1> QED BY <1>1, <1>2, <1>3, <1>4, <1>5, ReleaseShapes

LEMMA FailedShapes ==
    ASSUME Shaped, out = <<>>, NEW l, Going({}, stream, l),
           Release(ErrorTail(l), "failed"), sent' = sent
    PROVE  Shaped'
<1> DEFINE m == ErrorTail(l)
<1>1. m \in Ledger /\ m.log \in Seq(Event) /\ WellFormed(stream \o m.log)
  BY ErrorTailDoes
<1>2. "failed" \in Ended \ {"gone"} /\ "failed" \notin {"completed", "recovered"}
  BY DEF Ended
<1>3. Typed
  BY DEF Shaped
<1> HIDE DEF m
<1> QED BY <1>1, <1>2, <1>3, ReleaseShapes DEF m

\* When a message has been started there is something in the holdback, or the client
\* has it: emit_error_tail never starts a second one.
LEMMA FinalErrorShapes ==
    ASSUME Safe, Shaped, out = <<>>, phase \in Running \ {"start"}, FinalError
    PROVE  Shaped'
<1>1. Going({}, stream, Logged(ledger))
  BY DEF Shaped, Flowing
<1>2. stream # <<>>
  <2>1. /\ Logged(ledger).log \in Seq(Event) /\ stream \in Seq(Event)
        /\ stream \o Logged(ledger).log # <<>>
    BY <1>1, LoggedKeeps
  <2>2. ledger \in Ledger
    BY DEF Shaped, Flowing, Going, Coherent, Produced
  <2>3. Logged(ledger).log = <<>>
    BY <2>2 DEF Logged, Ledger
  <2> QED BY <2>1, <2>3, ConcatEmptySeq
<1>3. ~ (~ committed /\ held = <<>>)
  <2> SUFFICES ASSUME ~ committed, held = <<>> PROVE FALSE
      OBVIOUS
  <2>1. sent = <<>>
    BY DEF Safe, Unseen
  <2>2. (<<>> \o <<>>) \o <<>> = <<>>
    <3>1. <<>> \in Seq(Event)
      BY EmptySeq
    <3> QED BY <3>1, ConcatEmptySeq
  <2> QED BY <1>2, <2>1, <2>2 DEF stream
<1>4. Release(ErrorTail(Logged(ledger)), "failed") /\ sent' = sent
  BY <1>3 DEF FinalError
<1> QED BY <1>1, <1>4, FailedShapes

LEMMA EarlyRetryShapes ==
    ASSUME ~ ReusesLedger, NEW opened, Safe, Shaped, phase \in Running,
           MayStartAgain(opened), EarlyRetry
    PROVE  Shaped'
<1>1. sent = <<>> /\ out = <<>>
  BY DEF Safe, Unseen, MayStartAgain
<1>2. /\ sent' = <<>> /\ out' = <<>> /\ held' = <<>> /\ committed' = FALSE
      /\ ledger' = NewLedger /\ phase' = "start"
  BY <1>1 DEF EarlyRetry, Renewed
<1>3. <<>> \in Seq(Event) /\ Len(<<>>) = 0 /\ (<<>> \o <<>>) \o <<>> = <<>>
  <2>1. <<>> \in Seq(Event) /\ Len(<<>>) = 0
    BY EmptySeq
  <2> QED BY <2>1, ConcatEmptySeq
<1>4. stream' = <<>> /\ WellFormed(<<>>)
  BY <1>2, <1>3 DEF stream, WellFormed
<1>5. Typed' /\ WellFormed(stream)' /\ Fresh' /\ Flushed'
  BY <1>2, <1>3, <1>4 DEF Typed, Fresh, Flushed
<1>6. Flowing' /\ Continuing' /\ Repairing' /\ EndsWhole' /\ RecoveredToolsAreWhole'
  BY <1>2 DEF Flowing, Continuing, Repairing, EndsWhole, RecoveredToolsAreWhole, Ended
<1> QED BY <1>5, <1>6 DEF Shaped

\* run goes on elsewhere.
LEMMA MoveShapes ==
    ASSUME Shaped, UNCHANGED <<sent, out, held, committed, ledger>>,
           phase \in Running \ {"start"}, phase' \in Running \ {"start"},
           Continuing', Repairing'
    PROVE  Shaped'
<1>1. stream' = stream /\ ledger' = ledger
  BY DEF stream
<1>2. Typed' /\ WellFormed(stream)' /\ Flushed'
  BY <1>1 DEF Shaped, Typed, Flushed
<1>3. Fresh' /\ Flowing'
  BY <1>1 DEF Shaped, Fresh, Flowing
<1>4. phase' \notin Ended /\ phase' # "gone" /\ phase' # "recovered" /\ phase' # "completed"
  BY DEF Running, Ended
<1>5. EndsWhole' /\ RecoveredToolsAreWhole'
  BY <1>4 DEF EndsWhole, RecoveredToolsAreWhole
<1> QED BY <1>2, <1>3, <1>5 DEF Shaped

LEMMA RecoverShapes ==
    ASSUME Safe, Shaped, phase \in {"open", "chunks"}, out = <<>>, Recover
    PROVE  Shaped'
<1>1. phase \in Running \ {"start"}
  BY DEF Running
<1>2. Going(Nat, stream, ledger)
  BY <1>1 DEF Shaped, Flowing
<1>3. CASE AllToolsWhole(ledger) /\ Release(SuccessTail(ledger), "recovered") /\ sent' = sent
  <2>1. ledger.blocks # <<>>
    BY <1>3 DEF AllToolsWhole, HasTool
  <2> QED BY <1>2, <1>3, <2>1, SuccessShapes
<1>4. CASE /\ ToRepair(ledger) # <<>> /\ phase' = "repair" /\ todo' = ToRepair(ledger)
           /\ UNCHANGED <<sent, out, held, committed, ledger>>
  <2>1. Repairing'
    <3> DEFINE S == {b \in BlocksOf(ledger, Calls) : ledger.blocks[b].args # "whole"}
    <3>1. /\ InOrder(S) \in Seq(Nat)
          /\ \A i \in 1 .. Len(InOrder(S)) :
               InOrder(S)[i] # 0 /\ \E c \in Calls : ledger.tools[c].block = InOrder(S)[i]
      <4>1. S \in SUBSET BlocksOf(ledger, Calls)
        OBVIOUS
      <4> HIDE DEF S
      <4> QED BY <1>2, <4>1, InOrderOfBlocks
    <3>2. todo' = InOrder(S) /\ todo' # <<>> /\ ledger' = ledger
      BY <1>4 DEF ToRepair
    <3> HIDE DEF S
    <3> QED BY <3>1, <3>2 DEF Repairing
  <2>2. Continuing' /\ phase' \in Running \ {"start"}
    BY <1>4 DEF Continuing, Running
  <2> QED BY <1>1, <1>4, <2>1, <2>2, MoveShapes
<1>5. CASE /\ ~ HasTool(ledger) /\ phase' = "continue"
           /\ UNCHANGED <<sent, out, held, committed, ledger>>
  <2>1. Continuing' /\ Repairing' /\ phase' \in Running \ {"start"}
    BY <1>5 DEF Continuing, Repairing, Running
  <2> QED BY <1>1, <1>5, <2>1, MoveShapes
<1>6. CASE FinalError
  BY <1>1, <1>6, FinalErrorShapes
<1> QED BY <1>3, <1>4, <1>5, <1>6 DEF Recover

LEMMA FailShapes ==
    ASSUME ~ ReusesLedger, NEW opened, NEW retryable, Safe, Shaped,
           phase \in {"open", "chunks"}, out = <<>>, Fail(opened, retryable)
    PROVE  Shaped'
<1>1. phase \in Running \ {"start"}
  BY DEF Running
<1>2. CASE MayStartAgain(opened) /\ EarlyRetry
  BY <1>1, <1>2, EarlyRetryShapes
<1>3. CASE Recover
  BY <1>3, RecoverShapes
<1>4. CASE FinalError
  BY <1>1, <1>4, FinalErrorShapes
<1> QED BY <1>2, <1>3, <1>4 DEF Fail

LEMMA ChunkShapes ==
    ASSUME Shaped, NEW ledgers, Chunk(ledgers), \A l \in ledgers : Going(Nat, stream, l)
    PROVE  Shaped'
<1>1. PICK l \in ledgers : Push(l)
  BY DEF Chunk
<1>2. out = <<>> /\ sent' = sent /\ phase' = "chunks"
  BY DEF Chunk, At
<1>3. /\ Typed' /\ WellFormed(stream)' /\ Flushed'
      /\ Going(Nat, stream, ledger)' /\ Going({}, stream, Logged(ledger))'
  BY <1>1, <1>2, PushShapes DEF Shaped
<1>4. Fresh' /\ Flowing' /\ Continuing' /\ Repairing' /\ EndsWhole' /\ RecoveredToolsAreWhole'
  BY <1>2, <1>3
     DEF Fresh, Flowing, Continuing, Repairing, EndsWhole, RecoveredToolsAreWhole, Ended
<1> QED BY <1>3, <1>4 DEF Shaped

LEMMA BeginShapes == ASSUME Shaped, Begin PROVE Shaped'
<1>1. out = <<>> /\ phase = "start" /\ sent' = sent /\ phase' = "open"
  BY DEF Begin, At
<1>2. ledger = NewLedger /\ stream = <<>> /\ ~ NewLedger.started
  BY <1>1 DEF Shaped, Fresh, NewLedger
<1>3. Push(StartMessage(NewLedger)) /\ Going(Nat, stream, StartMessage(NewLedger))
  BY <1>2, StartDoes DEF Begin
<1>4. /\ Typed' /\ WellFormed(stream)' /\ Flushed'
      /\ Going(Nat, stream, ledger)' /\ Going({}, stream, Logged(ledger))'
  BY <1>1, <1>3, PushShapes DEF Shaped
<1>5. Fresh' /\ Flowing' /\ Continuing' /\ Repairing' /\ EndsWhole' /\ RecoveredToolsAreWhole'
  BY <1>1, <1>4
     DEF Fresh, Flowing, Continuing, Repairing, EndsWhole, RecoveredToolsAreWhole, Ended
<1> QED BY <1>4, <1>5 DEF Shaped

LEMMA CompletesShapes == ASSUME Shaped, Completes PROVE Shaped'
<1>1. out = <<>> /\ Going(Nat, stream, ledger) /\ sent' = sent
  BY DEF Completes, At, Shaped, Flowing, Running
<1>2. PICK l \in {ledger, Think(ledger), Say(ledger)} :
         \E m \in {l} \cup {HeuristicTool(l, args) : args \in {"partial", "whole"}} :
           Release(SuccessTail(FlushHeld(Fill(m))), "completed")
  BY DEF Completes
<1>3. Going(Nat, stream, l)
  BY <1>1, <1>2, SayKeeps, ThinkKeeps
<1>4. PICK m \in {l} \cup {HeuristicTool(l, args) : args \in {"partial", "whole"}} :
         Release(SuccessTail(FlushHeld(Fill(m))), "completed")
  BY <1>2
<1>5. Going(Nat, stream, m)
  <2>1. ASSUME NEW args \in {"partial", "whole"} PROVE Going(Nat, stream, HeuristicTool(l, args))
    <3>1. args \in Args
      BY DEF Args
    <3> QED BY <1>3, <3>1, HeuristicToolKeeps
  <2> QED BY <1>3, <2>1
<1> DEFINE f == Fill(m)
           r == FlushHeld(f)
<1>6. Going(Nat, stream, f) /\ f.blocks # <<>>
  BY <1>5, FillKeeps
<1> HIDE DEF f
<1>7. Going(Nat, stream, r) /\ Len(r.blocks) = Len(f.blocks)
  BY <1>6, FlushHeldKeeps
<1> HIDE DEF r
<1>8. r.blocks # <<>>
  <2>1. Len(f.blocks) # 0
    <3>1. f.blocks \in Seq(Block)
      BY <1>6, ProducedTypes DEF Going, Coherent
    <3> QED BY <1>6, <3>1, EmptySeq
  <2>2. Len(<<>>) = 0
    OBVIOUS
  <2> QED BY <1>7, <2>1, <2>2
<1>9. Release(SuccessTail(r), "completed") /\ "completed" \in {"completed", "recovered"}
      /\ "completed" # "recovered"
  BY <1>4 DEF r, f
<1> QED BY <1>1, <1>7, <1>8, <1>9, SuccessShapes

LEMMA ContinuedShapes == ASSUME Shaped, Continued PROVE Shaped'
<1>1. out = <<>> /\ Going(Nat, stream, ledger) /\ sent' = sent /\ ~ HasTool(ledger)
  BY DEF Continued, At, Shaped, Flowing, Continuing, Running
<1>2. PICK l \in {Think(ledger), Say(ledger), Say(Think(ledger))} :
         Release(SuccessTail(l), "recovered")
  BY DEF Continued
<1>3. /\ Going(Nat, stream, Think(ledger)) /\ SameTools(ledger, Think(ledger))
      /\ Think(ledger).blocks # <<>>
      /\ Going(Nat, stream, Say(ledger)) /\ SameTools(ledger, Say(ledger))
      /\ Say(ledger).blocks # <<>>
  BY <1>1, SayKeeps, ThinkKeeps
<1>4. /\ Going(Nat, stream, Say(Think(ledger))) /\ SameTools(Think(ledger), Say(Think(ledger)))
      /\ Say(Think(ledger)).blocks # <<>>
  BY <1>3, SayKeeps
<1>5. Going(Nat, stream, l) /\ l.blocks # <<>> /\ ~ HasTool(l)
  BY <1>1, <1>2, <1>3, <1>4 DEF SameTools
<1> QED BY <1>1, <1>2, <1>5, SuccessShapes

LEMMA RepairedShapes == ASSUME Shaped, Repaired PROVE Shaped'
<1> DEFINE b == Head(todo)
           l == Delta(ledger, b, "whole")
<1>1. /\ phase = "repair" /\ out = <<>> /\ sent' = sent
      /\ Going(Nat, stream, ledger) /\ Going({}, stream, Logged(ledger))
      /\ todo \in Seq(Nat) /\ todo # <<>>
      /\ \A i \in 1 .. Len(todo) :
           todo[i] # 0 /\ \E c \in Calls : ledger.tools[c].block = todo[i]
  BY DEF Repaired, At, Shaped, Flowing, Repairing, Running
<1>2. Len(todo) \in Nat /\ Len(todo) # 0 /\ b = todo[1] /\ 1 \in 1 .. Len(todo)
  BY <1>1, EmptySeq, HeadTailProperties
<1>3. PICK c \in Calls : ledger.tools[c].block = b /\ b # 0
  BY <1>1, <1>2
<1> HIDE DEF b
<1>4. /\ Going(Nat, stream, l) /\ Going({}, stream, Logged(l))
      /\ l.tools = ledger.tools /\ l.blocks # <<>>
  BY <1>1, <1>3, RepairKeeps
<1>5. \/ /\ Tail(todo) # <<>> /\ ledger' = l /\ todo' = Tail(todo)
         /\ UNCHANGED <<sent, out, held, committed, phase>>
      \/ AllToolsWhole(l) /\ Release(SuccessTail(l), "recovered")
      \/ Release(ErrorTail(Logged(l)), "failed")
  BY DEF Repaired, b
<1> HIDE DEF l
<1>6. CASE /\ Tail(todo) # <<>> /\ ledger' = l /\ todo' = Tail(todo)
           /\ UNCHANGED <<sent, out, held, committed, phase>>
  <2>1. stream' = stream
    BY <1>6 DEF stream
  <2>2. Typed' /\ WellFormed(stream)' /\ Flushed' /\ Flowing'
    BY <1>4, <1>6, <2>1 DEF Shaped, Typed, Flushed, Flowing
  <2>3. Repairing'
    <3>1. /\ Tail(todo) \in Seq(Nat) /\ Len(Tail(todo)) = Len(todo) - 1
          /\ \A i \in 1 .. Len(Tail(todo)) : Tail(todo)[i] = todo[i + 1]
      BY <1>1, HeadTailProperties
    <3>2. \A i \in 1 .. Len(Tail(todo)) : i + 1 \in 1 .. Len(todo)
      BY <1>2, <3>1
    <3> QED BY <1>1, <1>4, <1>6, <3>1, <3>2 DEF Repairing
  <2>4. Fresh' /\ Continuing' /\ EndsWhole' /\ RecoveredToolsAreWhole'
    BY <1>1, <1>6 DEF Fresh, Continuing, EndsWhole, RecoveredToolsAreWhole, Ended
  <2> QED BY <2>2, <2>3, <2>4 DEF Shaped
<1>7. CASE AllToolsWhole(l) /\ Release(SuccessTail(l), "recovered")
  BY <1>1, <1>4, <1>7, SuccessShapes
<1>8. CASE Release(ErrorTail(Logged(l)), "failed")
  BY <1>1, <1>4, <1>8, FailedShapes
<1> QED BY <1>5, <1>6, <1>7, <1>8

LEMMA UpstreamShapes ==
    ASSUME ~ ReusesLedger, Safe, Shaped, Upstream
    PROVE  Shaped'
<1> USE DEF At
<1>1. phase \in Running \ {"start"} => Going(Nat, stream, ledger)
  BY DEF Shaped, Flowing
<1>2. CASE Begin
  BY <1>2, BeginShapes
<1>3. CASE CreateSucceeds
  BY <1>3, MoveShapes DEF CreateSucceeds, Running, Continuing, Repairing
<1>4. ASSUME NEW r \in BOOLEAN, CreateFails(r) PROVE Shaped'
  BY <1>4, FailShapes DEF CreateFails
<1>5. CASE ThinkingChunk
  <2>1. Going(Nat, stream, Think(ledger))
    BY <1>1, <1>5, ThinkKeeps DEF ThinkingChunk, Chunk, Running
  <2> QED BY <1>5, <2>1, ChunkShapes DEF ThinkingChunk
<1>6. CASE TextChunk
  <2>1. Going(Nat, stream, Say(ledger))
    BY <1>1, <1>6, SayKeeps DEF TextChunk, Chunk, Running
  <2> QED BY <1>6, <2>1, ChunkShapes DEF TextChunk
<1>7. CASE ToolTextChunk
  <2>1. Going(Nat, stream, ledger)
    BY <1>1, <1>7 DEF ToolTextChunk, Chunk, Running
  <2>2. \A args \in {"partial", "whole"} : Going(Nat, stream, HeuristicTool(ledger, args))
    BY <2>1, HeuristicToolKeeps DEF Args
  <2> QED BY <1>7, <2>2, ChunkShapes DEF ToolTextChunk
<1>8. ASSUME NEW c \in Calls, CallChunk(c) PROVE Shaped'
  <2>1. PICK kind \in ToolKind \cup {"unnamed"}, hasArgs \in BOOLEAN :
               Chunk(CallDelta(ledger, c, kind, hasArgs))
    BY <1>8 DEF CallChunk
  <2>2. Going(Nat, stream, ledger)
    BY <1>1, <2>1 DEF Chunk, Running
  <2>3. \A r \in CallDelta(ledger, c, kind, hasArgs) : Going(Nat, stream, r)
    BY <2>2, CallDeltaKeeps
  <2> QED BY <2>1, <2>3, ChunkShapes
<1>9. CASE FinishChunk
  BY <1>9, MoveShapes DEF FinishChunk, Running, Continuing, Repairing
<1>10. CASE Truncated
  BY <1>10, FailShapes DEF Truncated
<1>11. CASE Completes
  BY <1>11, CompletesShapes
<1>12. ASSUME NEW r \in BOOLEAN, StreamBreaks(r) PROVE Shaped'
  BY <1>12, FailShapes DEF StreamBreaks
<1>13. ASSUME NEW r \in BOOLEAN, RequestFails(r) PROVE Shaped'
  <2>1. out = <<>> /\ phase \in {"continue", "repair"} /\ phase \in Running \ {"start"}
    BY <1>13 DEF RequestFails, Running
  <2>2. CASE FinalError
    BY <2>1, <2>2, FinalErrorShapes
  <2>3. CASE UNCHANGED <<sent, out, held, committed, ledger, phase, todo>>
    <3>1. Continuing' /\ Repairing'
      BY <2>3 DEF Shaped, Continuing, Repairing
    <3> QED BY <2>1, <2>3, <3>1, MoveShapes
  <2> QED BY <1>13, <2>2, <2>3 DEF RequestFails
<1>14. CASE Continued
  BY <1>14, ContinuedShapes
<1>15. CASE ContinuesNothing
  BY <1>15, FinalErrorShapes DEF ContinuesNothing, Running
<1>16. CASE Repaired
  BY <1>16, RepairedShapes
<1>17. CASE RepairRefused
  <2>1. out = <<>> /\ phase = "repair" /\ phase \in Running \ {"start"}
    BY <1>17 DEF RepairRefused, Running
  <2>2. CASE FinalError
    BY <2>1, <2>2, FinalErrorShapes
  <2>3. CASE UNCHANGED <<sent, out, held, committed, ledger, phase, todo>>
    <3>1. Continuing' /\ Repairing'
      BY <2>3 DEF Shaped, Continuing, Repairing
    <3> QED BY <2>1, <2>3, <3>1, MoveShapes
  <2> QED BY <1>17, <2>2, <2>3 DEF RepairRefused
<1> QED BY <1>2, <1>3, <1>4, <1>5, <1>6, <1>7, <1>8, <1>9, <1>10, <1>11, <1>12, <1>13,
           <1>14, <1>15, <1>16, <1>17 DEF Upstream

\* An event is taken: it is the next of the stream.
LEMMA TakenFromStream ==
    ASSUME Typed, Yield
    PROVE  /\ Head(out) \in Event /\ sent' = Append(sent, Head(out))
           /\ Typed' /\ stream' = stream
           /\ stream[Len(sent) + 1] = Head(out) /\ Len(sent) + 1 \in 1 .. Len(stream)
           /\ \A i \in 1 .. Len(sent) : stream[i] = sent[i]
<1> DEFINE e == Head(out)
           rest == Tail(out)
<1>1. /\ out # <<>> /\ sent' = Append(sent, e) /\ out' = rest /\ held' = held
      /\ sent \in Seq(Event) /\ out \in Seq(Event) /\ held \in Seq(Event)
  BY DEF Yield, Typed
<1>2. /\ e \in Event /\ rest \in Seq(Event) /\ e = out[1] /\ Len(out) \in Nat \ {0}
      /\ Append(sent, e) \in Seq(Event) /\ Append(sent, e) \o rest = sent \o out
  BY <1>1, TakesHead, HeadTailProperties, EmptySeq
<1> HIDE DEF e, rest
<1>4. stream' = stream /\ Typed'
  BY <1>1, <1>2 DEF stream, Typed
<1>5. /\ Len(sent) \in Nat /\ sent \o out \in Seq(Event)
      /\ Len(sent \o out) = Len(sent) + Len(out)
      /\ \A i \in 1 .. Len(sent) + Len(out) :
           (sent \o out)[i] = IF i <= Len(sent) THEN sent[i] ELSE out[i - Len(sent)]
  BY <1>1, ConcatProperties, LenProperties
<1> DEFINE w == sent \o out
<1> HIDE DEF w
<1>6. /\ Len(w \o held) = Len(w) + Len(held) /\ Len(held) \in Nat
      /\ \A i \in 1 .. Len(w) + Len(held) :
           (w \o held)[i] = IF i <= Len(w) THEN w[i] ELSE held[i - Len(w)]
  BY <1>1, <1>5, ConcatProperties, LenProperties DEF w
<1>7. /\ Len(w) = Len(sent) + Len(out)
      /\ \A i \in 1 .. Len(w) : w[i] = IF i <= Len(sent) THEN sent[i] ELSE out[i - Len(sent)]
  BY <1>5 DEF w
<1>8. stream = w \o held
  BY DEF stream, w
<1>9. /\ \A i \in 1 .. Len(sent) + 1 : i \in 1 .. Len(w) /\ i \in 1 .. Len(w) + Len(held) /\ i <= Len(w)
      /\ ~ (Len(sent) + 1 <= Len(sent)) /\ (Len(sent) + 1) - Len(sent) = 1
      /\ Len(sent) + 1 \in 1 .. Len(sent) + 1
      /\ \A i \in 1 .. Len(sent) : i \in 1 .. Len(sent) + 1 /\ i <= Len(sent)
  BY <1>2, <1>5, <1>6, <1>7
<1>10. stream[Len(sent) + 1] = e /\ Len(sent) + 1 \in 1 .. Len(stream)
  BY <1>2, <1>6, <1>7, <1>8, <1>9
<1>11. \A i \in 1 .. Len(sent) : stream[i] = sent[i]
  BY <1>6, <1>7, <1>8, <1>9
<1> QED BY <1>1, <1>2, <1>4, <1>10, <1>11 DEF e

LEMMA YieldShapes == ASSUME Shaped, Yield PROVE Shaped'
<1>1. Typed' /\ stream' = stream
  BY TakenFromStream DEF Shaped
<1>2. /\ ledger' = ledger /\ phase' = phase /\ committed' = committed /\ held' = held
      /\ todo' = todo /\ out # <<>>
  BY DEF Yield, recoveryVars
<1> QED BY <1>1, <1>2
        DEF Shaped, Fresh, Flowing, Flushed, Continuing, Repairing, EndsWhole, RecoveredToolsAreWhole

LEMMA DisconnectShapes == ASSUME Shaped, Disconnect PROVE Shaped'
<1>1. /\ sent' = sent /\ out' = <<>> /\ held' = <<>> /\ phase' = "gone" /\ ledger' = ledger
  BY DEF Disconnect
<1>2. Typed /\ <<>> \in Seq(Event)
  BY EmptySeq DEF Shaped
<1>3. stream' = sent
  <2>1. sent \o <<>> = sent
    BY <1>2, ConcatEmptySeq DEF Typed
  <2> QED BY <1>1, <2>1 DEF stream
<1>4. WellFormed(sent)
  <2>1. /\ sent \o out \in Seq(Event) /\ Len(sent) \in Nat /\ Len(out) \in Nat
        /\ Len(sent \o out) = Len(sent) + Len(out)
        /\ \A i \in 1 .. Len(sent) : (sent \o out)[i] = sent[i] /\ i \in 1 .. Len(sent \o out)
    BY <1>2, ConcatFacts DEF Typed
  <2> DEFINE w == sent \o out
  <2> HIDE DEF w
  <2>2. /\ w \o held \in Seq(Event) /\ Len(held) \in Nat /\ Len(w \o held) = Len(w) + Len(held)
        /\ \A i \in 1 .. Len(w) : (w \o held)[i] = w[i]
    BY <1>2, <2>1, ConcatFacts DEF Typed, w
  <2>3. stream = w \o held
    BY DEF stream, w
  <2>4. /\ \A i \in 1 .. Len(sent) : sent[i] = stream[i]
        /\ Len(sent) <= Len(stream) /\ stream \in Seq(Event)
    BY <2>1, <2>2, <2>3 DEF w
  <2>5. WellFormed(stream) /\ sent \in Seq(Event)
    BY <1>2 DEF Shaped, Typed
  <2> QED BY <2>4, <2>5, WellFormedPrefix
<1>5. Typed' /\ WellFormed(stream)' /\ Flushed'
  BY <1>1, <1>2, <1>3, <1>4 DEF Typed, Flushed
<1>6. Fresh' /\ Flowing' /\ Continuing' /\ Repairing' /\ EndsWhole' /\ RecoveredToolsAreWhole'
  BY <1>1
     DEF Fresh, Flowing, Continuing, Repairing, EndsWhole, RecoveredToolsAreWhole, Running
<1> QED BY <1>5, <1>6 DEF Shaped

LEMMA InitShapes == ASSUME ~ ReusesLedger, Init PROVE Shaped
<1>1. PICK l \in {NewLedger} : ledger = Logged(l) /\ out = l.log
  BY DEF Init
<1>2. Logged(NewLedger) = NewLedger /\ NewLedger.log = <<>>
  <2>1. /\ NewLedger.log = <<>>
        /\ NewLedger = [NewLedger EXCEPT !.log = NewLedger.log]
    BY DEF NewLedger
  <2> QED BY <2>1 DEF Logged
<1>3. /\ sent = <<>> /\ out = <<>> /\ held = <<>> /\ committed = FALSE
      /\ ledger = NewLedger /\ phase = "start"
  BY <1>1, <1>2 DEF Init
<1>4. <<>> \in Seq(Event) /\ Len(<<>>) = 0 /\ (<<>> \o <<>>) \o <<>> = <<>>
  <2>1. <<>> \in Seq(Event) /\ Len(<<>>) = 0
    BY EmptySeq
  <2> QED BY <2>1, ConcatEmptySeq
<1>5. stream = <<>> /\ WellFormed(<<>>)
  BY <1>3, <1>4 DEF stream, WellFormed
<1>6. Typed /\ WellFormed(stream) /\ Fresh /\ Flushed
  BY <1>3, <1>4, <1>5 DEF Typed, Fresh, Flushed
<1>7. Flowing /\ Continuing /\ Repairing /\ EndsWhole /\ RecoveredToolsAreWhole
  BY <1>3 DEF Flowing, Continuing, Repairing, EndsWhole, RecoveredToolsAreWhole, Ended
<1> QED BY <1>6, <1>7 DEF Shaped

\* What the client has been sent, and what it will be sent, is the stream that the ledger
\* records, and it is well-formed at every step: whatever fails, and however often an
\* answer starts again or is continued (stream.py run, recovery.py, ledger.py).
THEOREM StreamShaped == ASSUME ~ ReusesLedger PROVE Spec => []Shaped
<1>1. Init => Shaped
  BY InitShapes
<1>2. Safe /\ Shaped /\ [Next]_vars => Shaped'
  <2> SUFFICES ASSUME Safe, Shaped, [Next]_vars PROVE Shaped'
      OBVIOUS
  <2>1. CASE UNCHANGED vars
    BY <2>1 DEF vars, streamVars, recoveryVars, Shaped, Typed, Fresh, Flowing, Flushed,
                Continuing, Repairing, EndsWhole, RecoveredToolsAreWhole, stream
  <2> QED BY <2>1, YieldShapes, DisconnectShapes, UpstreamShapes DEF Next
<1> QED BY <1>1, <1>2, StreamSafe, PTL DEF Spec

\* A broken stream is passed off as a tool use only with tools that got all of their
\* arguments (OpenAIChatRecovery.events and _repair_tool_args).
THEOREM RecoveredToolsAreWholeCorrect ==
    ASSUME ~ ReusesLedger PROVE Spec => []RecoveredToolsAreWhole
<1>1. Shaped => RecoveredToolsAreWhole
  BY DEF Shaped
<1> QED BY <1>1, StreamShaped, PTL

\* The blocks that the events s have opened and closed.
LEMMA LegalForContract ==
    ASSUME NEW s \in Seq(Event), NEW t, NEW e \in Event, Len(s) + 1 \in 1 .. Len(t),
           \A i \in 1 .. Len(s) : t[i] = s[i], t[Len(s) + 1] = e, LegalAt(t, Len(s) + 1)
    PROVE  Contract!Legal(s, e)
<1>1. Len(s) \in Nat /\ DOMAIN s = 1 .. Len(s) /\ (Len(s) + 1) - 1 = Len(s)
      /\ (s = <<>> <=> Len(s) + 1 = 1)
  <2>1. Len(s) \in Nat /\ DOMAIN s = 1 .. Len(s) /\ (s = <<>> <=> Len(s) = 0)
    BY EmptySeq, LenProperties
  <2> QED BY <2>1
<1>2. \A kind, b : b \in Contract!Blocks(s, kind) <=> \E i \in 1 .. Len(s) : Is(t, i, kind, b)
  BY <1>1 DEF Contract!Blocks, Is
<1>3. \A b : b \in Contract!OpenBlocks(s) <=>
         /\ \E i \in 1 .. Len(s) : Is(t, i, "open", b)
         /\ \A i \in 1 .. Len(s) : ~ Is(t, i, "stop", b)
  BY <1>2 DEF Contract!OpenBlocks
<1>4. /\ e.kind = "start" <=> Len(s) + 1 = 1
      /\ \A j \in 1 .. Len(s) : t[j].kind # "end"
      /\ e.kind = "open" => \A j \in 1 .. Len(s) : ~ Is(t, j, "open", e.block)
      /\ e.kind = "delta" =>
           \E j \in 1 .. Len(s) : Is(t, j, "open", e.block) /\ t[j].type = e.type
      /\ e.kind \in {"delta", "stop"} =>
           /\ \E j \in 1 .. Len(s) : Is(t, j, "open", e.block)
           /\ \A j \in 1 .. Len(s) : ~ Is(t, j, "stop", e.block)
      /\ e.kind = "end" =>
           /\ \E j \in 1 .. Len(s) : t[j].kind = "open"
           /\ \A j \in 1 .. Len(s) : t[j].kind = "open" =>
                \E i \in 1 .. Len(s) : Is(t, i, "stop", t[j].block)
  BY <1>1 DEF LegalAt
<1>5. e.kind = "start" <=> s = <<>>
  BY <1>1, <1>4
<1>6. ~ Contract!Has(s, "end")
  BY <1>1, <1>4 DEF Contract!Has
<1>7. e.kind = "open" => e.block \notin Contract!Blocks(s, "open")
  BY <1>2, <1>4
<1>8. e.kind \in {"delta", "stop"} => e.block \in Contract!OpenBlocks(s)
  BY <1>3, <1>4
<1>9. e.kind = "delta" =>
        \E i \in DOMAIN s : s[i].kind = "open" /\ s[i].block = e.block /\ s[i].type = e.type
  BY <1>1, <1>4 DEF Is
<1>10. e.kind = "end" => Contract!OpenBlocks(s) = {} /\ Contract!Has(s, "open")
  <2> SUFFICES ASSUME e.kind = "end"
               PROVE  Contract!OpenBlocks(s) = {} /\ Contract!Has(s, "open")
      OBVIOUS
  <2>1. ASSUME NEW b \in Contract!OpenBlocks(s) PROVE FALSE
    <3>1. PICK j \in 1 .. Len(s) : Is(t, j, "open", b)
      BY <1>3
    <3>2. \E i \in 1 .. Len(s) : Is(t, i, "stop", b)
      BY <1>4, <3>1 DEF Is
    <3> QED BY <1>3, <3>2
  <2>2. Contract!Has(s, "open")
    BY <1>1, <1>4 DEF Contract!Has
  <2> QED BY <2>1, <2>2
<1> QED BY <1>5, <1>6, <1>7, <1>8, <1>9, <1>10 DEF Contract!Legal

\* The adapter implements the contract of a stream: every event the client is sent may
\* follow those it has been sent (stream.py run and assert_anthropic_stream_contract).
THEOREM ContractSpecCorrect == ASSUME ~ ReusesLedger PROVE Spec => ContractSpec
<1>1. Init => Contract!Init
  BY DEF Init, Contract!Init
<1>2. Shaped /\ [Next]_vars => [Contract!Send]_sent
  <2> SUFFICES ASSUME Shaped, [Next]_vars, sent' # sent PROVE Contract!Send
      OBVIOUS
  <2>1. Yield
    BY DEF Next, vars, Disconnect, Upstream, Begin, CreateSucceeds, CreateFails, ThinkingChunk,
           TextChunk, ToolTextChunk, CallChunk, FinishChunk, Truncated, Completes, StreamBreaks,
           RequestFails, Continued, ContinuesNothing, Repaired, RepairRefused, Chunk, Fail,
           Recover, EarlyRetry, FinalError
  <2> DEFINE e == Head(out)
  <2>2. /\ e \in Event /\ sent' = Append(sent, e) /\ sent \in Seq(Event)
        /\ stream[Len(sent) + 1] = e /\ Len(sent) + 1 \in 1 .. Len(stream)
        /\ \A i \in 1 .. Len(sent) : stream[i] = sent[i]
    BY <2>1, TakenFromStream DEF Shaped, Typed
  <2> HIDE DEF e
  <2>3. /\ Len(sent') = Len(sent) + 1 /\ sent'[Len(sent')] = e
        /\ Len(sent) \in Nat /\ sent' \in Seq(Event)
    BY <2>2, AppendFacts
  <2>4. sent' # <<>>
    <3>1. Len(<<>>) = 0
      OBVIOUS
    <3> QED BY <2>3, <3>1
  <2>5. LegalAt(stream, Len(sent) + 1)
    BY <2>2 DEF Shaped, WellFormed
  <2>6. Contract!Legal(sent, e)
    BY <2>2, <2>5, LegalForContract
  <2>7. e \in Contract!Event
    BY <2>2 DEF Event, Contract!Event, BlockTypes, Contract!BlockType
  <2> QED BY <2>2, <2>3, <2>4, <2>6, <2>7 DEF Contract!Send
<1> QED BY <1>1, <1>2, StreamShaped, PTL DEF Spec, ContractSpec, Contract!Spec

\* In a well-formed sequence, one event opens a block and at most one closes it.
LEMMA ReceivedOnce ==
    ASSUME Typed, WellFormed(sent), NEW kind \in {"open", "stop"}, NEW b,
           \E k \in 1 .. Len(sent) : Is(sent, k, kind, b)
    PROVE  Received(kind, b) = 1
<1>1. PICK k \in 1 .. Len(sent) : Is(sent, k, kind, b)
  OBVIOUS
<1>2. DOMAIN sent = 1 .. Len(sent) /\ Len(sent) \in Nat
  BY LenProperties DEF Typed
<1>3. ASSUME NEW i \in 1 .. Len(sent), NEW j \in 1 .. Len(sent), i < j,
             Is(sent, i, kind, b), Is(sent, j, kind, b)
      PROVE  FALSE
  <2>1. i \in 1 .. j - 1
    BY <1>2, <1>3
  <2>2. LegalAt(sent, j)
    BY DEF WellFormed
  <2> QED BY <1>3, <2>1, <2>2 DEF LegalAt, Is
<1>4. \A j \in 1 .. Len(sent) : Is(sent, j, kind, b) => j = k
  <2> SUFFICES ASSUME NEW j \in 1 .. Len(sent), Is(sent, j, kind, b), j # k PROVE FALSE
      OBVIOUS
  <2>1. j < k \/ k < j
    BY <1>2
  <2> QED BY <1>1, <1>3, <2>1
<1>5. {i \in DOMAIN sent : sent[i].kind = kind /\ sent[i].block = b} = {k}
  BY <1>1, <1>2, <1>4 DEF Is
<1> QED BY <1>5, FS_Singleton DEF Received

\* A message that was not ended by an error reaches the client in full, with every delta
\* that the ledger has recorded: nothing stays in the holdback, and nothing is lost or
\* sent twice between a broken stream and its continuation (RecoveryHoldbackBuffer,
\* OpenAIChatRecovery.events).
THEOREM DeliveredInFullCorrect == ASSUME ~ ReusesLedger PROVE Spec => []DeliveredInFull
<1>1. Shaped => DeliveredInFull
  <2> SUFFICES ASSUME Shaped, phase \in {"completed", "recovered"}, out = <<>>
               PROVE  \A b \in DOMAIN ledger.blocks :
                        /\ Received("open", b) = 1 /\ Received("stop", b) = 1
                        /\ Received("delta", b) = ledger.blocks[b].deltas
      BY DEF DeliveredInFull
  <2>1. /\ Typed /\ held = <<>> /\ ledger.blocks \in Seq(Block)
        /\ Complete(stream, ledger.blocks)
    BY DEF Shaped, EndsWhole, Ended
  <2>2. stream = sent
    <3>1. sent \o <<>> = sent
      BY <2>1, ConcatEmptySeq DEF Typed
    <3> QED BY <2>1, <3>1 DEF stream
  <2>3. DOMAIN ledger.blocks = 1 .. Len(ledger.blocks)
    BY <2>1, LenProperties
  <2> SUFFICES ASSUME NEW b \in 1 .. Len(ledger.blocks)
               PROVE  /\ Received("open", b) = 1 /\ Received("stop", b) = 1
                      /\ Received("delta", b) = ledger.blocks[b].deltas
      BY <2>3
  <2>4. /\ \E k \in 1 .. Len(sent) : Is(sent, k, "open", b)
        /\ \E k \in 1 .. Len(sent) : Is(sent, k, "stop", b)
        /\ Deltas(sent, b) = ledger.blocks[b].deltas
        /\ WellFormed(sent)
    BY <2>1, <2>2 DEF Complete
  <2>5. Received("open", b) = 1
    BY <2>1, <2>4, ReceivedOnce
  <2>6. Received("stop", b) = 1
    BY <2>1, <2>4, ReceivedOnce
  <2>7. Received("delta", b) = Deltas(sent, b)
    <3>1. DOMAIN sent = 1 .. Len(sent)
      BY <2>1, LenProperties DEF Typed
    <3> QED BY <3>1 DEF Received, Deltas, Is
  <2> QED BY <2>4, <2>5, <2>6, <2>7
<1> QED BY <1>1, StreamShaped, PTL

-----------------------------------------------------------------------------
(***************************************************************************)
(* A ledger that serves a bridge has blocks of tools that none of its      *)
(* calls owns: they were opened by their numbers.                          *)
(***************************************************************************)
Serving(s, l, open) ==
    /\ Produced({}, s, l, open) /\ s \o l.log # <<>>
    /\ Owned(l, open) /\ \A c \in Calls : l.tools[c].block = 0
    /\ \A b \in open : l.blocks[b].type # "tool" => HasOwner(l, b)

LEMMA ServingFacts ==
    ASSUME NEW s, NEW l, NEW open, Serving(s, l, open)
    PROVE  /\ l \in Ledger /\ s \in Seq(Event) /\ l.blocks \in Seq(Block)
           /\ l.log \in Seq(Event) /\ s \o l.log \in Seq(Event) /\ WellFormed(s \o l.log)
           /\ Len(l.blocks) \in Nat /\ DOMAIN l.blocks = 1 .. Len(l.blocks)
           /\ open \subseteq 1 .. Len(l.blocks) /\ 0 \notin open
           /\ \A b \in open : l.blocks[b].type # "tool" =>
                \/ l.textOpen /\ b = l.text
                \/ l.thinkingOpen /\ b = l.thinking
<1>1. /\ l \in Ledger /\ s \in Seq(Event) /\ l.blocks \in Seq(Block)
      /\ l.log \in Seq(Event) /\ s \o l.log \in Seq(Event)
      /\ Len(l.blocks) \in Nat /\ DOMAIN l.blocks = 1 .. Len(l.blocks)
      /\ open \subseteq 1 .. Len(l.blocks) /\ \A b \in 1 .. Len(l.blocks) : b # 0
  BY ProducedTypes DEF Serving
<1>2. WellFormed(s \o l.log)
  BY DEF Serving, Produced, Records
<1>3. \A b \in open : l.blocks[b].type # "tool" =>
         \/ l.textOpen /\ b = l.text
         \/ l.thinkingOpen /\ b = l.thinking
  BY <1>1 DEF Serving, HasOwner
<1> QED BY <1>1, <1>2, <1>3

\* What is logged may be passed on.
LEMMA ServeLogged ==
    ASSUME NEW s, NEW l, NEW open, Serving(s, l, open)
    PROVE  /\ Serving(s \o l.log, Logged(l), open) /\ Logged(l).log = <<>>
           /\ Logged(l).blocks = l.blocks
           /\ Logged(l).thinkingOpen = l.thinkingOpen /\ Logged(l).thinking = l.thinking
<1> DEFINE t == s \o l.log
           m == Logged(l)
<1>1. /\ l \in Ledger /\ t \in Seq(Event) /\ t # <<>>
      /\ Records(t, l.blocks, open) /\ Owned(l, open)
  BY ServingFacts DEF Serving, Produced
<1>2. <<>> \in Seq(Event)
  BY EmptySeq
<1>3. /\ m \in Ledger /\ m.log = <<>> /\ m.blocks = l.blocks /\ m.tools = l.tools
      /\ m.text = l.text /\ m.thinking = l.thinking
      /\ m.textOpen = l.textOpen /\ m.thinkingOpen = l.thinkingOpen
  BY <1>1, <1>2 DEF Logged, Ledger
<1> HIDE DEF m, t
<1>4. t \o m.log = t
  BY <1>1, <1>3, ConcatEmptySeq
<1>5. Produced({}, t, m, open) /\ Owned(m, open)
  BY <1>1, <1>3, <1>4 DEF Produced, Owned, Tally
<1>6. \A b \in open : m.blocks[b].type # "tool" => HasOwner(m, b)
  BY <1>3 DEF Serving, HasOwner
<1> QED BY <1>1, <1>3, <1>4, <1>5, <1>6 DEF Serving, m, t

\* A block after those that are there, when only tools are open.
BlockServed(s, l, open, type) ==
    LET b == Len(l.blocks) + 1
        m == OpenBlock(l, type)
    IN  /\ Serving(s, m, open \cup {b}) /\ Len(m.blocks) = b
        /\ m.log = Append(l.log, [kind |-> "open", block |-> b, type |-> type])
        /\ type = "thinking" => m.thinkingOpen /\ m.thinking = b

LEMMA ServeOpen ==
    ASSUME NEW s, NEW l, NEW open, Serving(s, l, open), NEW type \in BlockTypes,
           \A b \in open : l.blocks[b].type = "tool"
    PROVE  BlockServed(s, l, open, type)
<1> DEFINE b == Len(l.blocks) + 1
           m == OpenBlock(l, type)
           e == [kind |-> "open", block |-> b, type |-> type]
<1>1. /\ l \in Ledger /\ open \subseteq 1 .. Len(l.blocks) /\ Len(l.blocks) \in Nat
      /\ Owned(l, open) /\ Produced({}, s, l, open)
  BY ServingFacts DEF Serving
<1>2. /\ Produced({}, s, m, open \cup {b}) /\ b \in Nat \ {0} /\ b \notin open
      /\ s \o m.log # <<>> /\ Opened(l, m, type)
  BY OpenBlockDoes DEF Serving
<1>3. m.log = Append(l.log, e)
  BY <1>1 DEF OpenBlock, Emit, Ledger
<1> HIDE DEF m
<1>4. l.textOpen = FALSE /\ l.thinkingOpen = FALSE
  BY <1>1 DEF Owned, Ledger
<1>5. /\ Len(m.blocks) = b /\ m.blocks[b].type = type /\ m.tools = l.tools
      /\ \A d \in 1 .. Len(l.blocks) : m.blocks[d] = l.blocks[d]
      /\ m.text = (IF type = "text" THEN b ELSE l.text)
      /\ m.textOpen <=> type = "text"
      /\ m.thinking = (IF type = "thinking" THEN b ELSE l.thinking)
      /\ m.thinkingOpen <=> type = "thinking"
  BY <1>2, <1>4 DEF Opened
<1>6. Owned(m, open \cup {b})
  <2>1. m.text \in 0 .. b /\ m.thinking \in 0 .. b
    BY <1>1, <1>5 DEF Owned
  <2>2. /\ m.textOpen => m.text \in open \cup {b} /\ m.blocks[m.text].type = "text"
        /\ m.thinkingOpen => m.thinking \in open \cup {b} /\ m.blocks[m.thinking].type = "thinking"
    BY <1>5
  <2>3. /\ \A c \in Calls : m.tools[c].block = 0 /\ l.tools[c].block = 0
        /\ \A c \in Calls : m.tools[c].held => m.tools[c].block # 0
    BY <1>1, <1>5 DEF Owned, Serving
  <2> QED BY <1>5, <2>1, <2>2, <2>3 DEF Owned
<1>7. \A d \in open \cup {b} : m.blocks[d].type # "tool" => HasOwner(m, d)
  <2>1. \A d \in open : m.blocks[d].type = "tool"
    BY <1>1, <1>5
  <2>2. type \in {"text", "thinking", "tool"}
    BY DEF BlockTypes
  <2>3. type # "tool" => HasOwner(m, b)
    BY <1>5, <2>2 DEF HasOwner
  <2> QED BY <1>5, <2>1, <2>3
<1> QED BY <1>2, <1>3, <1>5, <1>6, <1>7 DEF Serving, BlockServed, m

LEMMA ServeDelta ==
    ASSUME NEW s, NEW l, NEW open, Serving(s, l, open), NEW b \in open
    PROVE  LET m == Delta(l, b, "none")
           IN  /\ Serving(s, m, open) /\ Len(m.blocks) = Len(l.blocks)
               /\ m.log = Append(l.log, [kind |-> "delta", block |-> b,
                                         type |-> l.blocks[b].type])
               /\ m.thinkingOpen = l.thinkingOpen /\ m.thinking = l.thinking
<1> DEFINE m == Delta(l, b, "none")
<1>1. /\ l \in Ledger /\ open \subseteq 1 .. Len(l.blocks) /\ Owned(l, open)
      /\ Produced({}, s, l, open) /\ "none" \in Args
  BY ServingFacts DEF Serving, Args
<1>2. Produced({}, s, m, open) /\ s \o m.log # <<>> /\ Extended(l, m, b, "none")
  BY <1>1, DeltaDoes
<1>3. m.log = Append(l.log, [kind |-> "delta", block |-> b, type |-> l.blocks[b].type])
  BY <1>1 DEF Delta, Emit, Ledger
<1> HIDE DEF m
<1>4. /\ Len(m.blocks) = Len(l.blocks) /\ m.tools = l.tools
      /\ \A d \in 1 .. Len(l.blocks) : m.blocks[d].type = l.blocks[d].type
      /\ m.text = l.text /\ m.thinking = l.thinking
      /\ m.textOpen = l.textOpen /\ m.thinkingOpen = l.thinkingOpen
  BY <1>2 DEF Extended, SameContent
<1>5. Owned(m, open)
  <2>1. \A c \in Calls : m.tools[c].block = 0 /\ ~ m.tools[c].held
    BY <1>1, <1>4 DEF Owned, Serving
  <2>2. /\ l.textOpen => l.text \in 1 .. Len(l.blocks)
        /\ l.thinkingOpen => l.thinking \in 1 .. Len(l.blocks)
    BY <1>1 DEF Owned
  <2>3. /\ m.textOpen => m.text \in open /\ m.blocks[m.text].type = "text"
        /\ m.thinkingOpen => m.thinking \in open /\ m.blocks[m.thinking].type = "thinking"
    BY <1>1, <1>4, <2>2 DEF Owned
  <2>4. m.text \in 0 .. Len(m.blocks) /\ m.thinking \in 0 .. Len(m.blocks)
    BY <1>1, <1>4 DEF Owned
  <2> QED BY <2>1, <2>3, <2>4 DEF Owned
<1>6. \A d \in open : m.blocks[d].type # "tool" => HasOwner(m, d)
  <2> SUFFICES ASSUME NEW d \in open, m.blocks[d].type # "tool" PROVE HasOwner(m, d)
      OBVIOUS
  <2>1. l.blocks[d].type # "tool"
    BY <1>1, <1>4
  <2>2. HasOwner(l, d)
    BY <2>1 DEF Serving
  <2> QED BY <1>4, <2>2 DEF HasOwner
<1> QED BY <1>2, <1>3, <1>4, <1>5, <1>6 DEF Serving, m

LEMMA ServeStop ==
    ASSUME NEW s, NEW l, NEW open, Serving(s, l, open), NEW b \in open
    PROVE  LET m == StopBlock(l, b)
           IN  /\ Serving(s, m, open \ {b}) /\ Stopped(l, m, b)
               /\ m.log = Append(l.log, [kind |-> "stop", block |-> b,
                                         type |-> l.blocks[b].type])
<1> DEFINE m == StopBlock(l, b)
<1>1. /\ l \in Ledger /\ open \subseteq 1 .. Len(l.blocks) /\ Owned(l, open)
      /\ Produced({}, s, l, open)
  BY ServingFacts DEF Serving
<1>2. Produced({}, s, m, open \ {b}) /\ s \o m.log # <<>> /\ Stopped(l, m, b)
  BY <1>1, StopBlockDoes
<1>3. m.log = Append(l.log, [kind |-> "stop", block |-> b, type |-> l.blocks[b].type])
  BY <1>1 DEF StopBlock, Emit, Ledger
<1> HIDE DEF m
<1>4. /\ m.blocks = l.blocks /\ m.tools = l.tools
      /\ m.text = l.text /\ m.thinking = l.thinking
      /\ m.textOpen <=> l.textOpen /\ l.text # b
      /\ m.thinkingOpen <=> l.thinkingOpen /\ l.thinking # b
  BY <1>2 DEF Stopped
<1>5. Owned(m, open \ {b})
  <2>1. \A c \in Calls : m.tools[c].block = 0 /\ l.tools[c].block = 0
    BY <1>4 DEF Serving
  <2> QED BY <1>1, <1>4, <2>1 DEF Owned
<1>6. \A d \in open \ {b} : m.blocks[d].type # "tool" => HasOwner(m, d)
  BY <1>4 DEF Serving, HasOwner
<1> QED BY <1>2, <1>3, <1>4, <1>5, <1>6 DEF Serving, m

\* message_delta and an error.
LEMMA ServeOther ==
    ASSUME NEW s, NEW l, NEW open, Serving(s, l, open), NEW kind \in {"usage", "error"}
    PROVE  LET m == Emit(l, kind, 0, "message")
           IN  /\ Serving(s, m, open) /\ m.blocks = l.blocks
               /\ m.log = Append(l.log, [kind |-> kind, block |-> 0, type |-> "message"])
               /\ m.thinkingOpen = l.thinkingOpen /\ m.thinking = l.thinking
<1> DEFINE m == Emit(l, kind, 0, "message")
<1>1. l \in Ledger /\ Owned(l, open) /\ Produced({}, s, l, open)
  BY ServingFacts DEF Serving
<1>2. Produced({}, s, m, open) /\ s \o m.log # <<>>
  BY OtherDoes DEF Serving
<1>3. /\ m.log = Append(l.log, [kind |-> kind, block |-> 0, type |-> "message"])
      /\ m.blocks = l.blocks /\ m.tools = l.tools
      /\ m.text = l.text /\ m.thinking = l.thinking
      /\ m.textOpen = l.textOpen /\ m.thinkingOpen = l.thinkingOpen
  BY <1>1 DEF Emit, Ledger
<1> HIDE DEF m
<1>4. Owned(m, open)
  BY <1>1, <1>3 DEF Owned
<1>5. \A b \in open : m.blocks[b].type # "tool" => HasOwner(m, b)
  BY <1>3 DEF Serving, HasOwner
<1> QED BY <1>2, <1>3, <1>4, <1>5 DEF Serving, m

\* close_all_blocks closes the text or the thinking that is open, and no tool.
LEMMA ServeCloseAll ==
    ASSUME NEW s, NEW l, NEW open, Serving(s, l, open)
    PROVE  /\ CloseAll(l).blocks = l.blocks
           /\ \E rest \in SUBSET open :
                /\ Serving(s, CloseAll(l), rest)
                /\ \A b \in rest : l.blocks[b].type = "tool"
<1> DEFINE k == IF l.thinkingOpen THEN StopBlock(l, l.thinking) ELSE l
           m == IF k.textOpen THEN StopBlock(k, k.text) ELSE k
<1>1. l \in Ledger /\ Owned(l, open)
  BY ServingFacts DEF Serving
<1>2. PICK o \in SUBSET open : Serving(s, k, o) /\ k.blocks = l.blocks /\ ~ k.thinkingOpen
  <2>1. CASE l.thinkingOpen
    <3>1. l.thinking \in open
      BY <1>1, <2>1 DEF Owned
    <3>2. /\ Serving(s, StopBlock(l, l.thinking), open \ {l.thinking})
          /\ Stopped(l, StopBlock(l, l.thinking), l.thinking)
      BY <3>1, ServeStop
    <3> QED BY <2>1, <3>2 DEF Stopped
  <2>2. CASE ~ l.thinkingOpen
    BY <2>2
  <2> QED BY <2>1, <2>2
<1> HIDE DEF k
<1>3. PICK rest \in SUBSET o : /\ Serving(s, m, rest) /\ m.blocks = k.blocks
                               /\ ~ m.thinkingOpen /\ ~ m.textOpen
  <2>1. CASE k.textOpen
    <3>1. k.text \in o
      BY <1>2, <2>1 DEF Owned, Serving
    <3>2. Serving(s, StopBlock(k, k.text), o \ {k.text}) /\ Stopped(k, StopBlock(k, k.text), k.text)
      BY <1>2, <3>1, ServeStop
    <3> QED BY <1>2, <2>1, <3>2 DEF Stopped
  <2>2. CASE ~ k.textOpen
    BY <1>2, <2>2
  <2> QED BY <2>1, <2>2
<1>4. m = CloseContent(l)
  BY DEF CloseContent, k
<1> HIDE DEF m
<1>5. BlocksOf(m, Calls) = {}
  BY <1>3 DEF BlocksOf, Serving
<1>6. ForEach("stop", {}) = <<>>
  <2>1. OneEach(ForEach("stop", {}), "stop", {})
    BY FS_EmptySet, ForEachFacts
  <2> DEFINE q == ForEach("stop", {})
  <2> HIDE DEF q
  <2>2. q \in Seq(Event) /\ Len(q) \in Nat /\ \A i \in 1 .. Len(q) : q[i].block \in {}
    BY <2>1 DEF OneEach, q
  <2>3. 1 \notin 1 .. Len(q)
    BY <2>2
  <2>4. Len(q) = 0
    BY <2>2, <2>3
  <2>5. q = <<>>
    BY <2>2, <2>4, EmptySeq
  <2> QED BY <2>5 DEF q
<1>7. CloseAll(l) = m
  <2>1. CloseAll(l) = [m EXCEPT !.log = m.log \o <<>>]
    BY <1>4, <1>5, <1>6 DEF CloseAll
  <2>2. m \in Ledger /\ m.log \in Seq(Event)
    BY <1>3, ServingFacts
  <2>3. m.log \o <<>> = m.log
    BY <2>2, ConcatEmptySeq
  <2> QED BY <2>1, <2>2, <2>3 DEF Ledger
<1>8. \A b \in rest : l.blocks[b].type = "tool"
  BY <1>2, <1>3, ServingFacts
<1> QED BY <1>2, <1>3, <1>7, <1>8

\* message_stop: the message is whole if no block is open.
LEMMA ServeEnd ==
    ASSUME NEW s, NEW l, NEW open, Serving(s, l, open)
    PROVE  LET m == EndMessage(l)
               e == [kind |-> "end", block |-> 0, type |-> "message"]
           IN  /\ m \in Ledger /\ m.log = Append(l.log, e) /\ m.log \in Seq(Event)
               /\ s \o m.log = Append(s \o l.log, e) /\ s \o m.log \in Seq(Event)
               /\ \E k \in 1 .. Len(s \o m.log) : (s \o m.log)[k].kind = "end"
               /\ open = {} /\ l.blocks # <<>> => WellFormed(s \o m.log)
<1> DEFINE m == EndMessage(l)
           e == [kind |-> "end", block |-> 0, type |-> "message"]
           t == s \o l.log
<1>1. /\ l \in Ledger /\ s \in Seq(Event) /\ l.log \in Seq(Event) /\ t \in Seq(Event)
      /\ Records(t, l.blocks, open)
  BY ServingFacts DEF Serving, Produced
<1>2. e \in Event /\ e.kind = "end"
  BY DEF Event
<1>3. m = [l EXCEPT !.log = Append(l.log, e)]
  BY DEF EndMessage, Emit
<1> HIDE DEF m, e, t
<1>4. s \o Append(l.log, e) = Append(t, e) /\ Append(l.log, e) \in Seq(Event)
  BY <1>1, <1>2, LogAppend DEF t
<1>5. /\ Append(t, e) \in Seq(Event) /\ Len(Append(t, e)) = Len(t) + 1
      /\ Append(t, e)[Len(t) + 1] = e /\ Len(t) + 1 \in 1 .. Len(t) + 1
  BY <1>1, <1>2, AppendFacts
<1>6. open = {} /\ l.blocks # <<>> => WellFormed(Append(t, e))
  BY <1>1, <1>2, RecordsEnd
<1>7. m \in Ledger /\ m.log = Append(l.log, e)
  BY <1>1, <1>3, <1>4 DEF Ledger
<1> QED BY <1>2, <1>4, <1>5, <1>6, <1>7 DEF m, e, t

-----------------------------------------------------------------------------
(***************************************************************************)
(* What of the target has reached the stream s, by the places of marks.    *)
(***************************************************************************)
IsMark(e) == e.kind \in {"open", "stop"}
Renumbered(e) == [e EXCEPT !.block = @ + 1]

Matches(s, t) ==
    /\ \A i, j \in 1 .. Len(t) : i <= j /\ IsMark(t[i]) /\ IsMark(t[j]) =>
         \E k, m \in 1 .. Len(s) : k <= m /\ s[k] = Renumbered(t[i]) /\ s[m] = Renumbered(t[j])
    /\ \A k \in 1 .. Len(s) : IsMark(s[k]) /\ s[k].block > 1 =>
         \E i \in 1 .. Len(t) : s[k] = Renumbered(t[i])
    /\ \A k, m \in 1 .. Len(s) :
         IsMark(s[k]) /\ IsMark(s[m]) /\ s[k].block > 1 /\ s[m].block = 1 => m < k

\* Nothing but the block of thinking.
AllOne(s) == \A k \in 1 .. Len(s) : IsMark(s[k]) => s[k].block = 1

LEMMA RenumberedIs ==
    ASSUME NEW e \in Event, IsMark(e)
    PROVE  /\ Renumbered(e) \in Event /\ IsMark(Renumbered(e))
           /\ Renumbered(e) = [kind |-> e.kind, block |-> e.block + 1, type |-> e.type]
           /\ e.block \in Nat \ {0} /\ e.type \in BlockTypes
<1>1. /\ e = [kind |-> e.kind, block |-> e.block, type |-> e.type]
      /\ e.block \in Nat \ {0} /\ e.type \in BlockTypes /\ e.kind \in {"open", "stop"}
  BY DEF Event, IsMark
<1>2. Renumbered(e) = [kind |-> e.kind, block |-> e.block + 1, type |-> e.type]
  BY <1>1 DEF Renumbered
<1>3. e.block + 1 \in Nat \ {0}
  BY <1>1
<1> QED BY <1>1, <1>2, <1>3 DEF Event, IsMark

LEMMA MatchesNone ==
    ASSUME NEW s \in Seq(Event), AllOne(s)
    PROVE  Matches(s, <<>>)
<1>1. Len(<<>>) = 0 /\ 1 .. 0 = {}
  OBVIOUS
<1>2. \A k \in 1 .. Len(s) : ~ (IsMark(s[k]) /\ s[k].block > 1)
  BY DEF AllOne
<1> QED BY <1>1, <1>2 DEF Matches

LEMMA MatchesSent ==
    ASSUME NEW s \in Seq(Event), NEW t \in Seq(Event), Matches(s, t),
           NEW e \in Event, ~ IsMark(e)
    PROVE  Matches(Append(s, e), t)
<1> DEFINE a == Append(s, e)
<1>1. /\ Len(a) = Len(s) + 1 /\ a[Len(s) + 1] = e
      /\ \A k \in 1 .. Len(s) : a[k] = s[k] /\ k \in 1 .. Len(s) + 1
      /\ \A k \in 1 .. Len(s) + 1 : k \in 1 .. Len(s) \/ k = Len(s) + 1
  BY AppendFacts
<1> HIDE DEF a
<1>2. \A k \in 1 .. Len(a) : IsMark(a[k]) => k \in 1 .. Len(s) /\ a[k] = s[k]
  BY <1>1
<1>3. ASSUME NEW i \in 1 .. Len(t), NEW j \in 1 .. Len(t), i <= j, IsMark(t[i]), IsMark(t[j])
      PROVE  \E k, m \in 1 .. Len(a) : k <= m /\ a[k] = Renumbered(t[i]) /\ a[m] = Renumbered(t[j])
  <2>1. PICK k \in 1 .. Len(s), m \in 1 .. Len(s) :
               k <= m /\ s[k] = Renumbered(t[i]) /\ s[m] = Renumbered(t[j])
    BY <1>3 DEF Matches
  <2> QED BY <1>1, <2>1
<1>4. \A k \in 1 .. Len(a) : IsMark(a[k]) /\ a[k].block > 1 =>
         \E i \in 1 .. Len(t) : a[k] = Renumbered(t[i])
  BY <1>2 DEF Matches
<1>5. \A k, m \in 1 .. Len(a) :
         IsMark(a[k]) /\ IsMark(a[m]) /\ a[k].block > 1 /\ a[m].block = 1 => m < k
  BY <1>2 DEF Matches
<1> QED BY <1>3, <1>4, <1>5 DEF Matches, a

LEMMA MatchesGiven ==
    ASSUME NEW s \in Seq(Event), NEW t \in Seq(Event), Matches(s, t),
           NEW e \in Event, ~ IsMark(e)
    PROVE  Matches(s, Append(t, e))
<1> DEFINE a == Append(t, e)
<1>1. /\ Len(a) = Len(t) + 1 /\ a[Len(t) + 1] = e
      /\ \A k \in 1 .. Len(t) : a[k] = t[k] /\ k \in 1 .. Len(t) + 1
      /\ \A k \in 1 .. Len(t) + 1 : k \in 1 .. Len(t) \/ k = Len(t) + 1
  BY AppendFacts
<1> HIDE DEF a
<1>2. \A k \in 1 .. Len(a) : IsMark(a[k]) => k \in 1 .. Len(t) /\ a[k] = t[k]
  BY <1>1
<1>3. ASSUME NEW k \in 1 .. Len(s), IsMark(s[k]), s[k].block > 1
      PROVE  \E i \in 1 .. Len(a) : s[k] = Renumbered(a[i])
  <2>1. PICK i \in 1 .. Len(t) : s[k] = Renumbered(t[i])
    BY <1>3 DEF Matches
  <2> QED BY <1>1, <2>1
<1>4. \A i, j \in 1 .. Len(a) : i <= j /\ IsMark(a[i]) /\ IsMark(a[j]) =>
         \E k, m \in 1 .. Len(s) : k <= m /\ s[k] = Renumbered(a[i]) /\ s[m] = Renumbered(a[j])
  BY <1>2 DEF Matches
<1>5. \A k, m \in 1 .. Len(s) :
         IsMark(s[k]) /\ IsMark(s[m]) /\ s[k].block > 1 /\ s[m].block = 1 => m < k
  BY DEF Matches
<1> QED BY <1>3, <1>4, <1>5 DEF Matches, a

\* A block that the target opens or closes.
LEMMA MatchesBoth ==
    ASSUME NEW s \in Seq(Event), NEW t \in Seq(Event), Matches(s, t),
           NEW e \in Event, IsMark(e)
    PROVE  Matches(Append(s, Renumbered(e)), Append(t, e))
<1> DEFINE r == Renumbered(e)
           a == Append(s, r)
           b == Append(t, e)
           n == Len(s) + 1
<1>1. r \in Event /\ r.block > 1 /\ r.block # 1
  <2>1. r \in Event /\ r.block = e.block + 1 /\ e.block \in Nat \ {0}
    BY RenumberedIs
  <2> QED BY <2>1
<1> HIDE DEF r
<1>2. /\ Len(a) = n /\ a[n] = r /\ n \in 1 .. n
      /\ \A k \in 1 .. Len(s) : a[k] = s[k] /\ k \in 1 .. n
      /\ \A k \in 1 .. n : k \in 1 .. Len(s) \/ k = n
  BY <1>1, AppendFacts
<1>3. /\ Len(b) = Len(t) + 1 /\ b[Len(t) + 1] = e /\ Len(t) + 1 \in 1 .. Len(t) + 1
      /\ \A k \in 1 .. Len(t) : b[k] = t[k] /\ k \in 1 .. Len(t) + 1
      /\ \A k \in 1 .. Len(t) + 1 : k \in 1 .. Len(t) \/ k = Len(t) + 1
  BY AppendFacts
<1>4. \A k \in 1 .. Len(s) : k <= n /\ k < n
  BY LenProperties
<1>5. n <= n /\ \A j \in 1 .. Len(t) : ~ (Len(t) + 1 <= j) /\ j <= j
  BY <1>3, LenProperties
<1> HIDE DEF a, b, n
<1>6. ASSUME NEW i \in 1 .. Len(b), NEW j \in 1 .. Len(b), i <= j, IsMark(b[i]), IsMark(b[j])
      PROVE  \E k, m \in 1 .. Len(a) : k <= m /\ a[k] = Renumbered(b[i]) /\ a[m] = Renumbered(b[j])
  <2>1. CASE i \in 1 .. Len(t) /\ j \in 1 .. Len(t)
    <3>1. PICK k \in 1 .. Len(s), m \in 1 .. Len(s) :
               k <= m /\ s[k] = Renumbered(t[i]) /\ s[m] = Renumbered(t[j])
      BY <1>3, <1>6, <2>1 DEF Matches
    <3> QED BY <1>2, <1>3, <2>1, <3>1
  <2>2. CASE i \in 1 .. Len(t) /\ j = Len(t) + 1
    <3>1. PICK k \in 1 .. Len(s) : s[k] = Renumbered(t[i])
      BY <1>3, <1>5, <1>6, <2>2 DEF Matches
    <3> QED BY <1>2, <1>3, <1>4, <2>2, <3>1 DEF r
  <2>3. CASE i = Len(t) + 1 /\ j = Len(t) + 1
    BY <1>2, <1>3, <1>5, <2>3 DEF r
  <2> QED BY <1>3, <1>5, <1>6, <2>1, <2>2, <2>3
<1>7. ASSUME NEW k \in 1 .. Len(a), IsMark(a[k]), a[k].block > 1
      PROVE  \E i \in 1 .. Len(b) : a[k] = Renumbered(b[i])
  <2>1. CASE k \in 1 .. Len(s)
    <3>1. PICK i \in 1 .. Len(t) : s[k] = Renumbered(t[i])
      BY <1>2, <1>7, <2>1 DEF Matches
    <3> QED BY <1>2, <1>3, <2>1, <3>1
  <2>2. CASE k = n
    BY <1>2, <1>3, <2>2 DEF r
  <2> QED BY <1>2, <2>1, <2>2
<1>8. ASSUME NEW k \in 1 .. Len(a), NEW m \in 1 .. Len(a), IsMark(a[k]), IsMark(a[m]),
             a[k].block > 1, a[m].block = 1
      PROVE  m < k
  <2>1. m \in 1 .. Len(s)
    BY <1>1, <1>2, <1>8
  <2>2. CASE k \in 1 .. Len(s)
    BY <1>2, <1>8, <2>1, <2>2 DEF Matches
  <2>3. CASE k = n
    BY <1>4, <2>1, <2>3
  <2> QED BY <1>2, <2>2, <2>3
<1> QED BY <1>6, <1>7, <1>8 DEF Matches, a, b, r

\* The blocks of the target are those of the ledger, but for the first.
BlocksMatch(l, open, t) ==
    /\ \A b : b \in Theirs!Blocks(t, "open") <=> b \in 1 .. Len(l.blocks) - 1
    /\ \A i \in 1 .. Len(t) : t[i].kind = "open" =>
         t[i].block + 1 \in 1 .. Len(l.blocks) /\ l.blocks[t[i].block + 1].type = t[i].type
    /\ \A b : b \in Theirs!OpenBlocks(t) <=> b \in Nat /\ b + 1 \in open

LEMMA MatchedBlocks ==
    ASSUME NEW s, NEW l, NEW open, Serving(s, l, open), l.log = <<>>, 1 \notin open,
           l.blocks # <<>>, NEW t \in Seq(Event), Matches(s, t)
    PROVE  BlocksMatch(l, open, t)
<1>1. /\ s \in Seq(Event) /\ l.blocks \in Seq(Block) /\ Len(l.blocks) \in Nat
      /\ open \subseteq 1 .. Len(l.blocks) /\ s \o l.log = s
  BY ServingFacts, ConcatEmptySeq
<1>2. Records(s, l.blocks, open)
  BY <1>1 DEF Serving, Produced
<1>3. DOMAIN t = 1 .. Len(t) /\ \A i \in 1 .. Len(t) : t[i] \in Event
  BY LenProperties, ElementOfSeq
<1>4. \A k \in 1 .. Len(s) : s[k] \in Event
  BY <1>1, ElementOfSeq
<1>5. ASSUME NEW i \in 1 .. Len(t), IsMark(t[i])
      PROVE  /\ t[i].block \in Nat \ {0}
             /\ \E k \in 1 .. Len(s) :
                  /\ s[k].kind = t[i].kind /\ s[k].block = t[i].block + 1
                  /\ s[k].type = t[i].type
  <2>1. i <= i
    BY LenProperties
  <2>2. PICK k \in 1 .. Len(s) : s[k] = Renumbered(t[i])
    BY <1>5, <2>1 DEF Matches
  <2>3. /\ Renumbered(t[i]) = [kind |-> t[i].kind, block |-> t[i].block + 1, type |-> t[i].type]
        /\ t[i].block \in Nat \ {0}
    BY <1>3, <1>5, RenumberedIs
  <2> QED BY <2>2, <2>3
<1>6. ASSUME NEW k \in 1 .. Len(s), IsMark(s[k]), s[k].block # 1
      PROVE  \E i \in 1 .. Len(t) :
                  /\ t[i].kind = s[k].kind /\ t[i].block + 1 = s[k].block
                  /\ t[i].type = s[k].type /\ t[i].block \in Nat
  <2>1. s[k].block > 1
    BY <1>4, <1>6 DEF Event, IsMark
  <2>2. PICK i \in 1 .. Len(t) : s[k] = Renumbered(t[i])
    BY <1>6, <2>1 DEF Matches
  <2>3. t[i] \in Event
    BY <1>3
  <2>4. s[k].kind = t[i].kind
    BY <2>2, <2>3 DEF Renumbered, Event
  <2>5. IsMark(t[i])
    BY <1>6, <2>4 DEF IsMark
  <2>6. /\ Renumbered(t[i]) = [kind |-> t[i].kind, block |-> t[i].block + 1, type |-> t[i].type]
        /\ t[i].block \in Nat \ {0}
    BY <2>3, <2>5, RenumberedIs
  <2> QED BY <2>2, <2>6
<1>7. ASSUME NEW i \in 1 .. Len(t), t[i].kind = "open"
      PROVE  /\ t[i].block \in 1 .. Len(l.blocks) - 1
             /\ t[i].block + 1 \in 1 .. Len(l.blocks)
             /\ l.blocks[t[i].block + 1].type = t[i].type
  <2>1. PICK k \in 1 .. Len(s) :
               s[k].kind = "open" /\ s[k].block = t[i].block + 1 /\ s[k].type = t[i].type
    BY <1>5, <1>7 DEF IsMark
  <2>2. s[k].block \in 1 .. Len(l.blocks) /\ s[k].type = l.blocks[s[k].block].type
    BY <1>2, <2>1 DEF Records
  <2>3. t[i].block \in Nat \ {0}
    BY <1>5, <1>7 DEF IsMark
  <2> QED BY <1>1, <2>1, <2>2, <2>3
<1>8. ASSUME NEW b \in 1 .. Len(l.blocks) - 1
      PROVE  \E i \in 1 .. Len(t) : t[i].kind = "open" /\ t[i].block = b
  <2>1. b + 1 \in 1 .. Len(l.blocks) /\ b + 1 # 1 /\ b \in Nat
    BY <1>1
  <2>2. PICK k \in 1 .. Len(s) : Is(s, k, "open", b + 1)
    BY <1>2, <2>1 DEF Records
  <2>3. PICK i \in 1 .. Len(t) :
               t[i].kind = "open" /\ t[i].block + 1 = b + 1 /\ t[i].block \in Nat
    BY <1>6, <2>1, <2>2 DEF Is, IsMark
  <2> QED BY <2>1, <2>3
<1>9. \A b : b \in Theirs!Blocks(t, "open") <=> b \in 1 .. Len(l.blocks) - 1
  <2>1. \A b : b \in Theirs!Blocks(t, "open") <=>
                 \E i \in 1 .. Len(t) : t[i].kind = "open" /\ t[i].block = b
    BY <1>3 DEF Theirs!Blocks
  <2> QED BY <1>7, <1>8, <2>1
<1>10. \A b : b \in Theirs!Blocks(t, "stop") <=>
                 \E i \in 1 .. Len(t) : t[i].kind = "stop" /\ t[i].block = b
  BY <1>3 DEF Theirs!Blocks
<1>11. ASSUME NEW b \in 1 .. Len(l.blocks) - 1
       PROVE  b \in Theirs!Blocks(t, "stop") <=> b + 1 \notin open
  <2>1. b + 1 \in 1 .. Len(l.blocks) /\ b + 1 # 1 /\ b \in Nat
    BY <1>1
  <2>2. b + 1 \notin open <=> \E k \in 1 .. Len(s) : Is(s, k, "stop", b + 1)
    BY <1>2, <2>1 DEF Records
  <2>3. ASSUME b \in Theirs!Blocks(t, "stop") PROVE \E k \in 1 .. Len(s) : Is(s, k, "stop", b + 1)
    <3>1. PICK i \in 1 .. Len(t) : t[i].kind = "stop" /\ t[i].block = b
      BY <1>10, <2>3
    <3> QED BY <1>5, <3>1 DEF IsMark, Is
  <2>4. ASSUME NEW k \in 1 .. Len(s), Is(s, k, "stop", b + 1) PROVE b \in Theirs!Blocks(t, "stop")
    <3>1. PICK i \in 1 .. Len(t) :
               t[i].kind = "stop" /\ t[i].block + 1 = b + 1 /\ t[i].block \in Nat
      BY <1>6, <2>1, <2>4 DEF Is, IsMark
    <3>2. t[i].block = b
      BY <2>1, <3>1
    <3> QED BY <1>10, <3>1, <3>2
  <2> QED BY <2>2, <2>3, <2>4
<1>12. \A b : b \in Theirs!OpenBlocks(t) <=> b \in Nat /\ b + 1 \in open
  <2>1. \A b : b \in Nat /\ b + 1 \in open => b \in 1 .. Len(l.blocks) - 1
    <3> SUFFICES ASSUME NEW b \in Nat, b + 1 \in open PROVE b \in 1 .. Len(l.blocks) - 1
        OBVIOUS
    <3>1. b + 1 \in 1 .. Len(l.blocks) /\ b + 1 # 1
      BY <1>1
    <3> QED BY <1>1, <3>1
  <2>2. \A b \in 1 .. Len(l.blocks) - 1 : b \in Nat
    BY <1>1
  <2>3. \A b : b \in Theirs!OpenBlocks(t) <=>
                 b \in Theirs!Blocks(t, "open") /\ b \notin Theirs!Blocks(t, "stop")
    BY DEF Theirs!OpenBlocks
  <2> QED BY <1>9, <1>11, <2>1, <2>2, <2>3
<1> QED BY <1>7, <1>9, <1>12 DEF BlocksMatch

-----------------------------------------------------------------------------
(***************************************************************************)
(* The bridge: what the client has taken and what it is about to be given  *)
(* is one stream.                                                          *)
(***************************************************************************)
bridgeStream == bridgeSent \o bridgeOut

HasEnd(s) == \E i \in 1 .. Len(s) : s[i].kind = "end"

BridgeTypes ==
    /\ bridgeSent \in Seq(Event) /\ bridgeOut \in Seq(Event) /\ target \in Seq(Event)
    /\ bridgeLedger \in Ledger /\ bridgeLedger.log = <<>>

\* As long as the head thinks, there is its block.
Thinks(s, l) ==
    /\ Serving(s, l, {1}) /\ Len(l.blocks) = 1 /\ l.thinkingOpen /\ l.thinking = 1
    /\ AllOne(s \o l.log)

\* After that, the target's.
Serves(s, l) ==
    \E open : Serving(s, l, open) /\ 1 \notin open /\ l.blocks # <<>>

HeadFirst ==
    /\ bridgePhase = "start" => bridgeLedger = NewLedger /\ bridgeStream = <<>>
    /\ bridgePhase = "head" => Thinks(bridgeStream, bridgeLedger)
    /\ bridgePhase \in {"start", "head", "delegate"} => target = <<>>

TargetServed ==
    /\ bridgePhase \in {"delegate", "target"} /\ ~ TargetEnded =>
         Serves(bridgeStream, bridgeLedger)
    /\ bridgePhase \in {"delegate", "target", "done"} =>
         Matches(bridgeStream, target) /\ (TargetEnded => HasEnd(bridgeStream))

MessageEnds ==
    /\ bridgePhase = "done" => TargetEnded
    /\ bridgePhase \in {"broken", "cut"} => HasEnd(bridgeStream)

BInv ==
    /\ BridgeTypes /\ HeadFirst /\ TargetServed /\ MessageEnds
    /\ bridgePhase # "cut" => WellFormed(bridgeStream)

\* A step that yields what the ledger m has logged.
LEMMA YieldsStream ==
    ASSUME BridgeTypes, bridgeOut = <<>>, bridgeSent' = bridgeSent,
           NEW m \in Ledger, Yields(m)
    PROVE  /\ bridgeStream = bridgeSent /\ bridgeStream' = bridgeSent \o m.log
           /\ bridgeLedger' = Logged(m) /\ bridgeLedger' \in Ledger /\ bridgeLedger'.log = <<>>
           /\ bridgeSent' \in Seq(Event) /\ bridgeOut' \in Seq(Event)
<1>1. m.log \in Seq(Event) /\ bridgeSent \in Seq(Event)
  BY DEF Ledger, BridgeTypes
<1>2. bridgeSent \o <<>> = bridgeSent
  BY <1>1, ConcatEmptySeq
<1>3. Logged(m) \in Ledger /\ Logged(m).log = <<>>
  BY EmptySeq DEF Logged, Ledger
<1> QED BY <1>1, <1>2, <1>3 DEF Yields, bridgeStream

LEMMA InitBInv == BridgeInit => BInv
<1> SUFFICES ASSUME BridgeInit PROVE BInv
    OBVIOUS
<1>1. /\ bridgeSent = <<>> /\ bridgeOut = <<>> /\ bridgeLedger = NewLedger
      /\ bridgePhase = "start" /\ target = <<>>
  BY DEF BridgeInit
<1>2. <<>> \in Seq(Event) /\ <<>> \o <<>> = <<>> /\ Len(<<>>) = 0
  <2>1. <<>> \in Seq(Event) /\ Len(<<>>) = 0
    BY EmptySeq
  <2> QED BY <2>1, ConcatEmptySeq
<1>3. bridgeStream = <<>> /\ WellFormed(<<>>) /\ NewLedger.log = <<>>
  BY <1>1, <1>2 DEF bridgeStream, WellFormed, NewLedger
<1>4. NewLedger \in Ledger
  <2>1. NoCall \in CallState /\ <<>> \in Seq(Block)
    BY EmptySeq DEF NoCall, CallState
  <2> QED BY <1>2, <2>1 DEF NewLedger, Ledger
<1> QED BY <1>1, <1>2, <1>3, <1>4 DEF BInv, BridgeTypes, HeadFirst, TargetServed, MessageEnds

-----------------------------------------------------------------------------
(* The head.                                                               *)

LEMMA AllOneAppend ==
    ASSUME NEW s \in Seq(Event), NEW q \in Seq(Event), NEW e \in Event,
           AllOne(s \o q), IsMark(e) => e.block = 1
    PROVE  AllOne(s \o Append(q, e))
<1>1. s \o Append(q, e) = Append(s \o q, e) /\ s \o q \in Seq(Event)
  BY LogAppend, ConcatProperties
<1> DEFINE t == s \o q
<1> HIDE DEF t
<1>2. AllOne(Append(t, e))
  <2>1. AllOne(t) /\ t \in Seq(Event)
    BY <1>1 DEF t
  <2>2. /\ Len(Append(t, e)) = Len(t) + 1 /\ Append(t, e)[Len(t) + 1] = e
        /\ \A k \in 1 .. Len(t) : Append(t, e)[k] = t[k]
        /\ \A k \in 1 .. Len(t) + 1 : k \in 1 .. Len(t) \/ k = Len(t) + 1
    BY <2>1, AppendFacts
  <2> QED BY <2>1, <2>2 DEF AllOne
<1> QED BY <1>1, <1>2 DEF t

LEMMA ThinksLogged ==
    ASSUME NEW s, NEW l, Thinks(s, l)
    PROVE  /\ Thinks(s \o l.log, Logged(l)) /\ l \in Ledger
           /\ WellFormed(s \o l.log) /\ Logged(l).log = <<>>
<1>1. /\ Serving(s \o l.log, Logged(l), {1}) /\ Logged(l).log = <<>>
      /\ Logged(l).blocks = l.blocks
      /\ Logged(l).thinkingOpen = l.thinkingOpen /\ Logged(l).thinking = l.thinking
  BY ServeLogged DEF Thinks
<1>2. l \in Ledger /\ s \o l.log \in Seq(Event) /\ WellFormed(s \o l.log)
  BY ServingFacts DEF Thinks
<1> DEFINE t == s \o l.log
<1> HIDE DEF t
<1>3. t \o Logged(l).log = t
  BY <1>1, <1>2, ConcatEmptySeq DEF t
<1>4. AllOne(t)
  BY DEF Thinks, t
<1> QED BY <1>1, <1>2, <1>3, <1>4 DEF Thinks, t

LEMMA ThinkOnKeeps ==
    ASSUME NEW s, NEW l, Thinks(s, l)
    PROVE  Thinks(s, ThinkOn(l))
<1> DEFINE m == ThinkOn(l)
           e == [kind |-> "delta", block |-> 1, type |-> l.blocks[1].type]
<1>1. Serving(s, l, {1}) /\ Len(l.blocks) = 1 /\ l.thinkingOpen /\ l.thinking = 1
  BY DEF Thinks
<1>2. /\ Serving(s, m, {1}) /\ Len(m.blocks) = 1 /\ m.log = Append(l.log, e)
      /\ m.thinkingOpen /\ m.thinking = 1
  BY <1>1, ServeDelta DEF ThinkOn
<1>3. /\ s \in Seq(Event) /\ l.log \in Seq(Event) /\ l.blocks \in Seq(Block)
  BY <1>1, ServingFacts
<1>4. e \in Event /\ ~ IsMark(e)
  <2>1. l.blocks[1] \in Block
    BY <1>1, <1>3, ElementOfSeq
  <2> QED BY <2>1 DEF Event, Block, IsMark
<1> HIDE DEF m, e
<1>5. AllOne(s \o m.log)
  BY <1>2, <1>3, <1>4, AllOneAppend DEF Thinks
<1> QED BY <1>2, <1>5 DEF Thinks, m

LEMMA ThinkErrorKeeps ==
    ASSUME NEW s, NEW l, Thinks(s, l)
    PROVE  Thinks(s, TopLevelError(l))
<1> DEFINE m == TopLevelError(l)
           e == [kind |-> "error", block |-> 0, type |-> "message"]
<1>1. Serving(s, l, {1}) /\ Len(l.blocks) = 1 /\ l.thinkingOpen /\ l.thinking = 1
  BY DEF Thinks
<1>2. /\ Serving(s, m, {1}) /\ Len(m.blocks) = 1 /\ m.log = Append(l.log, e)
      /\ m.thinkingOpen /\ m.thinking = 1
  BY <1>1, ServeOther DEF TopLevelError
<1>3. s \in Seq(Event) /\ l.log \in Seq(Event)
  BY <1>1, ServingFacts
<1>4. e \in Event /\ ~ IsMark(e)
  BY DEF Event, IsMark
<1> HIDE DEF m, e
<1>5. AllOne(s \o m.log)
  BY <1>2, <1>3, <1>4, AllOneAppend DEF Thinks
<1> QED BY <1>2, <1>5 DEF Thinks, m

\* message_start and the block of thinking.
LEMMA ThinkOpens ==
    ASSUME NEW s, NEW l, Serving(s, l, {}), Len(l.blocks) = 0, AllOne(s \o l.log),
           NEW type \in BlockTypes, type = "thinking"
    PROVE  Thinks(s, OpenBlock(l, type))
<1> DEFINE m == OpenBlock(l, type)
           o == [kind |-> "open", block |-> 1, type |-> type]
<1>1. /\ Serving(s, m, {} \cup {Len(l.blocks) + 1}) /\ Len(m.blocks) = Len(l.blocks) + 1
      /\ m.log = Append(l.log, [kind |-> "open", block |-> Len(l.blocks) + 1, type |-> type])
      /\ m.thinkingOpen /\ m.thinking = Len(l.blocks) + 1
  <2>1. PICK open : open = {}
    OBVIOUS
  <2>2. Serving(s, l, open) /\ \A b \in open : l.blocks[b].type = "tool"
    BY <2>1
  <2>3. BlockServed(s, l, open, type)
    BY <2>2, ServeOpen
  <2> QED BY <2>1, <2>3 DEF BlockServed
<1>2. Len(l.blocks) + 1 = 1 /\ {} \cup {1} = {1}
  OBVIOUS
<1> HIDE DEF m
<1>3. /\ Serving(s, m, {1}) /\ Len(m.blocks) = 1 /\ m.log = Append(l.log, o)
      /\ m.thinkingOpen /\ m.thinking = 1
  BY <1>1, <1>2
<1>4. o \in Event /\ o.block = 1 /\ s \in Seq(Event) /\ l.log \in Seq(Event)
  BY ServingFacts DEF Event
<1> HIDE DEF o
<1>5. AllOne(s \o m.log)
  BY <1>3, <1>4, AllOneAppend
<1> QED BY <1>3, <1>5 DEF Thinks, m

LEMMA ThinkStarts == Thinks(<<>>, OpenBlock(StartMessage(NewLedger), "thinking"))
<1> DEFINE l == StartMessage(NewLedger)
           e == [kind |-> "start", block |-> 0, type |-> "message"]
<1>1. PICK open : Coherent({}, <<>>, l, open)
  BY StartDoes, UncountedKeeps DEF Going
<1>2. l.blocks = <<>> /\ Len(l.blocks) = 0 /\ \A c \in Calls : l.tools[c].block = 0
  BY DEF StartMessage, Emit, NewLedger, NoCall
<1>3. l.log = Append(<<>>, e)
  BY DEF StartMessage, Emit, NewLedger
<1> HIDE DEF l
<1>4. open = {}
  <2>1. open \subseteq 1 .. Len(l.blocks)
    BY <1>1, ProducedTypes DEF Coherent
  <2> QED BY <1>2, <2>1
<1>5. Serving(<<>>, l, open)
  BY <1>1, <1>2, <1>4 DEF Serving, Coherent
<1>6. e \in Event /\ ~ IsMark(e)
  BY DEF Event, IsMark
<1>7. <<>> \in Seq(Event) /\ AllOne(<<>> \o <<>>)
  <2>1. <<>> \in Seq(Event) /\ Len(<<>>) = 0
    BY EmptySeq
  <2>2. <<>> \o <<>> = <<>>
    BY <2>1, ConcatEmptySeq
  <2>3. \A k \in 1 .. Len(<<>>) : FALSE
    BY <2>1
  <2> HIDE DEF e
  <2> QED BY <2>1, <2>2, <2>3 DEF AllOne
<1> HIDE DEF e
<1>8. AllOne(<<>> \o l.log)
  BY <1>3, <1>6, <1>7, AllOneAppend
<1>9. PICK s : s = <<>>
  OBVIOUS
<1>10. PICK type \in BlockTypes : type = "thinking"
  BY DEF BlockTypes
<1>11. Serving(s, l, {}) /\ AllOne(s \o l.log)
  BY <1>4, <1>5, <1>8, <1>9
<1>12. Thinks(s, OpenBlock(l, type))
  BY <1>2, <1>11, <1>10, ThinkOpens
<1> QED BY <1>9, <1>10, <1>12 DEF l

LEMMA BeginHeadKeeps == ASSUME BInv, BeginHead PROVE BInv'
<1> DEFINE m == OpenBlock(StartMessage(NewLedger), "thinking")
<1>1. /\ bridgePhase = "start" /\ bridgeOut = <<>> /\ bridgePhase' = "head"
      /\ bridgeSent' = bridgeSent /\ target' = target /\ target = <<>>
      /\ bridgeLedger = NewLedger /\ Yields(m) /\ bridgeStream = <<>> /\ BridgeTypes
  BY DEF BInv, HeadFirst, BeginHead, AtPhase
<1>2. Thinks(<<>>, m)
  BY ThinkStarts
<1> HIDE DEF m
<1>3. /\ Thinks(<<>> \o m.log, Logged(m)) /\ m \in Ledger /\ WellFormed(<<>> \o m.log)
  BY <1>2, ThinksLogged
<1>4. /\ bridgeStream = bridgeSent /\ bridgeStream' = bridgeSent \o m.log
      /\ bridgeLedger' = Logged(m) /\ bridgeLedger' \in Ledger /\ bridgeLedger'.log = <<>>
      /\ bridgeSent' \in Seq(Event) /\ bridgeOut' \in Seq(Event)
  BY <1>1, <1>3, YieldsStream
<1>5. bridgeStream' = <<>> \o m.log
  BY <1>1, <1>4
<1> QED BY <1>1, <1>3, <1>4, <1>5
        DEF BInv, BridgeTypes, HeadFirst, TargetServed, MessageEnds

LEMMA HeadEventKeeps == ASSUME BInv, HeadEvent PROVE BInv'
<1>1. /\ bridgePhase = "head" /\ bridgeOut = <<>> /\ bridgePhase' = bridgePhase
      /\ bridgeSent' = bridgeSent /\ target' = target /\ target = <<>> /\ BridgeTypes
  BY DEF BInv, HeadFirst, HeadEvent, AtPhase
<1>2. PICK m \in {bridgeLedger, ThinkOn(bridgeLedger), ThinkOn(ThinkOn(bridgeLedger)),
                  TopLevelError(bridgeLedger)} : Yields(m)
  BY DEF HeadEvent
<1>3. bridgeStream = bridgeSent
  BY <1>1, ConcatEmptySeq DEF bridgeStream, BridgeTypes
<1>4. Thinks(bridgeSent, bridgeLedger)
  BY <1>1, <1>3 DEF BInv, HeadFirst
<1>5. Thinks(bridgeSent, m)
  BY <1>2, <1>4, ThinkOnKeeps, ThinkErrorKeeps
<1>6. /\ Thinks(bridgeSent \o m.log, Logged(m)) /\ m \in Ledger
      /\ WellFormed(bridgeSent \o m.log)
  BY <1>5, ThinksLogged
<1>7. /\ bridgeStream' = bridgeSent \o m.log
      /\ bridgeLedger' = Logged(m) /\ bridgeLedger' \in Ledger /\ bridgeLedger'.log = <<>>
      /\ bridgeSent' \in Seq(Event) /\ bridgeOut' \in Seq(Event)
  BY <1>1, <1>2, <1>6, YieldsStream
<1> QED BY <1>1, <1>6, <1>7
        DEF BInv, BridgeTypes, HeadFirst, TargetServed, MessageEnds

LEMMA DecideKeeps ==
    ASSUME BInv, AtPhase("head"), NEW l, Thinks(bridgeSent, l), Decide(l)
    PROVE  BInv'
<1> DEFINE m == StopBlock(l, 1)
           e == [kind |-> "stop", block |-> 1, type |-> l.blocks[1].type]
<1>1. /\ bridgePhase = "head" /\ bridgeOut = <<>> /\ bridgePhase' = "delegate"
      /\ bridgeSent' = bridgeSent /\ target' = target /\ target = <<>> /\ BridgeTypes
      /\ Yields(m) /\ Serving(bridgeSent, l, {1}) /\ Len(l.blocks) = 1
  BY DEF BInv, HeadFirst, Decide, AtPhase, Thinks
<1>2. /\ Serving(bridgeSent, m, {1} \ {1}) /\ Stopped(l, m, 1) /\ m.log = Append(l.log, e)
  <2>1. 1 \in {1} /\ Serving(bridgeSent, l, {1})
    BY <1>1
  <2> QED BY <2>1, ServeStop
<1>3. bridgeSent \in Seq(Event) /\ l.log \in Seq(Event) /\ l.blocks \in Seq(Block)
  BY <1>1, ServingFacts
<1>4. e \in Event /\ e.block = 1
  <2>1. l.blocks[1] \in Block
    BY <1>1, <1>3, ElementOfSeq
  <2> QED BY <2>1 DEF Event, Block
<1> HIDE DEF m, e
<1>5. AllOne(bridgeSent \o m.log)
  BY <1>2, <1>3, <1>4, AllOneAppend DEF Thinks
<1>6. /\ m.blocks # <<>> /\ m \in Ledger /\ WellFormed(bridgeSent \o m.log)
      /\ bridgeSent \o m.log \in Seq(Event)
  <2>1. m.blocks = l.blocks
    BY <1>2 DEF Stopped
  <2> QED BY <1>1, <1>2, <2>1, ServingFacts, EmptySeq
<1>7. /\ bridgeStream' = bridgeSent \o m.log
      /\ bridgeLedger' = Logged(m) /\ bridgeLedger' \in Ledger /\ bridgeLedger'.log = <<>>
      /\ bridgeSent' \in Seq(Event) /\ bridgeOut' \in Seq(Event)
  BY <1>1, <1>6, YieldsStream
<1>8. Serves(bridgeStream, bridgeLedger)'
  <2>1. Serving(bridgeSent \o m.log, Logged(m), {1} \ {1}) /\ Logged(m).blocks = m.blocks
    BY <1>2, ServeLogged
  <2>2. 1 \notin {1} \ {1}
    OBVIOUS
  <2> QED BY <1>6, <1>7, <2>1, <2>2 DEF Serves
<1>9. Matches(bridgeStream', target')
  BY <1>1, <1>5, <1>6, <1>7, MatchesNone
<1>10. ~ TargetEnded'
  BY <1>1 DEF TargetEnded, Theirs!Has
<1> QED BY <1>1, <1>6, <1>7, <1>8, <1>9, <1>10
        DEF BInv, BridgeTypes, HeadFirst, TargetServed, MessageEnds

LEMMA HeadOverKeeps == ASSUME BInv, HeadEnds \/ HeadFails PROVE BInv'
<1>1. AtPhase("head") /\ bridgeStream = bridgeSent
  <2>1. bridgeSent \o <<>> = bridgeSent
    BY ConcatEmptySeq DEF BInv, BridgeTypes
  <2> QED BY <2>1 DEF HeadEnds, HeadFails, AtPhase, bridgeStream
<1>2. Thinks(bridgeSent, bridgeLedger)
  BY <1>1 DEF BInv, HeadFirst, AtPhase
<1>3. PICK l \in {bridgeLedger, ThinkOn(bridgeLedger)} : Decide(l)
  BY DEF HeadEnds, HeadFails
<1>4. Thinks(bridgeSent, l)
  BY <1>2, <1>3, ThinkOnKeeps
<1> QED BY <1>1, <1>3, <1>4, DecideKeeps

\* The generator only moves on, or out.
LEMMA MovesKeep ==
    ASSUME BInv, HeadUnavailable \/ TargetUnavailable \/ BeginTarget
    PROVE  BInv'
<1>1. /\ bridgeSent' = bridgeSent /\ bridgeOut' = bridgeOut /\ bridgeLedger' = bridgeLedger
      /\ target' = target /\ bridgePhase \in {"start", "delegate"}
      /\ bridgePhase' = "raised" \/ (bridgePhase = "delegate" /\ bridgePhase' = "target")
  BY DEF HeadUnavailable, TargetUnavailable, BeginTarget, AtPhase
<1>2. bridgeStream' = bridgeStream /\ TargetEnded' = TargetEnded
  BY <1>1 DEF bridgeStream, TargetEnded, Theirs!Has
<1>3. BridgeTypes' /\ HeadFirst' /\ MessageEnds'
  BY <1>1 DEF BInv, BridgeTypes, HeadFirst, MessageEnds
<1>4. TargetServed'
  BY <1>1, <1>2 DEF BInv, TargetServed
<1>5. WellFormed(bridgeStream)'
  BY <1>1, <1>2 DEF BInv
<1> QED BY <1>3, <1>4, <1>5 DEF BInv

LEMMA BridgeYieldKeeps ==
    ASSUME BInv, BridgeYield
    PROVE  BInv' /\ bridgeStream' = bridgeStream
<1>1. /\ bridgeSent \in Seq(Event) /\ bridgeOut \in Seq(Event) /\ bridgeOut # <<>>
      /\ bridgeSent' = Append(bridgeSent, Head(bridgeOut)) /\ bridgeOut' = Tail(bridgeOut)
      /\ bridgeLedger' = bridgeLedger /\ target' = target /\ bridgePhase' = bridgePhase
  BY DEF BInv, BridgeTypes, BridgeYield
<1>2. /\ bridgeSent' \in Seq(Event) /\ bridgeOut' \in Seq(Event)
      /\ bridgeStream' = bridgeStream
  BY <1>1, TakesHead DEF bridgeStream
<1>3. TargetEnded' = TargetEnded
  BY <1>1 DEF TargetEnded, Theirs!Has
<1>4. BridgeTypes' /\ HeadFirst'
  BY <1>1, <1>2 DEF BInv, BridgeTypes, HeadFirst
<1>5. TargetServed' /\ MessageEnds' /\ (bridgePhase' # "cut" => WellFormed(bridgeStream'))
  BY <1>1, <1>2, <1>3 DEF BInv, TargetServed, MessageEnds
<1> QED BY <1>2, <1>4, <1>5 DEF BInv

-----------------------------------------------------------------------------
(* The target.                                                             *)

\* A ledger that is ready for the next event of a target which has sent t.
Ready(s, l, open, t) ==
    /\ Serving(s, l, open) /\ l.log = <<>> /\ 1 \notin open /\ l.blocks # <<>>
    /\ t \in Seq(Event) /\ Matches(s, t)

\* The ledger m has been given the target's event e.
Relayed(s, t, e, m) ==
    /\ Matches(s \o m.log, Append(t, e))
    /\ \E open : Serving(s, m, open) /\ 1 \notin open /\ m.blocks # <<>>

LEMMA ReadyFacts ==
    ASSUME NEW s, NEW l, NEW open, NEW t, Ready(s, l, open, t)
    PROVE  /\ BlocksMatch(l, open, t) /\ s \in Seq(Event) /\ l \in Ledger /\ s \o l.log = s
           /\ l.blocks \in Seq(Block) /\ Len(l.blocks) \in Nat \ {0}
           /\ open \subseteq 1 .. Len(l.blocks) /\ t \in Seq(Event)
           /\ \A e \in Event : s \o Append(l.log, e) = Append(s, e)
           /\ \A b \in open : b - 1 \in Theirs!OpenBlocks(t) /\ (b - 1) + 1 = b
<1>1. /\ Serving(s, l, open) /\ l.log = <<>> /\ 1 \notin open /\ l.blocks # <<>>
      /\ t \in Seq(Event) /\ Matches(s, t)
  BY DEF Ready
<1>2. BlocksMatch(l, open, t)
  BY <1>1, MatchedBlocks
<1>3. /\ s \in Seq(Event) /\ l \in Ledger /\ s \o l.log = s /\ l.log \in Seq(Event)
      /\ l.blocks \in Seq(Block) /\ Len(l.blocks) \in Nat
      /\ open \subseteq 1 .. Len(l.blocks)
  BY <1>1, ServingFacts, ConcatEmptySeq
<1>4. Len(l.blocks) # 0
  BY <1>1, <1>3, EmptySeq
<1>5. \A e \in Event : s \o Append(l.log, e) = Append(s, e)
  BY <1>3, LogAppend
<1>6. \A b \in open : b - 1 \in Nat /\ (b - 1) + 1 = b
  BY <1>3
<1>7. \A b \in open : b - 1 \in Theirs!OpenBlocks(t)
  BY <1>2, <1>6 DEF BlocksMatch
<1> QED BY <1>1, <1>2, <1>3, <1>4, <1>5, <1>6, <1>7

\* Opened by its number, the block comes after the others all the same.
LEMMA StartsNext ==
    ASSUME NEW l \in Ledger, NEW type \in BlockTypes
    PROVE  StartAt(l, Len(l.blocks) + 1, type) = OpenBlock(l, type)
<1> DEFINE n == Len(l.blocks)
           r == [type |-> type, args |-> "none", deltas |-> 0]
           f == [i \in DOMAIN l.blocks \cup {n + 1} |-> IF i = n + 1 THEN r ELSE l.blocks[i]]
<1>1. l.blocks \in Seq(Block) /\ n \in Nat /\ DOMAIN l.blocks = 1 .. n
  BY LenProperties DEF Ledger
<1>2. r \in Block
  BY DEF Block, Args
<1> HIDE DEF r
<1>3. f = Append(l.blocks, r)
  <2>1. DOMAIN l.blocks \cup {n + 1} = 1 .. n + 1
    BY <1>1
  <2>2. \A i \in 1 .. n : l.blocks[i] \in Block /\ i # n + 1 /\ i \in 1 .. n + 1
    BY <1>1, ElementOfSeq
  <2>3. \A i \in 1 .. n + 1 : i \in 1 .. n \/ i = n + 1
    BY <1>1
  <2> DEFINE a == Append(l.blocks, r)
  <2>4. /\ a \in Seq(Block) /\ Len(a) = n + 1 /\ a[n + 1] = r
        /\ \A i \in 1 .. n : a[i] = l.blocks[i]
    BY <1>1, <1>2, AppendProperties
  <2>5. DOMAIN a = 1 .. n + 1 /\ a = [i \in 1 .. n + 1 |-> a[i]]
    BY <2>4, LenProperties, <1>1
  <2> HIDE DEF a
  <2>6. f = [i \in 1 .. n + 1 |-> IF i = n + 1 THEN r ELSE l.blocks[i]]
    BY <2>1
  <2>7. \A i \in 1 .. n + 1 : a[i] = IF i = n + 1 THEN r ELSE l.blocks[i]
    BY <2>2, <2>3, <2>4
  <2>8. [i \in 1 .. n + 1 |-> a[i]] = [i \in 1 .. n + 1 |-> IF i = n + 1 THEN r ELSE l.blocks[i]]
    BY <2>7
  <2> HIDE DEF f
  <2>9. f = a
    BY <2>5, <2>6, <2>8, Zenon
  <2> QED BY <2>9 DEF a
<1> DEFINE m == Emit(l, "open", n + 1, type)
<1>4. m.blocks = l.blocks
  BY DEF Emit, Ledger
<1> HIDE DEF m, f
<1>5. [m EXCEPT !.blocks       = f,
                !.text         = IF type = "text" THEN n + 1 ELSE m.text,
                !.textOpen     = m.textOpen \/ type = "text",
                !.thinking     = IF type = "thinking" THEN n + 1 ELSE m.thinking,
                !.thinkingOpen = m.thinkingOpen \/ type = "thinking"]
        = StartAt(l, n + 1, type)
  BY DEF StartAt, m, f, r
<1>6. [m EXCEPT !.blocks       = Append(m.blocks, r),
                !.text         = IF type = "text" THEN n + 1 ELSE m.text,
                !.textOpen     = m.textOpen \/ type = "text",
                !.thinking     = IF type = "thinking" THEN n + 1 ELSE m.thinking,
                !.thinkingOpen = m.thinkingOpen \/ type = "thinking"]
        = OpenBlock(l, type)
  BY DEF OpenBlock, m, r
<1> QED BY <1>3, <1>4, <1>5, <1>6, Zenon

\* Nothing is passed on: of message_start, or of a delta of stray tags.
LEMMA RelaysNothing ==
    ASSUME NEW s, NEW l, NEW open, NEW t, Ready(s, l, open, t), NEW e \in Event, ~ IsMark(e)
    PROVE  Relayed(s, t, e, l)
<1>1. s \o l.log = s /\ s \in Seq(Event) /\ t \in Seq(Event)
  BY ReadyFacts
<1>2. Matches(s, Append(t, e))
  BY <1>1, MatchesGiven DEF Ready
<1> QED BY <1>1, <1>2 DEF Ready, Relayed

\* An event that is no mark, after which the ledger is m.
LEMMA RelaysUnmarked ==
    ASSUME NEW s, NEW l, NEW open, NEW t, Ready(s, l, open, t), NEW e \in Event, ~ IsMark(e),
           NEW m, Serving(s, m, open), m.blocks # <<>>,
           NEW d \in Event, ~ IsMark(d), m.log = Append(l.log, d)
    PROVE  Relayed(s, t, e, m)
<1>1. s \o m.log = Append(s, d) /\ s \in Seq(Event) /\ t \in Seq(Event)
  BY ReadyFacts
<1>2. Matches(Append(s, d), t)
  BY <1>1, MatchesSent DEF Ready
<1>3. Append(s, d) \in Seq(Event)
  BY <1>1, AppendFacts
<1>4. Matches(Append(s, d), Append(t, e))
  BY <1>1, <1>2, <1>3, MatchesGiven
<1> QED BY <1>1, <1>4 DEF Ready, Relayed

LEMMA RelaysDelta ==
    ASSUME NEW s, NEW l, NEW open, NEW t, Ready(s, l, open, t), NEW e \in Event,
           e.kind = "delta", Theirs!Legal(t, e)
    PROVE  Relayed(s, t, e, Forward(l, e))
<1> DEFINE b == e.block + 1
           m == Delta(l, b, "none")
           d == [kind |-> "delta", block |-> b, type |-> l.blocks[b].type]
<1>1. e.block \in Theirs!OpenBlocks(t) /\ ~ IsMark(e)
  BY DEF Theirs!Legal, IsMark
<1>2. b \in open /\ e.block \in Nat
  BY <1>1, ReadyFacts DEF BlocksMatch
<1>3. Forward(l, e) = m
  BY DEF Forward, Shifted
<1> HIDE DEF b
<1>4. Serving(s, m, open) /\ Len(m.blocks) = Len(l.blocks) /\ m.log = Append(l.log, d)
  BY <1>2, ServeDelta DEF Ready
<1>5. d \in Event /\ ~ IsMark(d)
  <2>1. b \in 1 .. Len(l.blocks) /\ b \in Nat \ {0}
    BY <1>2, ReadyFacts
  <2>2. l.blocks[b] \in Block
    BY <2>1, ReadyFacts, ElementOfSeq
  <2> QED BY <2>1, <2>2 DEF Event, Block, IsMark
<1> HIDE DEF m, d
<1>6. m.blocks # <<>>
  <2>1. Len(m.blocks) \in Nat \ {0}
    BY <1>4, ReadyFacts
  <2> QED BY <2>1
<1>7. Relayed(s, t, e, m)
  BY <1>1, <1>4, <1>5, <1>6, RelaysUnmarked
<1> QED BY <1>3, <1>7

LEMMA RelaysOther ==
    ASSUME NEW s, NEW l, NEW open, NEW t, Ready(s, l, open, t), NEW e \in Event,
           NEW kind \in {"usage", "error"}, e.kind = kind
    PROVE  Relayed(s, t, e, Forward(l, e))
<1> DEFINE m == Emit(l, kind, 0, "message")
           d == [kind |-> kind, block |-> 0, type |-> "message"]
<1>1. Forward(l, e) = m
  BY DEF Forward, Usage, TopLevelError
<1>2. Serving(s, m, open) /\ m.blocks = l.blocks /\ m.log = Append(l.log, d)
  BY ServeOther DEF Ready
<1>3. d \in Event /\ ~ IsMark(d) /\ ~ IsMark(e)
  BY DEF Event, IsMark
<1> HIDE DEF m, d
<1>4. Relayed(s, t, e, m)
  BY <1>2, <1>3, RelaysUnmarked DEF Ready
<1> QED BY <1>1, <1>4

\* A mark, renumbered.
LEMMA RelaysMarked ==
    ASSUME NEW s, NEW l, NEW open, NEW t, Ready(s, l, open, t), NEW e \in Event, IsMark(e),
           NEW m, NEW rest, Serving(s, m, rest), m.blocks # <<>>, 1 \notin rest,
           m.log = Append(l.log, Renumbered(e))
    PROVE  Relayed(s, t, e, m)
<1>1. s \in Seq(Event) /\ t \in Seq(Event) /\ Renumbered(e) \in Event
  BY ReadyFacts, RenumberedIs
<1>2. s \o m.log = Append(s, Renumbered(e))
  BY <1>1, ReadyFacts
<1>3. Matches(Append(s, Renumbered(e)), Append(t, e))
  BY <1>1, MatchesBoth DEF Ready
<1> QED BY <1>2, <1>3 DEF Relayed

LEMMA RelaysStop ==
    ASSUME NEW s, NEW l, NEW open, NEW t, Ready(s, l, open, t), NEW e \in Event,
           e.kind = "stop", Theirs!Legal(t, e),
           \E i \in DOMAIN t : t[i] = [e EXCEPT !.kind = "open"]
    PROVE  Relayed(s, t, e, Forward(l, e))
<1> DEFINE b == e.block + 1
           m == StopBlock(l, b)
<1>1. e.block \in Theirs!OpenBlocks(t) /\ IsMark(e)
  BY DEF Theirs!Legal, IsMark
<1>2. b \in open /\ e.block \in Nat
  BY <1>1, ReadyFacts DEF BlocksMatch
<1>3. Forward(l, e) = m
  BY DEF Forward, Shifted
<1>4. l.blocks[b].type = e.type
  <2>1. PICK i \in 1 .. Len(t) : t[i] = [e EXCEPT !.kind = "open"]
    BY ReadyFacts, LenProperties
  <2>2. t[i].kind = "open" /\ t[i].block = e.block /\ t[i].type = e.type
    BY <2>1 DEF Event
  <2> QED BY <2>2, ReadyFacts DEF BlocksMatch
<1> HIDE DEF b
<1>5. /\ Serving(s, m, open \ {b}) /\ Stopped(l, m, b)
      /\ m.log = Append(l.log, [kind |-> "stop", block |-> b, type |-> l.blocks[b].type])
  <2>1. Serving(s, l, open)
    BY DEF Ready
  <2> QED BY <1>2, <2>1, ServeStop
<1>6. Renumbered(e) = [kind |-> "stop", block |-> b, type |-> e.type]
  BY <1>1, RenumberedIs DEF b
<1>7. m.blocks # <<>> /\ 1 \notin open \ {b}
  BY <1>5 DEF Stopped, Ready
<1> HIDE DEF m
<1>8. Relayed(s, t, e, m)
  BY <1>1, <1>4, <1>5, <1>6, <1>7, RelaysMarked
<1> QED BY <1>3, <1>8

LEMMA RelaysOpen ==
    ASSUME NEW s, NEW l, NEW open, NEW t, Ready(s, l, open, t), NEW e \in Event,
           e.kind = "open", e.block = Cardinality(Theirs!Blocks(t, "open")) + 1,
           \A b \in Theirs!OpenBlocks(t) :
             \E i \in DOMAIN t : t[i].kind = "open" /\ t[i].block = b /\ t[i].type = "tool"
    PROVE  Relayed(s, t, e, Forward(l, e))
<1> DEFINE n == Len(l.blocks)
           m == OpenBlock(l, e.type)
<1>1. IsMark(e) /\ e.type \in BlockTypes
  BY DEF Event, IsMark
<1>2. n \in Nat \ {0} /\ l \in Ledger
  BY ReadyFacts
<1>3. e.block = n
  <2>1. Theirs!Blocks(t, "open") = 1 .. n - 1
    BY ReadyFacts DEF BlocksMatch
  <2>2. Cardinality(1 .. n - 1) = n - 1
    <3>1. PICK k \in Int : k = n - 1
      BY <1>2
    <3>2. Cardinality(1 .. k) = IF 1 > k THEN 0 ELSE k - 1 + 1
      BY FS_Interval
    <3> QED BY <1>2, <3>1, <3>2
  <2> QED BY <1>2, <2>1, <2>2
<1>4. Forward(l, e) = m
  <2>1. Forward(l, e) = StartAt(l, n + 1, e.type)
    BY <1>3 DEF Forward, Shifted
  <2> QED BY <1>1, <1>2, <2>1, StartsNext
<1>5. \A b \in open : l.blocks[b].type = "tool"
  <2> SUFFICES ASSUME NEW b \in open PROVE l.blocks[b].type = "tool"
      OBVIOUS
  <2>1. b - 1 \in Theirs!OpenBlocks(t) /\ (b - 1) + 1 = b
    BY ReadyFacts
  <2>2. PICK i \in 1 .. Len(t) : t[i].kind = "open" /\ t[i].block = b - 1 /\ t[i].type = "tool"
    BY <2>1, ReadyFacts, LenProperties
  <2> QED BY <2>1, <2>2, ReadyFacts DEF BlocksMatch
<1>6. /\ Serving(s, m, open \cup {n + 1}) /\ Len(m.blocks) = n + 1
      /\ m.log = Append(l.log, [kind |-> "open", block |-> n + 1, type |-> e.type])
  <2>1. PICK type \in BlockTypes : type = e.type
    BY <1>1
  <2>2. BlockServed(s, l, open, type)
    BY <1>5, ServeOpen DEF Ready
  <2> QED BY <2>1, <2>2 DEF BlockServed
<1>7. Renumbered(e) = [kind |-> "open", block |-> n + 1, type |-> e.type]
  BY <1>1, <1>3, RenumberedIs
<1> HIDE DEF m, n
<1>8. m.blocks # <<>> /\ 1 \notin open \cup {n + 1}
  BY <1>2, <1>6 DEF Ready
<1>9. Relayed(s, t, e, m)
  BY <1>1, <1>6, <1>7, <1>8, RelaysMarked
<1> QED BY <1>4, <1>9

\* As long as the target has not ended its message, there is a ledger for its next event.
LEMMA TargetIsReady ==
    ASSUME BInv, AtPhase("target"), ~ TargetEnded
    PROVE  /\ bridgeStream = bridgeSent /\ BridgeTypes
           /\ \E open : Ready(bridgeSent, bridgeLedger, open, target)
<1>1. /\ bridgePhase = "target" /\ bridgeOut = <<>> /\ BridgeTypes
      /\ Matches(bridgeStream, target) /\ Serves(bridgeStream, bridgeLedger)
  BY DEF AtPhase, BInv, TargetServed
<1>2. bridgeStream = bridgeSent
  BY <1>1, ConcatEmptySeq DEF bridgeStream, BridgeTypes
<1> QED BY <1>1, <1>2 DEF Serves, Ready, BridgeTypes

LEMMA RelayKeeps ==
    ASSUME BInv, AtPhase("target"), ~ TargetEnded, NEW e \in Event, e.kind # "end",
           bridgePhase' = bridgePhase, bridgeSent' = bridgeSent, target' = Append(target, e),
           NEW m, Yields(m), Relayed(bridgeSent, target, e, m)
    PROVE  BInv'
<1>1. /\ bridgePhase = "target" /\ bridgeOut = <<>> /\ BridgeTypes /\ target \in Seq(Event)
  BY DEF AtPhase, BInv, BridgeTypes
<1>2. PICK open : Serving(bridgeSent, m, open) /\ 1 \notin open /\ m.blocks # <<>>
  BY DEF Relayed
<1>3. m \in Ledger /\ WellFormed(bridgeSent \o m.log)
  BY <1>2, ServingFacts
<1>4. /\ bridgeStream' = bridgeSent \o m.log
      /\ bridgeLedger' = Logged(m) /\ bridgeLedger' \in Ledger /\ bridgeLedger'.log = <<>>
      /\ bridgeSent' \in Seq(Event) /\ bridgeOut' \in Seq(Event)
  BY <1>1, <1>3, YieldsStream
<1>5. Serves(bridgeStream', bridgeLedger')
  <2>1. Serving(bridgeSent \o m.log, Logged(m), open) /\ Logged(m).blocks = m.blocks
    BY <1>2, ServeLogged
  <2> QED BY <1>2, <1>4, <2>1 DEF Serves
<1>6. Matches(bridgeStream', target')
  BY <1>4 DEF Relayed
<1>7. target' \in Seq(Event) /\ ~ TargetEnded'
  <2>1. /\ target' \in Seq(Event) /\ Len(target') = Len(target) + 1 /\ target'[Len(target) + 1] = e
        /\ \A i \in 1 .. Len(target) : target'[i] = target[i]
        /\ \A i \in 1 .. Len(target) + 1 : i \in 1 .. Len(target) \/ i = Len(target) + 1
    BY <1>1, AppendFacts
  <2>2. DOMAIN target = 1 .. Len(target) /\ DOMAIN target' = 1 .. Len(target')
    BY <1>1, <2>1, LenProperties
  <2> QED BY <2>1, <2>2 DEF TargetEnded, Theirs!Has
<1>8. BridgeTypes' /\ HeadFirst' /\ MessageEnds' /\ WellFormed(bridgeStream')
  BY <1>1, <1>3, <1>4, <1>7 DEF BridgeTypes, HeadFirst, MessageEnds
<1>9. TargetServed'
  BY <1>1, <1>5, <1>6, <1>7 DEF TargetServed
<1> QED BY <1>8, <1>9 DEF BInv

\* message_stop of the target is that of the client.
LEMMA EndRelayKeeps ==
    ASSUME BInv, AtPhase("target"), ~ TargetEnded, NEW e \in Event, e.kind = "end",
           Theirs!Legal(target, e),
           bridgePhase' = bridgePhase, bridgeSent' = bridgeSent, target' = Append(target, e),
           Yields(EndMessage(bridgeLedger))
    PROVE  BInv'
<1>1. /\ bridgePhase = "target" /\ bridgeOut = <<>> /\ BridgeTypes /\ target \in Seq(Event)
  BY DEF AtPhase, BInv, BridgeTypes
<1>2. PICK open : Ready(bridgeSent, bridgeLedger, open, target)
  BY TargetIsReady
<1> DEFINE m == EndMessage(bridgeLedger)
           d == [kind |-> "end", block |-> 0, type |-> "message"]
<1>3. open = {}
  <2>1. Theirs!OpenBlocks(target) = {}
    BY DEF Theirs!Legal
  <2> QED BY <1>2, <2>1, ReadyFacts
<1>4. /\ m \in Ledger /\ bridgeSent \o m.log = Append(bridgeSent, d)
      /\ bridgeSent \o m.log \in Seq(Event) /\ HasEnd(bridgeSent \o m.log)
      /\ WellFormed(bridgeSent \o m.log)
  <2>1. PICK l : l = bridgeLedger
    OBVIOUS
  <2>2. PICK s : s = bridgeSent
    OBVIOUS
  <2>3. Serving(s, l, open) /\ l.blocks # <<>> /\ s \o l.log = s
    BY <1>2, <2>1, <2>2, ReadyFacts DEF Ready
  <2>4. /\ EndMessage(l) \in Ledger /\ s \o EndMessage(l).log = Append(s \o l.log, d)
        /\ s \o EndMessage(l).log \in Seq(Event)
        /\ \E k \in 1 .. Len(s \o EndMessage(l).log) : (s \o EndMessage(l).log)[k].kind = "end"
        /\ open = {} /\ l.blocks # <<>> => WellFormed(s \o EndMessage(l).log)
    BY <2>3, ServeEnd
  <2> QED BY <1>3, <2>1, <2>2, <2>3, <2>4 DEF HasEnd
<1>5. d \in Event /\ ~ IsMark(d) /\ ~ IsMark(e)
  BY DEF Event, IsMark
<1> HIDE DEF m, d
<1>6. /\ bridgeStream' = bridgeSent \o m.log
      /\ bridgeLedger' = Logged(m) /\ bridgeLedger' \in Ledger /\ bridgeLedger'.log = <<>>
      /\ bridgeSent' \in Seq(Event) /\ bridgeOut' \in Seq(Event)
  BY <1>1, <1>4, YieldsStream DEF m
<1>7. Matches(bridgeStream', target')
  <2>1. Matches(bridgeSent, target) /\ bridgeSent \in Seq(Event)
    BY <1>1, <1>2 DEF Ready, BridgeTypes
  <2>2. Matches(Append(bridgeSent, d), target) /\ Append(bridgeSent, d) \in Seq(Event)
    BY <1>1, <1>4, <1>5, <2>1, MatchesSent
  <2>3. Matches(Append(bridgeSent, d), Append(target, e))
    BY <1>1, <1>5, <2>2, MatchesGiven
  <2> QED BY <1>4, <1>6, <2>3
<1>8. target' \in Seq(Event) /\ TargetEnded'
  <2>1. /\ target' \in Seq(Event) /\ Len(target') = Len(target) + 1
        /\ target'[Len(target) + 1] = e /\ Len(target) + 1 \in 1 .. Len(target) + 1
    BY <1>1, AppendFacts
  <2>2. DOMAIN target' = 1 .. Len(target')
    BY <2>1, LenProperties
  <2> QED BY <2>1, <2>2 DEF TargetEnded, Theirs!Has
<1>9. BridgeTypes' /\ HeadFirst' /\ MessageEnds' /\ WellFormed(bridgeStream')
  BY <1>1, <1>4, <1>6, <1>8 DEF BridgeTypes, HeadFirst, MessageEnds
<1>10. TargetServed'
  BY <1>1, <1>4, <1>6, <1>7, <1>8 DEF TargetServed
<1> QED BY <1>9, <1>10 DEF BInv

LEMMA TargetEventKeeps == ASSUME BInv, TargetEvent PROVE BInv'
<1>1. /\ AtPhase("target") /\ bridgePhase' = bridgePhase /\ bridgeSent' = bridgeSent
  BY DEF TargetEvent
<1>2. PICK e \in Event :
         /\ TargetMaySend(e) /\ target' = Append(target, e)
         /\ \/ Yields(Forward(bridgeLedger, e))
            \/ e.kind = "delta" /\ e.type # "tool" /\ Yields(bridgeLedger)
  <2>1. PICK kind \in {"start", "open", "delta", "stop", "error", "usage", "end"},
             type \in BlockTypes, b \in 1 .. MaxTarget :
          LET e == IF kind \in {"open", "delta", "stop"}
                   THEN [kind |-> kind, block |-> b, type |-> type]
                   ELSE [kind |-> kind, block |-> 0, type |-> "message"]
          IN  /\ TargetMaySend(e) /\ target' = Append(target, e)
              /\ \/ Yields(Forward(bridgeLedger, e))
                 \/ e.kind = "delta" /\ e.type # "tool" /\ Yields(bridgeLedger)
    BY DEF TargetEvent
  <2>2. CASE kind \in {"open", "delta", "stop"}
    <3> DEFINE e == [kind |-> kind, block |-> b, type |-> type]
    <3>1. e \in Event
      BY <2>2 DEF Event
    <3>2. /\ TargetMaySend(e) /\ target' = Append(target, e)
          /\ \/ Yields(Forward(bridgeLedger, e))
             \/ e.kind = "delta" /\ e.type # "tool" /\ Yields(bridgeLedger)
      BY <2>1, <2>2
    <3> HIDE DEF e
    <3> QED BY <3>1, <3>2
  <2>3. CASE kind \notin {"open", "delta", "stop"}
    <3> DEFINE e == [kind |-> kind, block |-> 0, type |-> "message"]
    <3>1. e \in Event
      BY <2>3 DEF Event
    <3>2. /\ TargetMaySend(e) /\ target' = Append(target, e)
          /\ \/ Yields(Forward(bridgeLedger, e))
             \/ e.kind = "delta" /\ e.type # "tool" /\ Yields(bridgeLedger)
      BY <2>1, <2>3
    <3> HIDE DEF e
    <3> QED BY <3>1, <3>2
  <2> QED BY <2>2, <2>3
<1>3. Theirs!Legal(target, e) /\ ~ TargetEnded
  BY <1>2 DEF TargetMaySend, Theirs!Legal, TargetEnded
<1>4. PICK open, s, l, t : /\ Ready(s, l, open, t)
                           /\ s = bridgeSent /\ l = bridgeLedger /\ t = target
  BY <1>1, <1>3, TargetIsReady
<1>5. Theirs!Legal(t, e) /\ TargetMaySend(e)
  BY <1>2, <1>3, <1>4
<1>6. e.kind \in {"start", "error", "usage", "end", "open", "delta", "stop"}
  BY DEF Event
<1>7. CASE Yields(bridgeLedger) /\ e.kind = "delta"
  <2>1. ~ IsMark(e) /\ e.kind # "end"
    BY <1>7 DEF IsMark
  <2>2. Relayed(s, t, e, l)
    BY <1>4, <2>1, RelaysNothing
  <2> QED BY <1>1, <1>2, <1>3, <1>4, <1>7, <2>1, <2>2, RelayKeeps
<1>8. CASE Yields(Forward(bridgeLedger, e)) /\ e.kind = "end"
  <2>1. Forward(bridgeLedger, e) = EndMessage(bridgeLedger)
    BY <1>8 DEF Forward
  <2> QED BY <1>1, <1>2, <1>3, <1>8, <2>1, EndRelayKeeps
<1>9. CASE Yields(Forward(bridgeLedger, e)) /\ e.kind # "end"
  <2>1. Relayed(s, t, e, Forward(l, e))
    <3>1. CASE e.kind = "start"
      <4>1. Forward(l, e) = l /\ ~ IsMark(e)
        BY <3>1 DEF Forward, IsMark
      <4> QED BY <1>4, <4>1, RelaysNothing
    <3>2. CASE e.kind \in {"usage", "error"}
      BY <1>4, <3>2, RelaysOther
    <3>3. CASE e.kind = "delta"
      BY <1>4, <1>5, <3>3, RelaysDelta
    <3>4. CASE e.kind = "stop"
      <4>1. \E i \in DOMAIN t : t[i] = [e EXCEPT !.kind = "open"]
        BY <1>4, <1>5, <3>4 DEF TargetMaySend
      <4> QED BY <1>4, <1>5, <3>4, <4>1, RelaysStop
    <3>5. CASE e.kind = "open"
      <4>1. /\ e.block = Cardinality(Theirs!Blocks(t, "open")) + 1
            /\ \A b \in Theirs!OpenBlocks(t) :
                 \E i \in DOMAIN t : t[i].kind = "open" /\ t[i].block = b /\ t[i].type = "tool"
        BY <1>4, <1>5, <3>5 DEF TargetMaySend
      <4> QED BY <1>4, <3>5, <4>1, RelaysOpen
    <3> QED BY <1>6, <1>9, <3>1, <3>2, <3>3, <3>4, <3>5
  <2>2. PICK m : m = Forward(l, e)
    OBVIOUS
  <2>3. Yields(m) /\ Relayed(bridgeSent, target, e, m)
    BY <1>4, <1>9, <2>1, <2>2
  <2> QED BY <1>1, <1>2, <1>3, <1>9, <2>3, RelayKeeps
<1> QED BY <1>2, <1>7, <1>8, <1>9

\* The bridge ends the message itself, with the ledger l before that: it is whole unless a
\* tool of the target was open.
LEMMA EndsItKeeps ==
    ASSUME BInv, AtPhase("target"), ~ TargetEnded,
           bridgeSent' = bridgeSent, target' = target,
           bridgePhase' = IF ToolOpen THEN "cut" ELSE "broken",
           NEW l, NEW rest, Serving(bridgeSent, l, rest), l.blocks # <<>>,
           ~ ToolOpen => rest = {}, Yields(EndMessage(l))
    PROVE  BInv'
<1> DEFINE m == EndMessage(l)
<1>1. /\ bridgeOut = <<>> /\ BridgeTypes
  BY DEF AtPhase, BInv, BridgeTypes
<1>2. /\ m \in Ledger /\ HasEnd(bridgeSent \o m.log)
      /\ ~ ToolOpen => WellFormed(bridgeSent \o m.log)
  <2>1. PICK s : s = bridgeSent
    OBVIOUS
  <2>2. Serving(s, l, rest)
    BY <2>1
  <2>3. /\ m \in Ledger
        /\ \E k \in 1 .. Len(s \o m.log) : (s \o m.log)[k].kind = "end"
        /\ rest = {} /\ l.blocks # <<>> => WellFormed(s \o m.log)
    BY <2>2, ServeEnd
  <2> QED BY <2>1, <2>3 DEF HasEnd
<1> HIDE DEF m
<1>3. /\ bridgeStream' = bridgeSent \o m.log
      /\ bridgeLedger' = Logged(m) /\ bridgeLedger' \in Ledger /\ bridgeLedger'.log = <<>>
      /\ bridgeSent' \in Seq(Event) /\ bridgeOut' \in Seq(Event)
  BY <1>1, <1>2, YieldsStream DEF m
<1> QED BY <1>1, <1>2, <1>3
        DEF BInv, BridgeTypes, HeadFirst, TargetServed, MessageEnds

\* What close_all_blocks leaves open are tools.
LEMMA ClosesWhatItKnows ==
    ASSUME BInv, AtPhase("target"), ~ TargetEnded
    PROVE  \E l, rest : /\ l = CloseOpen(bridgeLedger) /\ Serving(bridgeSent, l, rest)
                        /\ l.blocks # <<>> /\ (~ ToolOpen => rest = {})
<1>1. PICK open, s, k, t : /\ Ready(s, k, open, t)
                           /\ s = bridgeSent /\ k = bridgeLedger /\ t = target
  BY TargetIsReady
<1>2. /\ CloseAll(k).blocks = k.blocks
      /\ \E rest \in SUBSET open : /\ Serving(s, CloseAll(k), rest)
                                   /\ \A b \in rest : k.blocks[b].type = "tool"
  BY <1>1, ServeCloseAll DEF Ready
<1>3. PICK rest \in SUBSET open : /\ Serving(s, CloseAll(k), rest)
                                  /\ \A b \in rest : k.blocks[b].type = "tool"
  BY <1>2
<1>4. ASSUME rest # {} PROVE ToolOpen
  <2>1. PICK b \in rest : b \in open
    BY <1>4
  <2>2. b - 1 \in Theirs!OpenBlocks(t) /\ (b - 1) + 1 = b /\ k.blocks[b].type = "tool"
    BY <1>1, <1>3, <2>1, ReadyFacts
  <2>3. PICK i \in DOMAIN t : t[i].kind = "open" /\ t[i].block = b - 1
    BY <2>2 DEF Theirs!OpenBlocks, Theirs!Blocks
  <2>4. DOMAIN t = 1 .. Len(t)
    BY <1>1, ReadyFacts, LenProperties
  <2>5. t[i].type = "tool"
    <3>1. BlocksMatch(k, open, t)
      BY <1>1, ReadyFacts
    <3>2. k.blocks[t[i].block + 1].type = t[i].type
      BY <2>3, <2>4, <3>1 DEF BlocksMatch
    <3>3. t[i].block + 1 = b
      BY <2>2, <2>3
    <3> QED BY <2>2, <3>2, <3>3
  <2> QED BY <1>1, <2>2, <2>3, <2>5 DEF ToolOpen
<1>5. CloseAll(k) = CloseOpen(bridgeLedger) /\ CloseAll(k).blocks # <<>>
  BY <1>1, <1>2 DEF CloseOpen, Ready
<1> QED BY <1>1, <1>3, <1>4, <1>5

LEMMA TargetFailsKeeps == ASSUME BInv, TargetFails PROVE BInv'
<1>1. AtPhase("target") /\ ~ TargetEnded
  BY DEF TargetFails
<1>2. PICK l, rest : /\ l = CloseOpen(bridgeLedger) /\ Serving(bridgeSent, l, rest)
                     /\ l.blocks # <<>> /\ (~ ToolOpen => rest = {})
  BY <1>1, ClosesWhatItKnows
<1>3. PICK s : s = bridgeSent
  OBVIOUS
<1>4. /\ Serving(s, TopLevelError(l), rest) /\ TopLevelError(l).blocks = l.blocks
  BY <1>2, <1>3, ServeOther DEF TopLevelError
<1>5. PICK k : k = TopLevelError(l)
  OBVIOUS
<1>6. Serving(s, Usage(k), rest) /\ Usage(k).blocks = l.blocks
  BY <1>4, <1>5, ServeOther DEF Usage
<1>7. PICK m : m = Usage(k)
  OBVIOUS
<1>8. /\ Serving(bridgeSent, m, rest) /\ m.blocks # <<>> /\ Yields(EndMessage(m))
      /\ bridgeSent' = bridgeSent /\ target' = target
      /\ bridgePhase' = IF ToolOpen THEN "cut" ELSE "broken"
  BY <1>2, <1>3, <1>5, <1>6, <1>7 DEF TargetFails
<1> QED BY <1>1, <1>2, <1>8, EndsItKeeps

LEMMA TargetEndsKeeps == ASSUME BInv, TargetEnds PROVE BInv'
<1>1. /\ AtPhase("target") /\ bridgePhase = "target" /\ bridgeOut = <<>>
      /\ bridgeSent' = bridgeSent /\ target' = target
      /\ bridgePhase' = IF TargetEnded THEN "done" ELSE IF ToolOpen THEN "cut" ELSE "broken"
  BY DEF TargetEnds, AtPhase
<1>2. CASE TargetEnded
  <2>1. /\ Yields(bridgeLedger) /\ bridgeLedger \in Ledger /\ bridgeLedger.log = <<>>
        /\ BridgeTypes
    BY <1>2 DEF TargetEnds, BInv, BridgeTypes
  <2>2. PICK m \in Ledger : m = bridgeLedger
    BY <2>1
  <2>3. /\ bridgeStream = bridgeSent /\ bridgeStream' = bridgeSent \o m.log
        /\ bridgeLedger' = Logged(m) /\ bridgeLedger' \in Ledger /\ bridgeLedger'.log = <<>>
        /\ bridgeSent' \in Seq(Event) /\ bridgeOut' \in Seq(Event)
    BY <1>1, <2>1, <2>2, YieldsStream
  <2>4. bridgeStream' = bridgeStream
    BY <2>1, <2>2, <2>3, ConcatEmptySeq DEF BridgeTypes
  <2>5. TargetEnded'
    BY <1>1, <1>2 DEF TargetEnded, Theirs!Has
  <2>6. Matches(bridgeStream', target') /\ HasEnd(bridgeStream') /\ WellFormed(bridgeStream')
    BY <1>1, <1>2, <2>4 DEF BInv, TargetServed
  <2> QED BY <1>1, <1>2, <2>1, <2>3, <2>5, <2>6
          DEF BInv, BridgeTypes, HeadFirst, TargetServed, MessageEnds
<1>3. CASE ~ TargetEnded
  <2>1. PICK l, rest : /\ l = CloseOpen(bridgeLedger) /\ Serving(bridgeSent, l, rest)
                       /\ l.blocks # <<>> /\ (~ ToolOpen => rest = {})
    BY <1>1, <1>3, ClosesWhatItKnows
  <2>2. PICK s : s = bridgeSent
    OBVIOUS
  <2>3. Serving(s, Usage(l), rest) /\ Usage(l).blocks = l.blocks
    BY <2>1, <2>2, ServeOther DEF Usage
  <2>4. PICK m : m = IF Theirs!Has(target, "usage") THEN l ELSE Usage(l)
    OBVIOUS
  <2>5. Serving(bridgeSent, m, rest) /\ m.blocks # <<>>
    BY <2>1, <2>2, <2>3, <2>4
  <2>6. Yields(EndMessage(m))
    BY <1>3, <2>1, <2>4 DEF TargetEnds
  <2> QED BY <1>1, <1>3, <2>1, <2>5, <2>6, EndsItKeeps
<1> QED BY <1>2, <1>3

-----------------------------------------------------------------------------
LEMMA NextBInv == BInv /\ [BridgeNext]_bridgeVars => BInv'
<1> SUFFICES ASSUME BInv, [BridgeNext]_bridgeVars PROVE BInv'
    OBVIOUS
<1>1. CASE BridgeYield
  BY <1>1, BridgeYieldKeeps
<1>2. CASE HeadUnavailable \/ TargetUnavailable \/ BeginTarget
  BY <1>2, MovesKeep
<1>3. CASE BeginHead
  BY <1>3, BeginHeadKeeps
<1>4. CASE HeadEvent
  BY <1>4, HeadEventKeeps
<1>5. CASE HeadEnds \/ HeadFails
  BY <1>5, HeadOverKeeps
<1>6. CASE TargetEvent
  BY <1>6, TargetEventKeeps
<1>7. CASE TargetFails
  BY <1>7, TargetFailsKeeps
<1>8. CASE TargetEnds
  BY <1>8, TargetEndsKeeps
<1>9. CASE UNCHANGED bridgeVars
  <2>1. /\ bridgeSent' = bridgeSent /\ bridgeOut' = bridgeOut /\ bridgeLedger' = bridgeLedger
        /\ target' = target /\ bridgePhase' = bridgePhase
    BY <1>9 DEF bridgeVars
  <2>2. bridgeStream' = bridgeStream /\ TargetEnded' = TargetEnded
    BY <2>1 DEF bridgeStream, TargetEnded, Theirs!Has
  <2>3. BridgeTypes' /\ HeadFirst' /\ MessageEnds' /\ TargetServed'
    BY <2>1, <2>2 DEF BInv, BridgeTypes, HeadFirst, MessageEnds, TargetServed
  <2> QED BY <2>1, <2>2, <2>3 DEF BInv
<1> QED BY <1>1, <1>2, <1>3, <1>4, <1>5, <1>6, <1>7, <1>8, <1>9 DEF BridgeNext, BridgeWorks

\* What the client has taken and what the generator is about to yield is one stream of
\* the contract, which the ledger has recorded: first the block of the head's thinking,
\* alone, then every block the target has opened or closed, and no other.
THEOREM BridgeInductive == BridgeSpec => []BInv
BY InitBInv, NextBInv, PTL DEF BridgeSpec

\* What is taken next is legal after what was taken.
LEMMA BridgeSends == BInv /\ [BridgeNext]_bridgeVars =>
                       [Client!Send \/ bridgePhase = "cut"]_bridgeSent
<1> SUFFICES ASSUME BInv, [BridgeNext]_bridgeVars, bridgeSent' # bridgeSent,
                    bridgePhase # "cut"
             PROVE  Client!Send
    OBVIOUS
<1>1. BridgeYield
  BY DEF BridgeNext, BridgeWorks, bridgeVars, HeadUnavailable, BeginHead, HeadEvent,
         HeadEnds, HeadFails, Decide, TargetUnavailable, BeginTarget, TargetEvent,
         TargetFails, TargetEnds
<1> DEFINE e == Head(bridgeOut)
<1>2. /\ bridgeSent \in Seq(Event) /\ bridgeOut \in Seq(Event) /\ bridgeOut # <<>>
      /\ bridgeSent' = Append(bridgeSent, e) /\ WellFormed(bridgeStream)
  BY <1>1 DEF BInv, BridgeTypes, BridgeYield
<1>3. /\ e \in Event /\ bridgeStream[Len(bridgeSent) + 1] = e
      /\ Len(bridgeSent) + 1 \in 1 .. Len(bridgeStream)
      /\ \A i \in 1 .. Len(bridgeSent) : bridgeStream[i] = bridgeSent[i]
  BY <1>2, TakesHead DEF bridgeStream
<1> HIDE DEF e
<1>4. Client!Legal(bridgeSent, e)
  <2>1. LegalAt(bridgeStream, Len(bridgeSent) + 1)
    BY <1>2, <1>3 DEF WellFormed
  <2>2. Contract!Legal(bridgeSent, e)
    BY <1>2, <1>3, <2>1, LegalForContract
  <2> QED BY <2>2 DEF Contract!Legal, Contract!Has, Contract!Blocks, Contract!OpenBlocks,
                      Client!Legal, Client!Has, Client!Blocks, Client!OpenBlocks
<1>5. e \in Client!Event
  BY <1>3 DEF Event, Client!Event, BlockTypes, Client!BlockType
<1>6. bridgeSent' # <<>> /\ bridgeSent'[Len(bridgeSent')] = e
  BY <1>2, <1>3, AppendFacts, EmptySeq
<1> QED BY <1>2, <1>4, <1>5, <1>6 DEF Client!Send

LEMMA ReachesClient == BInv => TargetReachesClient
<1> SUFFICES ASSUME BInv, bridgePhase \in Over \ {"raised"}, bridgeOut = <<>>
             PROVE  TargetReachesClient
    BY DEF TargetReachesClient
<1>1. bridgeSent \in Seq(Event) /\ target \in Seq(Event) /\ bridgeStream = bridgeSent
  BY ConcatEmptySeq DEF BInv, BridgeTypes, bridgeStream
<1>2. DOMAIN bridgeSent = 1 .. Len(bridgeSent) /\ DOMAIN target = 1 .. Len(target)
  BY <1>1, LenProperties
<1>3. Client!Has(bridgeSent, "end")
  BY <1>1, <1>2 DEF BInv, TargetServed, MessageEnds, HasEnd, Over, Client!Has
<1>4. CASE bridgePhase # "done"
  BY <1>3, <1>4 DEF TargetReachesClient
<1>5. CASE bridgePhase = "done"
  <2>1. Matches(bridgeSent, target)
    BY <1>1, <1>5 DEF BInv, TargetServed
  <2>2. \A i : i \in Marks(target) <=> i \in 1 .. Len(target) /\ IsMark(target[i])
    BY <1>2 DEF Marks, IsMark
  <2>3. \A k : k \in Marks(bridgeSent) <=> k \in 1 .. Len(bridgeSent) /\ IsMark(bridgeSent[k])
    BY <1>2 DEF Marks, IsMark
  <2>4. ASSUME NEW i \in Marks(target), NEW k \in 1 .. Len(bridgeSent),
               bridgeSent[k] = Renumbered(target[i])
        PROVE  k \in Marks(bridgeSent)
    <3>1. target[i] \in Event /\ IsMark(target[i])
      BY <1>1, <2>2, ElementOfSeq
    <3> QED BY <2>3, <2>4, <3>1, RenumberedIs
  <2>5. ASSUME NEW i \in Marks(target), NEW j \in Marks(target), i <= j
        PROVE  \E k, m \in Marks(bridgeSent) : /\ k <= m
                                               /\ bridgeSent[k] = Renumbered(target[i])
                                               /\ bridgeSent[m] = Renumbered(target[j])
    <3>1. PICK k \in 1 .. Len(bridgeSent), m \in 1 .. Len(bridgeSent) :
             /\ k <= m /\ bridgeSent[k] = Renumbered(target[i])
             /\ bridgeSent[m] = Renumbered(target[j])
      BY <2>1, <2>2, <2>5 DEF Matches
    <3> QED BY <2>4, <3>1
  <2>6. ASSUME NEW k \in Marks(bridgeSent), bridgeSent[k].block > 1
        PROVE  \E i \in Marks(target) : bridgeSent[k] = Renumbered(target[i])
    <3>1. k \in 1 .. Len(bridgeSent) /\ IsMark(bridgeSent[k])
      BY <2>3
    <3>2. PICK i \in 1 .. Len(target) : bridgeSent[k] = Renumbered(target[i])
      BY <2>1, <2>6, <3>1 DEF Matches
    <3>3. target[i] \in Event
      BY <1>1, ElementOfSeq
    <3>4. Renumbered(target[i]).kind = target[i].kind
      BY <3>3 DEF Renumbered, Event
    <3> QED BY <2>2, <3>1, <3>2, <3>4 DEF IsMark
  <2>7. \A k, m \in Marks(bridgeSent) :
           bridgeSent[k].block > 1 /\ bridgeSent[m].block = 1 => m < k
    BY <2>1, <2>3 DEF Matches
  <2>8. \A i : Renumbered(target[i]) = [target[i] EXCEPT !.block = @ + 1]
    BY DEF Renumbered
  <2>9. \A i, j \in Marks(target) : i <= j =>
           \E k, m \in Marks(bridgeSent) :
             /\ k <= m /\ bridgeSent[k] = [target[i] EXCEPT !.block = @ + 1]
             /\ bridgeSent[m] = [target[j] EXCEPT !.block = @ + 1]
    BY <2>5 DEF Renumbered
  <2>10. \A k \in Marks(bridgeSent) : bridgeSent[k].block > 1 =>
            \E i \in Marks(target) : bridgeSent[k] = [target[i] EXCEPT !.block = @ + 1]
    BY <2>6 DEF Renumbered
  <2> QED BY <1>3, <2>7, <2>9, <2>10 DEF TargetReachesClient
<1> QED BY <1>4, <1>5

\* The client of the bridge gets one message of its contract, whatever fails in the two
\* streams it is made of, and all of a target that completed its own: stream_response of
\* MahbubProvider.
THEOREM BridgeIsTransparentCorrect == BridgeSpec => BridgeIsTransparent
<1>1. BridgeInit => Client!Init
  BY DEF BridgeInit, Client!Init
<1> QED BY <1>1, BridgeSends, ReachesClient, BridgeInductive, PTL
        DEF BridgeSpec, BridgeIsTransparent, BridgeKeepsContract

-----------------------------------------------------------------------------
(***************************************************************************)
(* NativeStream.  As long as the message is not over, its events announce  *)
(* the blocks that the ledger has, and have closed those that the ledger   *)
(* does not have open; the current text and the current thinking are among *)
(* the open ones.                                                          *)
(***************************************************************************)
NativeBlock == [type : BlockTypes, args : Args, open : BOOLEAN]

NativeState ==
    [blocks : Seq(NativeBlock), segment : [Index -> Nat], order : Seq(Index),
     dropped : SUBSET Index,
     suppressed : SUBSET Index, unseen : SUBSET Nat, text : Nat, thinking : Nat, started : BOOLEAN,
     usage : BOOLEAN, stopped : BOOLEAN, log : Seq(Event)]

\* The blocks as the lemmas about events know them.
Announced(blocks) ==
    [b \in 1 .. Len(blocks) |-> [type |-> blocks[b].type, args |-> "none", deltas |-> 0]]

Told(s, n) ==
    /\ s \in Seq(Event) /\ n \in NativeState /\ s \o n.log # <<>>
    /\ Records(s \o n.log, Announced(n.blocks), StillOpen(n))

IsCurrent(n, b, type) == b # 0 => b \in StillOpen(n) /\ n.blocks[b].type = type

Unended(s, n) ==
    /\ Told(s, n) /\ IsCurrent(n, n.text, "text") /\ IsCurrent(n, n.thinking, "thinking")
    /\ n.started /\ ~ n.stopped /\ (n.usage => n.blocks # <<>>)

\* What of n the step to m leaves alone.
SameMessage(n, m) == m.started = n.started /\ m.usage = n.usage /\ m.stopped = n.stopped
SamePolicy(n, m) ==
    /\ m.segment = n.segment /\ m.order = n.order
    /\ m.dropped = n.dropped /\ m.suppressed = n.suppressed /\ m.unseen = n.unseen
SameContents(n, m) ==
    /\ Len(m.blocks) = Len(n.blocks)
    /\ \A b \in 1 .. Len(n.blocks) :
         m.blocks[b].type = n.blocks[b].type /\ m.blocks[b].args = n.blocks[b].args

\* Each of the upstream's numbers that by_upstream has is listed once, no two of them are the
\* same block, and what it has open is open.
Numbered(n) ==
    /\ n.order \in Seq(Index) /\ n.segment \in [Index -> Nat] /\ n.unseen = {}
    /\ \A i, j \in 1 .. Len(n.order) : n.order[i] = n.order[j] => i = j
    /\ \A u \in Index : n.segment[u] # 0 <=> \E i \in 1 .. Len(n.order) : n.order[i] = u
    /\ \A u \in Index : n.segment[u] <= Len(n.blocks)
    /\ \A u, v \in Index : n.segment[u] = n.segment[v] /\ n.segment[u] # 0 => u = v

LEMMA AnnouncedFacts ==
    ASSUME NEW blocks \in Seq(NativeBlock)
    PROVE  /\ Announced(blocks) \in Seq(Block) /\ Len(Announced(blocks)) = Len(blocks)
           /\ Len(blocks) \in Nat
           /\ \A b \in 1 .. Len(blocks) : Announced(blocks)[b].type = blocks[b].type
<1> DEFINE a == Announced(blocks)
<1>1. Len(blocks) \in Nat
  BY LenProperties
<1>2. \A b \in 1 .. Len(blocks) :
        [type |-> blocks[b].type, args |-> "none", deltas |-> 0] \in Block
  <2>1. \A b \in 1 .. Len(blocks) : blocks[b] \in NativeBlock
    BY ElementOfSeq
  <2> QED BY <2>1 DEF NativeBlock, Block, Args
<1>3. a \in [1 .. Len(blocks) -> Block]
  BY <1>2 DEF Announced
<1>4. a \in Seq(Block)
  <2> HIDE DEF a
  <2> QED BY <1>1, <1>3, IsASeq
<1>5. Len(a) = Len(blocks)
  <2> HIDE DEF a
  <2> QED BY <1>1, <1>3, <1>4, LenProperties
<1> QED BY <1>1, <1>4, <1>5 DEF Announced

\* The events so far announce other blocks of the same types as well.
LEMMA AnnouncedSame ==
    ASSUME NEW t, NEW blocks \in Seq(Block), NEW open, Records(t, blocks, open),
           NEW more \in Seq(NativeBlock), Len(more) = Len(blocks),
           \A b \in 1 .. Len(blocks) : more[b].type = blocks[b].type
    PROVE  Records(t, Announced(more), open)
<1>1. SameBlocks(blocks, Announced(more))
  BY AnnouncedFacts DEF SameBlocks
<1> QED BY <1>1, RecordsSame

LEMMA OpenFacts ==
    ASSUME NEW n \in NativeState
    PROVE  /\ StillOpen(n) \subseteq 1 .. Len(n.blocks) /\ Len(n.blocks) \in Nat
           /\ DOMAIN n.blocks = 1 .. Len(n.blocks)
           /\ StillOpen(n) \in SUBSET (Nat \ {0}) /\ IsFiniteSet(StillOpen(n))
           /\ \A b \in 1 .. Len(n.blocks) : n.blocks[b] \in NativeBlock
<1>1. /\ n.blocks \in Seq(NativeBlock) /\ Len(n.blocks) \in Nat
      /\ DOMAIN n.blocks = 1 .. Len(n.blocks)
  BY LenProperties DEF NativeState
<1>2. StillOpen(n) \subseteq 1 .. Len(n.blocks)
  BY <1>1 DEF StillOpen
<1>3. IsFiniteSet(1 .. Len(n.blocks))
  BY <1>1, FS_Interval
<1>4. IsFiniteSet(StillOpen(n))
  BY <1>2, <1>3, FS_Subset
<1>5. \A b \in 1 .. Len(n.blocks) : n.blocks[b] \in NativeBlock
  BY <1>1, ElementOfSeq
<1>6. StillOpen(n) \in SUBSET (Nat \ {0})
  BY <1>1, <1>2
<1> QED BY <1>1, <1>2, <1>4, <1>5, <1>6

\* _record_block_start.
Begun(n, m, type) ==
    LET b == Len(n.blocks) + 1
    IN  /\ Len(m.blocks) = b /\ b \in StillOpen(m) /\ b \notin StillOpen(n)
        /\ StillOpen(m) = StillOpen(n) \cup {b}
        /\ m.blocks[b].type = type /\ m.blocks[b].args = "none"
        /\ \A d \in 1 .. Len(n.blocks) : m.blocks[d] = n.blocks[d] /\ d # b
        /\ m.text = (IF type = "text" THEN b ELSE n.text)
        /\ m.thinking = (IF type = "thinking" THEN b ELSE n.thinking)
        /\ SameMessage(n, m) /\ SamePolicy(n, m) /\ m.blocks # <<>>

LEMMA BeginBlockDoes ==
    ASSUME NEW s, NEW n, Unended(s, n), NEW type \in BlockTypes
    PROVE  Unended(s, BeginBlock(n, type)) /\ Begun(n, BeginBlock(n, type), type)
<1> DEFINE m == BeginBlock(n, type)
           b == Len(n.blocks) + 1
           e == [kind |-> "open", block |-> b, type |-> type]
           x == [type |-> type, args |-> "none", open |-> TRUE]
           y == [type |-> type, args |-> "none", deltas |-> 0]
           t == s \o n.log
           old == Announced(n.blocks)
           more == Append(n.blocks, x)
           new == Append(old, y)
<1>1. /\ n \in NativeState /\ s \in Seq(Event) /\ n.blocks \in Seq(NativeBlock)
      /\ n.log \in Seq(Event) /\ Records(t, old, StillOpen(n)) /\ t # <<>>
  BY DEF Unended, Told, NativeState
<1>2. /\ Len(n.blocks) \in Nat /\ b \in Nat \ {0} /\ b \notin 1 .. Len(n.blocks)
      /\ \A d \in 1 .. b : d \in 1 .. Len(n.blocks) \/ d = b
      /\ \A d \in 1 .. Len(n.blocks) : d \in 1 .. b /\ d # b
      /\ b \in 1 .. b
  <2>1. Len(n.blocks) \in Nat
    BY <1>1, LenProperties
  <2> QED BY <2>1
<1>3. e \in Event /\ x \in NativeBlock /\ y \in Block /\ y.type = type /\ x.open /\ x.type = type
      /\ x.args = "none"
  BY <1>2 DEF Event, NativeBlock, Block, Args
<1>4. old \in Seq(Block) /\ Len(old) = Len(n.blocks)
      /\ \A d \in 1 .. Len(n.blocks) : old[d].type = n.blocks[d].type
  BY <1>1, AnnouncedFacts
<1>5. e = [kind |-> "open", block |-> Len(old) + 1, type |-> y.type]
  BY <1>3, <1>4
<1>6. /\ m.blocks = more /\ m.log = Append(n.log, e)
      /\ m.text = (IF type = "text" THEN b ELSE n.text)
      /\ m.thinking = (IF type = "thinking" THEN b ELSE n.thinking)
      /\ SameMessage(n, m) /\ SamePolicy(n, m)
  BY <1>1 DEF BeginBlock, Note, NativeState, SameMessage, SamePolicy
<1> HIDE DEF e, x, y
<1>7. /\ more \in Seq(NativeBlock) /\ Len(more) = b /\ more[b] = x
      /\ \A d \in 1 .. Len(n.blocks) : more[d] = n.blocks[d]
  BY <1>1, <1>3, AppendProperties
<1>8. Append(n.log, e) \in Seq(Event) /\ s \o Append(n.log, e) = Append(t, e)
  BY <1>1, <1>3, LogAppend
<1>9. m \in NativeState
  BY <1>1, <1>2, <1>7, <1>8 DEF BeginBlock, Note, NativeState, e, x
<1> HIDE DEF m, old, more
<1>10. Records(Append(t, e), new, StillOpen(n) \cup {b})
  BY <1>1, <1>3, <1>4, <1>5, RecordsOpen
<1>11. /\ new \in Seq(Block) /\ Len(new) = b /\ new[b] = y
       /\ \A d \in 1 .. Len(n.blocks) : new[d] = old[d]
  BY <1>3, <1>4, AppendProperties
<1> HIDE DEF new
<1>12. Records(Append(t, e), Announced(more), StillOpen(n) \cup {b})
  BY <1>2, <1>3, <1>4, <1>7, <1>10, <1>11, AnnouncedSame
<1>13. StillOpen(m) = StillOpen(n) \cup {b} /\ b \notin StillOpen(n)
  <2>1. DOMAIN m.blocks = 1 .. b /\ DOMAIN n.blocks = 1 .. Len(n.blocks)
    BY <1>1, <1>6, <1>7, LenProperties
  <2>2. \A d : d \in StillOpen(m) <=> d \in StillOpen(n) \/ d = b
    <3> HIDE DEF b
    <3> QED BY <1>2, <1>3, <1>6, <1>7, <2>1 DEF StillOpen
  <2> QED BY <1>2, <2>1, <2>2 DEF StillOpen
<1>14. Append(t, e) # <<>>
  <2>1. t \in Seq(Event)
    BY <1>1, ConcatProperties
  <2> QED BY <1>3, <2>1, AppendFacts, EmptySeq
<1>15. Told(s, m)
  BY <1>1, <1>6, <1>8, <1>9, <1>12, <1>13, <1>14 DEF Told
<1>16. m.blocks # <<>>
  BY <1>2, <1>6, <1>7, EmptySeq
<1> HIDE DEF b
<1>17. Begun(n, m, type)
  BY <1>2, <1>3, <1>6, <1>7, <1>13, <1>16 DEF Begun, b
<1>18. \A d \in StillOpen(n) : m.blocks[d] = n.blocks[d] /\ d \in StillOpen(m)
  BY <1>1, <1>6, <1>7, <1>13, OpenFacts
<1>19. IsCurrent(m, m.text, "text") /\ IsCurrent(m, m.thinking, "thinking")
  BY <1>3, <1>6, <1>7, <1>13, <1>18 DEF IsCurrent, Unended
<1>20. m.started /\ ~ m.stopped
  BY <1>6 DEF Unended, SameMessage
<1> QED BY <1>15, <1>16, <1>17, <1>19, <1>20 DEF Unended, m

\* What a delta leaves of the others.
Written(n, m, b, args) ==
    /\ Len(m.blocks) = Len(n.blocks) /\ StillOpen(m) = StillOpen(n) /\ b \in 1 .. Len(n.blocks)
    /\ \A d \in 1 .. Len(n.blocks) :
         m.blocks[d].type = n.blocks[d].type /\ (d # b => m.blocks[d] = n.blocks[d])
    /\ m.blocks[b].args = args
    /\ SameMessage(n, m) /\ SamePolicy(n, m) /\ m.text = n.text /\ m.thinking = n.thinking

LEMMA WriteBlockDoes ==
    ASSUME NEW s, NEW n, Unended(s, n), NEW b \in StillOpen(n), NEW args \in Args
    PROVE  Unended(s, WriteBlock(n, b, args)) /\ Written(n, WriteBlock(n, b, args), b, args)
<1> DEFINE m == WriteBlock(n, b, args)
           e == [kind |-> "delta", block |-> b, type |-> n.blocks[b].type]
           t == s \o n.log
           old == Announced(n.blocks)
           x == [n.blocks[b] EXCEPT !.args = args]
           more == [n.blocks EXCEPT ![b] = x]
<1>1. /\ n \in NativeState /\ s \in Seq(Event) /\ n.blocks \in Seq(NativeBlock)
      /\ n.log \in Seq(Event) /\ Records(t, old, StillOpen(n))
  BY DEF Unended, Told, NativeState
<1>2. /\ b \in 1 .. Len(n.blocks) /\ Len(n.blocks) \in Nat /\ b \in Nat \ {0}
      /\ DOMAIN n.blocks = 1 .. Len(n.blocks) /\ n.blocks[b] \in NativeBlock
  BY <1>1, OpenFacts
<1>3. e \in Event /\ e.kind = "delta" /\ e.block = b /\ e.type = n.blocks[b].type
  BY <1>2 DEF Event, NativeBlock
<1>4. x \in NativeBlock /\ x.type = n.blocks[b].type /\ x.open = n.blocks[b].open
      /\ x.args = args
  BY <1>2 DEF NativeBlock
<1>5. /\ m.blocks = [n.blocks EXCEPT ![b].args = args] /\ m.log = Append(n.log, e)
      /\ m.text = n.text /\ m.thinking = n.thinking
      /\ SameMessage(n, m) /\ SamePolicy(n, m)
  BY <1>1 DEF WriteBlock, Note, NativeState, SameMessage, SamePolicy
<1>6. m.blocks = more
  BY <1>5
<1>7. /\ more \in Seq(NativeBlock) /\ Len(more) = Len(n.blocks) /\ more[b] = x
      /\ \A d \in 1 .. Len(n.blocks) : d # b => more[d] = n.blocks[d]
  <2> HIDE DEF x
  <2> QED BY <1>1, <1>2, <1>4, ExceptSeq
<1> HIDE DEF e, x
<1>8. Append(n.log, e) \in Seq(Event) /\ s \o Append(n.log, e) = Append(t, e)
  BY <1>1, <1>3, LogAppend
<1>9. m \in NativeState
  BY <1>1, <1>5, <1>6, <1>7, <1>8 DEF WriteBlock, Note, NativeState, e
<1> HIDE DEF m, old, more
<1>10. old \in Seq(Block) /\ Len(old) = Len(n.blocks)
       /\ \A d \in 1 .. Len(n.blocks) : old[d].type = n.blocks[d].type
  BY <1>1, AnnouncedFacts DEF old
<1>11. Records(Append(t, e), old, StillOpen(n))
  BY <1>1, <1>2, <1>3, <1>10, RecordsOther
<1>12. \A d \in 1 .. Len(n.blocks) : more[d].type = n.blocks[d].type /\ more[d].open = n.blocks[d].open
  BY <1>4, <1>7
<1>13. Records(Append(t, e), Announced(more), StillOpen(n))
  BY <1>7, <1>10, <1>11, <1>12, AnnouncedSame
<1>14. StillOpen(m) = StillOpen(n)
  <2>1. DOMAIN m.blocks = DOMAIN n.blocks
    BY <1>2, <1>6, <1>7, LenProperties
  <2> QED BY <1>2, <1>6, <1>12, <2>1 DEF StillOpen
<1>15. Append(t, e) # <<>>
  <2>1. t \in Seq(Event)
    BY <1>1, ConcatProperties
  <2> QED BY <1>3, <2>1, AppendFacts, EmptySeq
<1>16. Told(s, m)
  BY <1>1, <1>5, <1>6, <1>8, <1>9, <1>13, <1>14, <1>15 DEF Told
<1>17. Written(n, m, b, args)
  BY <1>2, <1>4, <1>5, <1>6, <1>7, <1>12, <1>14 DEF Written
<1>18. IsCurrent(m, m.text, "text") /\ IsCurrent(m, m.thinking, "thinking")
  BY <1>1, <1>5, <1>6, <1>12, <1>14, OpenFacts DEF IsCurrent, Unended
<1>19. m.started /\ ~ m.stopped /\ m.blocks # <<>>
  BY <1>2, <1>5, <1>6, <1>7, EmptySeq DEF Unended, SameMessage
<1> QED BY <1>16, <1>17, <1>18, <1>19 DEF Unended, m

\* A list of S.
Lists(order, S) ==
    /\ \E k \in Nat : DOMAIN order = 1 .. k
    /\ \A i \in DOMAIN order : order[i] \in S
    /\ \A i, j \in DOMAIN order : order[i] = order[j] => i = j
    /\ \A b \in S : \E i \in DOMAIN order : order[i] = b

EachOf(n, q, kind, S) ==
    /\ OneEach(q, kind, S)
    /\ \A i \in 1 .. Len(q) : q[i].type = Announced(n.blocks)[q[i].block].type

LEMMA EventEachIs ==
    ASSUME NEW n \in NativeState, NEW S \in SUBSET (1 .. Len(n.blocks)),
           NEW kind \in {"delta", "stop"}, NEW order, Lists(order, S)
    PROVE  EachOf(n, EventEach(n, kind, order), kind, S)
<1> DEFINE q == EventEach(n, kind, order)
<1>1. PICK k \in Nat : DOMAIN order = 1 .. k
  BY DEF Lists
<1>2. q = [i \in 1 .. k |-> [kind |-> kind, block |-> order[i], type |-> n.blocks[order[i]].type]]
  BY <1>1 DEF EventEach
<1>3. ASSUME NEW i \in 1 .. k
      PROVE  /\ order[i] \in S
             /\ [kind |-> kind, block |-> order[i], type |-> n.blocks[order[i]].type] \in Event
  <2>1. order[i] \in S
    BY <1>1 DEF Lists
  <2>2. /\ \A b \in S : b \in 1 .. Len(n.blocks)
        /\ \A b \in 1 .. Len(n.blocks) : n.blocks[b] \in NativeBlock
        /\ Len(n.blocks) \in Nat
    BY OpenFacts
  <2>3. order[i] \in 1 .. Len(n.blocks) /\ n.blocks[order[i]] \in NativeBlock
    BY <2>1, <2>2
  <2>4. order[i] \in Nat \ {0}
    BY <2>2, <2>3
  <2> QED BY <2>1, <2>3, <2>4 DEF Event, NativeBlock
<1> HIDE DEF q
<1>4. q \in Seq(Event)
  BY <1>1, <1>2, <1>3, IsASeq
<1>5. Len(q) = k
  BY <1>1, <1>2, <1>4, LenProperties
<1>6. \A i \in 1 .. k : q[i].kind = kind /\ q[i].block = order[i] /\ q[i].type = n.blocks[order[i]].type
  BY <1>2
<1>7. OneEach(q, kind, S)
  BY <1>1, <1>3, <1>4, <1>5, <1>6 DEF Lists, OneEach
<1>8. n.blocks \in Seq(NativeBlock)
  BY DEF NativeState
<1>9. \A i \in 1 .. k : q[i].type = Announced(n.blocks)[q[i].block].type
  <2> SUFFICES ASSUME NEW i \in 1 .. k
               PROVE  q[i].type = Announced(n.blocks)[q[i].block].type
      OBVIOUS
  <2>1. order[i] \in 1 .. Len(n.blocks)
    BY <1>3
  <2>2. Announced(n.blocks)[order[i]].type = n.blocks[order[i]].type
    BY <1>8, <2>1, AnnouncedFacts
  <2> QED BY <1>6, <2>2
<1> QED BY <1>5, <1>7, <1>9 DEF EachOf, q

\* What the stops of the blocks of S leave.
Closed(n, m, S) ==
    /\ SameContents(n, m) /\ SameMessage(n, m) /\ SamePolicy(n, m)
    /\ StillOpen(m) = StillOpen(n) \ S
    /\ m.text = (IF n.text \in S THEN 0 ELSE n.text)
    /\ m.thinking = (IF n.thinking \in S THEN 0 ELSE n.thinking)

LEMMA StopBlocksIs ==
    ASSUME NEW n \in NativeState, NEW S \in SUBSET (1 .. Len(n.blocks)),
           NEW order, Lists(order, S)
    PROVE  LET m == StopBlocks(n, order)
           IN  /\ m \in NativeState /\ Closed(n, m, S)
               /\ m.log = n.log \o EventEach(n, "stop", order)
<1> DEFINE m == StopBlocks(n, order)
           q == EventEach(n, "stop", order)
           x(b) == [n.blocks[b] EXCEPT !.open = n.blocks[b].open /\ b \notin S]
           more == [b \in DOMAIN n.blocks |-> x(b)]
<1>1. n.blocks \in Seq(NativeBlock) /\ n.log \in Seq(Event)
  BY DEF NativeState
<1>2. /\ Len(n.blocks) \in Nat /\ DOMAIN n.blocks = 1 .. Len(n.blocks)
      /\ \A b \in 1 .. Len(n.blocks) : n.blocks[b] \in NativeBlock
  BY OpenFacts
<1>3. {order[i] : i \in DOMAIN order} = S
  <2> HIDE DEF m, q, x, more
  <2>1. \A i \in DOMAIN order : order[i] \in S
    BY DEF Lists
  <2>2. \A b \in S : \E i \in DOMAIN order : order[i] = b
    BY DEF Lists
  <2> QED BY <2>1, <2>2
<1>4. /\ m.blocks = more /\ m.log = n.log \o q
      /\ m.text = (IF n.text \in S THEN 0 ELSE n.text)
      /\ m.thinking = (IF n.thinking \in S THEN 0 ELSE n.thinking)
      /\ SameMessage(n, m) /\ SamePolicy(n, m)
  <2> HIDE DEF q, x
  <2>1. m = [n EXCEPT !.log = n.log \o q, !.blocks = more,
                      !.text = IF n.text \in S THEN 0 ELSE n.text,
                      !.thinking = IF n.thinking \in S THEN 0 ELSE n.thinking]
    BY <1>3 DEF StopBlocks, q, x
  <2> HIDE DEF m, more
  <2> QED BY <2>1 DEF NativeState, SameMessage, SamePolicy
<1>5. \A b \in 1 .. Len(n.blocks) :
        /\ x(b) \in NativeBlock /\ x(b).type = n.blocks[b].type /\ x(b).args = n.blocks[b].args
        /\ x(b).open <=> n.blocks[b].open /\ b \notin S
  BY <1>2 DEF NativeBlock
<1> HIDE DEF x
<1>6. /\ more \in Seq(NativeBlock) /\ Len(more) = Len(n.blocks) /\ DOMAIN more = DOMAIN n.blocks
      /\ \A b \in 1 .. Len(n.blocks) : more[b] = x(b)
  <2>1. more = [b \in 1 .. Len(n.blocks) |-> x(b)]
    BY <1>2
  <2> HIDE DEF more
  <2>2. more \in Seq(NativeBlock)
    BY <1>2, <1>5, <2>1, IsASeq
  <2> QED BY <1>2, <2>1, <2>2, LenProperties
<1> HIDE DEF more, m
<1>7. q \in Seq(Event)
  <2>1. EachOf(n, q, "stop", S)
    BY EventEachIs
  <2> HIDE DEF q
  <2> QED BY <2>1 DEF EachOf, OneEach
<1> HIDE DEF q
<1>8. n.log \o q \in Seq(Event)
  BY <1>1, <1>7, ConcatProperties
<1>9. StillOpen(m) = StillOpen(n) \ S
  BY <1>2, <1>4, <1>5, <1>6 DEF StillOpen
<1>10. m \in NativeState
  BY <1>4, <1>6, <1>8 DEF StopBlocks, NativeState, m
<1>11. Closed(n, m, S)
  BY <1>4, <1>5, <1>6, <1>9 DEF Closed, SameContents
<1> QED BY <1>4, <1>10, <1>11 DEF m, q

LEMMA StopBlocksDoes ==
    ASSUME NEW s, NEW n, Unended(s, n), NEW S \in SUBSET StillOpen(n),
           NEW order, Lists(order, S)
    PROVE  Unended(s, StopBlocks(n, order)) /\ Closed(n, StopBlocks(n, order), S)
<1> DEFINE m == StopBlocks(n, order)
           q == EventEach(n, "stop", order)
           t == s \o n.log
           old == Announced(n.blocks)
<1>1. /\ n \in NativeState /\ s \in Seq(Event) /\ n.blocks \in Seq(NativeBlock)
      /\ n.log \in Seq(Event) /\ Records(t, old, StillOpen(n)) /\ t # <<>>
  BY DEF Unended, Told, NativeState
<1>2. StillOpen(n) \subseteq 1 .. Len(n.blocks) /\ S \in SUBSET (1 .. Len(n.blocks))
  BY <1>1, OpenFacts
<1>3. m \in NativeState /\ Closed(n, m, S) /\ m.log = n.log \o q
  BY <1>1, <1>2, StopBlocksIs
<1> HIDE DEF m
<1>4. /\ OneEach(q, "stop", S) /\ q \in Seq(Event)
      /\ \A i \in 1 .. Len(q) : q[i].type = old[q[i].block].type
  <2>1. EachOf(n, q, "stop", S)
    BY <1>1, <1>2, EventEachIs
  <2> HIDE DEF q
  <2> QED BY <2>1 DEF EachOf, OneEach
<1> HIDE DEF q
<1>5. Records(t \o q, old, StillOpen(n) \ S)
  <2> HIDE DEF t, old
  <2> QED BY <1>1, <1>4, RecordsEach
<1>6. s \o (n.log \o q) = t \o q
  BY <1>1, <1>4, LogConcat
<1>7. old \in Seq(Block) /\ Len(old) = Len(n.blocks)
      /\ \A d \in 1 .. Len(n.blocks) : old[d].type = n.blocks[d].type
  BY <1>1, AnnouncedFacts
<1> HIDE DEF old
<1>8. /\ m.blocks \in Seq(NativeBlock) /\ Len(m.blocks) = Len(n.blocks)
      /\ \A d \in 1 .. Len(n.blocks) : m.blocks[d].type = n.blocks[d].type
  BY <1>3 DEF NativeState, Closed, SameContents
<1>9. Records(t \o q, Announced(m.blocks), StillOpen(n) \ S)
  BY <1>5, <1>7, <1>8, AnnouncedSame
<1>10. t \o q # <<>>
  <2>1. t \in Seq(Event)
    BY <1>1, ConcatProperties
  <2> HIDE DEF t
  <2> QED BY <1>1, <1>4, <2>1, ConcatFacts, EmptySeq
<1>11. Told(s, m)
  BY <1>1, <1>3, <1>6, <1>9, <1>10 DEF Told, Closed
<1>12. \A b \in StillOpen(n) \ S : b \in StillOpen(m) /\ m.blocks[b].type = n.blocks[b].type
  BY <1>2, <1>3, <1>8 DEF Closed
<1>13. IsCurrent(m, m.text, "text") /\ IsCurrent(m, m.thinking, "thinking")
  BY <1>3, <1>12 DEF IsCurrent, Unended, Closed
<1>14. m.started /\ ~ m.stopped /\ (m.usage => m.blocks # <<>>)
  <2>1. m.blocks = <<>> <=> n.blocks = <<>>
    BY <1>1, <1>8, EmptySeq
  <2> QED BY <1>3, <2>1 DEF Unended, SameMessage, Closed
<1> QED BY <1>3, <1>11, <1>13, <1>14 DEF Unended, m

LEMMA ListOfOne == ASSUME NEW b PROVE Lists(<<b>>, {b})
<1>1. DOMAIN <<b>> = 1 .. 1 /\ <<b>>[1] = b
  OBVIOUS
<1>2. \A i \in 1 .. 1 : i = 1
  OBVIOUS
<1>3. 1 \in 1 .. 1 /\ 1 \in Nat
  OBVIOUS
<1> QED BY <1>1, <1>2, <1>3 DEF Lists

LEMMA ListInOrder ==
    ASSUME NEW S \in SUBSET Nat, IsFiniteSet(S)
    PROVE  /\ Lists(InOrder(S), S)
           /\ Lists(Backwards(S), S)
           /\ S # {} => InOrder(S)[Cardinality(S)] \in S
<1> DEFINE o == InOrder(S)
           k == Cardinality(S)
           r == Backwards(S)
<1>1. /\ DOMAIN o = 1 .. k /\ k \in Nat
      /\ \A i \in 1 .. k : o[i] \in S
      /\ \A i, j \in 1 .. k : o[i] = o[j] => i = j
      /\ \A b \in S : \E i \in 1 .. k : o[i] = b
  BY InOrderLists
<1>0. r = [i \in DOMAIN o |-> o[k + 1 - i]]
  BY DEF Backwards
<1> HIDE DEF o, k, r
<1>2. Lists(o, S)
  BY <1>1 DEF Lists
<1>3. \A i \in 1 .. k : k + 1 - i \in 1 .. k /\ k + 1 - (k + 1 - i) = i
  BY <1>1
<1>4. DOMAIN r = 1 .. k /\ \A i \in 1 .. k : r[i] = o[k + 1 - i]
  BY <1>0, <1>1
<1>5. /\ \A i \in 1 .. k : r[i] \in S
      /\ \A b \in S : \E i \in 1 .. k : r[i] = b
  BY <1>1, <1>3, <1>4
<1>6. ASSUME NEW i \in 1 .. k, NEW j \in 1 .. k, r[i] = r[j] PROVE i = j
  <2>1. k + 1 - i = k + 1 - j
    BY <1>1, <1>3, <1>4, <1>6
  <2> QED BY <1>1, <2>1
<1>7. Lists(r, S)
  BY <1>1, <1>4, <1>5, <1>6 DEF Lists
<1>8. S # {} => o[k] \in S
  <2> SUFFICES ASSUME S # {} PROVE o[k] \in S
      OBVIOUS
  <2>1. PICK i \in 1 .. k : TRUE
    BY <1>1
  <2>2. k \in 1 .. k
    BY <1>1
  <2> QED BY <1>1, <2>2
<1> QED BY <1>2, <1>7, <1>8 DEF o, k, r

\* A step that changes nothing but what the block policy knows.
LEMMA UnendedSame ==
    ASSUME NEW s, NEW n, Unended(s, n), NEW m \in NativeState, m.blocks = n.blocks,
           m.log = n.log, m.text = n.text, m.thinking = n.thinking, SameMessage(n, m)
    PROVE  Unended(s, m)
<1>1. StillOpen(m) = StillOpen(n)
  BY DEF StillOpen
<1> QED BY <1>1 DEF Unended, Told, IsCurrent, SameMessage

LEMMA CloseUnclosedIs ==
    ASSUME NEW n \in NativeState
    PROVE  LET m == CloseUnclosed(n)
           IN  /\ m \in NativeState /\ Closed(n, m, StillOpen(n)) /\ StillOpen(m) = {}
               /\ StillOpen(n) = {} => m.log = n.log
               /\ \A s : Unended(s, n) => Unended(s, m)
<1> DEFINE S == StillOpen(n)
           order == Backwards(S)
           m == StopBlocks(n, order)
           q == EventEach(n, "stop", order)
<1>1. CloseUnclosed(n) = m
  BY DEF CloseUnclosed
<1>2. S \in SUBSET Nat /\ IsFiniteSet(S) /\ S \in SUBSET (1 .. Len(n.blocks))
  BY OpenFacts
<1>3. Lists(order, S)
  <2> HIDE DEF S
  <2> QED BY <1>2, ListInOrder
<1> HIDE DEF order
<1>4. m \in NativeState /\ Closed(n, m, S) /\ m.log = n.log \o q
  BY <1>2, <1>3, StopBlocksIs
<1>5. ASSUME S = {} PROVE m.log = n.log
  <2>1. EachOf(n, q, "stop", S)
    BY <1>2, <1>3, EventEachIs
  <2> HIDE DEF q, m
  <2>2. q \in Seq(Event) /\ \A i \in 1 .. Len(q) : q[i].block \in S
    BY <2>1 DEF EachOf, OneEach
  <2>3. q = <<>>
    <3>1. Len(q) \in Nat /\ (Len(q) = 0 => q = <<>>)
      BY <2>2, EmptySeq, LenProperties
    <3>2. CASE Len(q) # 0
      <4>1. 1 \in 1 .. Len(q)
        BY <3>1, <3>2
      <4> QED BY <1>5, <2>2, <4>1
    <3> QED BY <3>1, <3>2
  <2>4. n.log \in Seq(Event)
    BY DEF NativeState
  <2> QED BY <1>4, <2>3, <2>4, ConcatEmptySeq
<1>6. ASSUME NEW s, Unended(s, n) PROVE Unended(s, m)
  BY <1>3, <1>6, StopBlocksDoes
<1> HIDE DEF m
<1>7. StillOpen(m) = {}
  BY <1>4 DEF Closed
<1> QED BY <1>1, <1>4, <1>5, <1>6, <1>7

-----------------------------------------------------------------------------
(* Events of the message.                                                  *)
OfMessageEvent(kind) == [kind |-> kind, block |-> 0, type |-> "message"]

LEMMA OfMessageIs ==
    ASSUME NEW n \in NativeState, NEW kind \in {"start", "error", "usage", "end"}
    PROVE  LET m == OfMessage(n, kind)
               e == OfMessageEvent(kind)
           IN  /\ m \in NativeState /\ m.log = Append(n.log, e) /\ e \in Event /\ e.kind = kind
               /\ m.blocks = n.blocks /\ StillOpen(m) = StillOpen(n)
               /\ m.text = n.text /\ m.thinking = n.thinking /\ SamePolicy(n, m)
               /\ m.started <=> n.started \/ kind = "start"
               /\ m.usage <=> n.usage \/ kind = "usage"
               /\ m.stopped <=> n.stopped \/ kind = "end"
<1> DEFINE m == OfMessage(n, kind)
           e == OfMessageEvent(kind)
<1>1. e \in Event /\ e.kind = kind
  BY DEF Event, OfMessageEvent
<1>2. Append(n.log, e) \in Seq(Event)
  BY <1>1, AppendProperties DEF NativeState
<1>3. m = [n EXCEPT !.log = Append(n.log, e), !.started = n.started \/ kind = "start",
                    !.usage = n.usage \/ kind = "usage", !.stopped = n.stopped \/ kind = "end"]
  BY DEF OfMessage, Note, OfMessageEvent, NativeState
<1> HIDE DEF m, e
<1>4. /\ m \in NativeState /\ m.log = Append(n.log, e) /\ m.blocks = n.blocks
      /\ m.text = n.text /\ m.thinking = n.thinking /\ SamePolicy(n, m)
      /\ m.started <=> n.started \/ kind = "start"
      /\ m.usage <=> n.usage \/ kind = "usage"
      /\ m.stopped <=> n.stopped \/ kind = "end"
  BY <1>2, <1>3 DEF NativeState, SamePolicy
<1>5. StillOpen(m) = StillOpen(n)
  BY <1>4 DEF StillOpen
<1> QED BY <1>1, <1>4, <1>5 DEF m, e

LEMMA OfMessageDoes ==
    ASSUME NEW s, NEW n, Unended(s, n), NEW kind \in {"error", "usage"},
           n.blocks # <<>>
    PROVE  Unended(s, OfMessage(n, kind))
<1> DEFINE m == OfMessage(n, kind)
           e == OfMessageEvent(kind)
           t == s \o n.log
<1>1. /\ n \in NativeState /\ s \in Seq(Event) /\ n.log \in Seq(Event)
      /\ Records(t, Announced(n.blocks), StillOpen(n)) /\ t # <<>>
  BY DEF Unended, Told, NativeState
<1>2. /\ m \in NativeState /\ m.log = Append(n.log, e) /\ e \in Event /\ e.kind = kind
      /\ m.blocks = n.blocks /\ StillOpen(m) = StillOpen(n)
      /\ m.text = n.text /\ m.thinking = n.thinking
      /\ m.started <=> n.started
      /\ m.stopped <=> n.stopped
  <2>1. kind \in {"start", "error", "usage", "end"} /\ kind # "start" /\ kind # "end"
    OBVIOUS
  <2> QED BY <1>1, <2>1, OfMessageIs
<1> HIDE DEF m, e
<1>3. s \o Append(n.log, e) = Append(t, e)
  BY <1>1, <1>2, LogAppend
<1>4. Records(Append(t, e), Announced(n.blocks), StillOpen(n))
  BY <1>1, <1>2, RecordsOther
<1>5. Append(t, e) # <<>>
  <2>1. t \in Seq(Event)
    BY <1>1, ConcatProperties
  <2> QED BY <1>2, <2>1, AppendFacts, EmptySeq
<1>6. Told(s, m)
  BY <1>1, <1>2, <1>3, <1>4, <1>5 DEF Told
<1> QED BY <1>2, <1>6 DEF Unended, IsCurrent, m

\* A message that has been ended: its events, and what the ledger knows of it.
Concluded(s, n) ==
    /\ s \in Seq(Event) /\ n \in NativeState
    /\ n.started /\ n.usage /\ n.stopped /\ StillOpen(n) = {}
    /\ WellFormed(s \o n.log) /\ HasEnd(s \o n.log)

LEMMA EndsLast ==
    ASSUME NEW s \in Seq(Event), NEW n \in NativeState
    PROVE  LET m == OfMessage(n, "end")
           IN  /\ m \in NativeState /\ m.log \in Seq(Event) /\ m.blocks = n.blocks
               /\ HasEnd(s \o m.log)
<1> DEFINE m == OfMessage(n, "end")
           e == OfMessageEvent("end")
           t == s \o n.log
<1>1. m \in NativeState /\ m.log = Append(n.log, e) /\ e \in Event /\ e.kind = "end"
      /\ m.blocks = n.blocks
  BY OfMessageIs
<1>2. n.log \in Seq(Event) /\ m.log \in Seq(Event)
  BY <1>1 DEF NativeState
<1> HIDE DEF m, e
<1>3. s \o m.log = Append(t, e) /\ t \in Seq(Event)
  BY <1>1, <1>2, LogAppend, ConcatProperties
<1> HIDE DEF t
<1>4. HasEnd(s \o m.log)
  BY <1>1, <1>3, AppendFacts DEF HasEnd
<1> QED BY <1>1, <1>2, <1>4 DEF m

LEMMA MessageEndsDoes ==
    ASSUME NEW s, NEW n, Unended(s, n), n.usage, StillOpen(n) = {}
    PROVE  Concluded(s, OfMessage(n, "end"))
<1> DEFINE m == OfMessage(n, "end")
           e == OfMessageEvent("end")
           t == s \o n.log
<1>1. /\ n \in NativeState /\ s \in Seq(Event) /\ n.log \in Seq(Event)
      /\ n.blocks \in Seq(NativeBlock)
      /\ Records(t, Announced(n.blocks), {}) /\ n.blocks # <<>> /\ n.started
  BY DEF Unended, Told, NativeState
<1>2. /\ m \in NativeState /\ m.log = Append(n.log, e) /\ e \in Event /\ e.kind = "end"
      /\ StillOpen(m) = {} /\ m.started /\ m.usage /\ m.stopped
  BY <1>1, OfMessageIs
<1>3. HasEnd(s \o m.log)
  BY <1>1, EndsLast
<1> HIDE DEF m, e
<1>4. s \o m.log = Append(t, e)
  BY <1>1, <1>2, LogAppend
<1>5. Announced(n.blocks) # <<>>
  BY <1>1, AnnouncedFacts, EmptySeq
<1>6. WellFormed(Append(t, e))
  BY <1>1, <1>2, <1>5, RecordsEnd
<1> QED BY <1>1, <1>2, <1>3, <1>4, <1>6 DEF Concluded, m

-----------------------------------------------------------------------------
(* The block policy.                                                       *)
LEMMA NumberedSame ==
    ASSUME NEW n \in NativeState, Numbered(n), NEW m, m.segment = n.segment,
           m.order = n.order, m.unseen = n.unseen,
           Len(m.blocks) \in Nat, Len(m.blocks) >= Len(n.blocks)
    PROVE  Numbered(m)
<1>1. Len(n.blocks) \in Nat
  BY OpenFacts
<1>2. \A u \in Index : m.segment[u] <= Len(m.blocks)
  BY <1>1 DEF Numbered
<1> QED BY <1>2 DEF Numbered

LEMMA NewSegmentDoes ==
    ASSUME NEW n \in NativeState, Numbered(n), NEW k \in NativeState, k.segment = n.segment,
           k.order = n.order, k.unseen = n.unseen, Len(k.blocks) = Len(n.blocks) + 1,
           NEW u \in Index
    PROVE  LET m == NewSegment(k, u)
           IN  /\ m \in NativeState /\ m.blocks = k.blocks /\ m.log = k.log
               /\ m.text = k.text /\ m.thinking = k.thinking /\ SameMessage(k, m)
               /\ Numbered(m)
<1> DEFINE m == NewSegment(k, u)
           b == Len(k.blocks)
           o == n.order
<1>1. /\ o \in Seq(Index) /\ n.segment \in [Index -> Nat] /\ b \in Nat /\ b # 0
      /\ Len(n.blocks) \in Nat /\ Len(o) \in Nat
      /\ \A v \in Index : n.segment[v] < b
  <2>1. Len(n.blocks) \in Nat
    BY OpenFacts
  <2>2. o \in Seq(Index) /\ n.segment \in [Index -> Nat] /\ Len(o) \in Nat
    BY LenProperties DEF NativeState
  <2> QED BY <2>1, <2>2 DEF Numbered
<1>2. Append(o, u) \in Seq(Index)
  BY <1>1, AppendProperties
<1>3. /\ m \in NativeState /\ m.blocks = k.blocks /\ m.log = k.log
      /\ m.text = k.text /\ m.thinking = k.thinking /\ SameMessage(k, m)
      /\ m.segment = [n.segment EXCEPT ![u] = b]
      /\ m.order = IF n.segment[u] = 0 THEN Append(o, u) ELSE o
      /\ m.unseen = {}
  <2>1. m = [k EXCEPT !.segment = [n.segment EXCEPT ![u] = b],
                      !.order = IF n.segment[u] = 0 THEN Append(o, u) ELSE o]
    BY DEF NewSegment, NativeState
  <2>2. [n.segment EXCEPT ![u] = b] \in [Index -> Nat]
    BY <1>1
  <2>3. k.unseen = {}
    BY DEF Numbered
  <2> HIDE DEF m, o, b
  <2> QED BY <1>1, <1>2, <2>1, <2>2, <2>3 DEF NativeState, SameMessage
<1> HIDE DEF m, b
<1>4. /\ \A v \in Index : m.segment[v] = IF v = u THEN b ELSE n.segment[v]
      /\ m.segment \in [Index -> Nat] /\ m.order \in Seq(Index)
  BY <1>1, <1>2, <1>3
<1>5. \A v \in Index : m.segment[v] <= Len(m.blocks)
  BY <1>1, <1>3, <1>4 DEF b
<1>6. \A v, w \in Index : m.segment[v] = m.segment[w] /\ m.segment[v] # 0 => v = w
  BY <1>1, <1>4 DEF Numbered
<1>7. CASE n.segment[u] # 0
  <2>1. m.order = o
    BY <1>3, <1>7
  <2>2. /\ \A i, j \in 1 .. Len(m.order) : m.order[i] = m.order[j] => i = j
        /\ \A v \in Index : m.segment[v] # 0 <=> \E i \in 1 .. Len(m.order) : m.order[i] = v
    BY <1>1, <1>4, <1>7, <2>1 DEF Numbered
  <2> QED BY <1>3, <1>4, <1>5, <1>6, <2>2 DEF Numbered, m
<1>8. CASE n.segment[u] = 0
  <2>1. /\ m.order = Append(o, u) /\ Len(m.order) = Len(o) + 1
        /\ m.order[Len(o) + 1] = u /\ \A i \in 1 .. Len(o) : m.order[i] = o[i]
    BY <1>1, <1>3, <1>8, AppendProperties
  <2>2. \A i \in 1 .. Len(m.order) : i \in 1 .. Len(o) \/ i = Len(o) + 1
    BY <1>1, <2>1
  <2>3. \A i \in 1 .. Len(o) : i \in 1 .. Len(m.order) /\ o[i] # u
    BY <1>1, <1>8, <2>1 DEF Numbered
  <2>4. Len(o) + 1 \in 1 .. Len(m.order)
    BY <1>1, <2>1
  <2>5. ASSUME NEW i \in 1 .. Len(m.order), NEW j \in 1 .. Len(m.order),
               m.order[i] = m.order[j]
        PROVE  i = j
    BY <2>1, <2>2, <2>3, <2>5 DEF Numbered
  <2>6. ASSUME NEW v \in Index
        PROVE  m.segment[v] # 0 <=> \E i \in 1 .. Len(m.order) : m.order[i] = v
    <3>1. CASE v = u
      BY <1>1, <1>4, <2>1, <2>4, <3>1
    <3>2. CASE v # u
      <4>1. n.segment[v] # 0 <=> \E i \in 1 .. Len(o) : o[i] = v
        BY DEF Numbered
      <4> QED BY <1>4, <2>1, <2>2, <2>3, <3>2, <4>1
    <3> QED BY <3>1, <3>2
  <2> QED BY <1>3, <1>4, <1>5, <1>6, <2>5, <2>6 DEF Numbered, m
<1> QED BY <1>7, <1>8

LEMMA SegmentsOfLists ==
    ASSUME NEW n \in NativeState, Numbered(n), NEW U \in SUBSET Index,
           \A v \in U : n.segment[v] # 0
    PROVE  Lists(SegmentsOf(n, U), {n.segment[v] : v \in U})
<1> DEFINE P == {i \in DOMAIN n.order : n.order[i] \in U}
           keys == InOrder(P)
           q == SegmentsOf(n, U)
           S == {n.segment[v] : v \in U}
<1>1. /\ DOMAIN n.order = 1 .. Len(n.order) /\ Len(n.order) \in Nat
      /\ \A i \in 1 .. Len(n.order) : n.order[i] \in Index
  BY LenProperties, ElementOfSeq DEF NativeState
<1>2. P \in SUBSET Nat /\ IsFiniteSet(P) /\ P \subseteq 1 .. Len(n.order)
  <2>1. P \subseteq 1 .. Len(n.order) /\ IsFiniteSet(1 .. Len(n.order))
    BY <1>1, FS_Interval
  <2> HIDE DEF P
  <2>2. IsFiniteSet(P)
    BY <2>1, FS_Subset
  <2> QED BY <2>1, <2>2
<1>3. \A i \in P : n.order[i] \in U
  OBVIOUS
<1>4. \A v \in U : \E i \in P : n.order[i] = v
  <2> SUFFICES ASSUME NEW v \in U PROVE \E i \in P : n.order[i] = v
      OBVIOUS
  <2>1. PICK i \in 1 .. Len(n.order) : n.order[i] = v
    BY DEF Numbered
  <2>2. i \in P
    BY <1>1, <2>1
  <2> QED BY <2>1, <2>2
<1>5. q = [k \in DOMAIN keys |-> n.segment[n.order[keys[k]]]]
  BY DEF SegmentsOf
<1> HIDE DEF P
<1>6. Lists(keys, P)
  BY <1>2, ListInOrder
<1> HIDE DEF keys, q
<1>7. /\ DOMAIN q = DOMAIN keys /\ \A k \in DOMAIN q : q[k] = n.segment[n.order[keys[k]]]
      /\ \A k \in DOMAIN q : keys[k] \in P
  BY <1>5, <1>6 DEF Lists
<1>8. \A k \in DOMAIN q : q[k] \in S
  BY <1>3, <1>7
<1>9. ASSUME NEW i \in DOMAIN q, NEW j \in DOMAIN q, q[i] = q[j] PROVE i = j
  <2>1. /\ keys[i] \in 1 .. Len(n.order) /\ keys[j] \in 1 .. Len(n.order)
        /\ n.order[keys[i]] \in U /\ n.order[keys[j]] \in U
    BY <1>2, <1>3, <1>7
  <2>2. n.order[keys[i]] = n.order[keys[j]]
    BY <1>7, <1>9, <2>1 DEF Numbered
  <2>3. keys[i] = keys[j]
    BY <2>1, <2>2 DEF Numbered
  <2> QED BY <1>6, <1>7, <2>3 DEF Lists
<1>10. ASSUME NEW b \in S PROVE \E k \in DOMAIN q : q[k] = b
  <2>1. PICK v \in U : b = n.segment[v]
    OBVIOUS
  <2>2. PICK i \in P : n.order[i] = v
    BY <1>4
  <2>3. PICK k \in DOMAIN keys : keys[k] = i
    BY <1>6 DEF Lists
  <2> QED BY <1>7, <2>1, <2>2, <2>3
<1> HIDE DEF S
<1> QED BY <1>6, <1>7, <1>8, <1>9, <1>10 DEF Lists, q, S

LEMMA CloseOthersKeeps ==
    ASSUME NEW s, NEW n, Unended(s, n), Numbered(n), NEW u
    PROVE  Unended(s, CloseOthers(n, u)) /\ Numbered(CloseOthers(n, u))
<1> DEFINE others == {v \in Index \ {u} : IsOpen(n, v)}
           S == {n.segment[v] : v \in others}
           k == StopBlocks(n, SegmentsOf(n, others))
           m == CloseOthers(n, u)
<1>1. n \in NativeState
  BY DEF Unended, Told
<1>2. S \in SUBSET StillOpen(n)
  BY DEF IsOpen, Numbered
<1>3. \A v \in others : n.segment[v] # 0
  BY <1>1, OpenFacts DEF IsOpen, Numbered
<1>4. m = [k EXCEPT !.suppressed = k.suppressed \cup others, !.unseen = k.unseen \ S]
  BY DEF CloseOthers
<1>5. others \subseteq Index
  OBVIOUS
<1> HIDE DEF m, others
<1>6. Lists(SegmentsOf(n, others), S)
  BY <1>1, <1>3, <1>5, SegmentsOfLists
<1> HIDE DEF S
<1>7. Unended(s, k) /\ Closed(n, k, S)
  BY <1>2, <1>6, StopBlocksDoes
<1> HIDE DEF k
<1>8. k \in NativeState
  BY <1>7 DEF Unended, Told
<1>9. /\ m \in NativeState /\ m.blocks = k.blocks /\ m.log = k.log /\ m.text = k.text
      /\ m.thinking = k.thinking /\ SameMessage(k, m)
      /\ m.segment = k.segment /\ m.order = k.order /\ m.unseen = n.unseen
  <2>1. k.unseen = {} /\ n.unseen = {}
    BY <1>7 DEF Closed, SamePolicy, Numbered
  <2> QED BY <1>4, <1>5, <1>8, <2>1 DEF NativeState, SameMessage
<1>10. Numbered(m)
  <2>1. m.segment = n.segment /\ m.order = n.order /\ Len(m.blocks) = Len(n.blocks)
    BY <1>7, <1>9 DEF Closed, SamePolicy, SameContents
  <2>2. Len(n.blocks) \in Nat
    BY <1>1, OpenFacts
  <2> QED BY <1>1, <1>9, <2>1, <2>2, NumberedSame
<1> QED BY <1>7, <1>9, <1>10, UnendedSame DEF m

LEMMA PolicyStartKeeps ==
    ASSUME NEW s, NEW n, Unended(s, n), Numbered(n), NEW u \in Index, NEW type \in BlockTypes,
           NEW wanted
    PROVE  Unended(s, PolicyStart(n, u, type, wanted)) /\ Numbered(PolicyStart(n, u, type, wanted))
<1> DEFINE c == CloseOthers(n, u)
           k == BeginBlock(c, type)
           m == NewSegment(k, u)
           d == [n EXCEPT !.dropped = @ \cup {u}]
<1>1. Unended(s, c) /\ Numbered(c)
  BY CloseOthersKeeps
<1> HIDE DEF c
<1>2. Unended(s, k) /\ Begun(c, k, type)
  BY <1>1, BeginBlockDoes
<1> HIDE DEF k
<1>3. c \in NativeState /\ k \in NativeState
  BY <1>1, <1>2 DEF Unended, Told
<1>4. /\ m \in NativeState /\ m.blocks = k.blocks /\ m.log = k.log /\ m.text = k.text
      /\ m.thinking = k.thinking /\ SameMessage(k, m) /\ Numbered(m)
  BY <1>1, <1>2, <1>3, NewSegmentDoes DEF Begun, SamePolicy
<1> HIDE DEF m
<1>5. Unended(s, m)
  BY <1>2, <1>4, UnendedSame
<1>6. /\ d \in NativeState /\ d.blocks = n.blocks /\ d.log = n.log /\ d.text = n.text
      /\ d.thinking = n.thinking /\ SameMessage(n, d)
      /\ d.segment = n.segment /\ d.order = n.order /\ d.unseen = n.unseen
      /\ n \in NativeState
  <2>1. n \in NativeState
    BY DEF Unended, Told
  <2> QED BY <2>1 DEF NativeState, SameMessage
<1> HIDE DEF d
<1>7. Unended(s, d) /\ Numbered(d)
  <2>1. Len(n.blocks) \in Nat
    BY <1>6, OpenFacts
  <2> QED BY <1>6, <2>1, UnendedSame, NumberedSame
<1>8. PolicyStart(n, u, type, wanted) = IF type = "thinking" /\ ~ wanted THEN d ELSE m
  BY DEF PolicyStart, d, m, k, c
<1> QED BY <1>4, <1>5, <1>7, <1>8

LEMMA PolicyDeltaKeeps ==
    ASSUME NEW s, NEW n, Unended(s, n), Numbered(n), NEW u \in Index, NEW type \in BlockTypes,
           NEW args \in Args, NEW wanted, ~ DeltaStrays(n, u, type, wanted)
    PROVE  /\ Unended(s, PolicyDelta(n, u, type, args, wanted))
           /\ Numbered(PolicyDelta(n, u, type, args, wanted))
<1> DEFINE k == BeginBlock(n, type)
           b == Len(k.blocks)
           w == WriteBlock(k, b, args)
           x == [w EXCEPT !.suppressed = @ \ {u}]
           m == NewSegment(x, u)
<1>0. n \in NativeState
  BY DEF Unended, Told
<1>1. Unended(s, k) /\ Begun(n, k, type)
  BY BeginBlockDoes
<1> HIDE DEF k
<1>2. b \in StillOpen(k) /\ b = Len(n.blocks) + 1 /\ SamePolicy(n, k)
  BY <1>1 DEF Begun
<1>3. Unended(s, w) /\ Written(k, w, b, args)
  BY <1>1, <1>2, WriteBlockDoes
<1> HIDE DEF w
<1>4. /\ w \in NativeState /\ Len(w.blocks) = b
      /\ w.segment = n.segment /\ w.order = n.order /\ w.unseen = n.unseen
  BY <1>2, <1>3 DEF Unended, Told, Written, SamePolicy
<1>5. /\ x \in NativeState /\ x.blocks = w.blocks /\ x.log = w.log /\ x.text = w.text
      /\ x.thinking = w.thinking /\ SameMessage(w, x)
      /\ x.segment = n.segment /\ x.order = n.order /\ x.unseen = n.unseen
      /\ Len(x.blocks) = Len(n.blocks) + 1
  BY <1>2, <1>4 DEF NativeState, SameMessage
<1> HIDE DEF x
<1>6. /\ m \in NativeState /\ m.blocks = x.blocks /\ m.log = x.log /\ m.text = x.text
      /\ m.thinking = x.thinking /\ SameMessage(x, m) /\ Numbered(m)
  BY <1>0, <1>5, NewSegmentDoes
<1> HIDE DEF m
<1>7. Unended(s, m)
  BY <1>3, <1>5, <1>6, UnendedSame
<1>8. ASSUME IsOpen(n, u)
      PROVE  /\ Unended(s, WriteBlock(n, n.segment[u], args))
             /\ Numbered(WriteBlock(n, n.segment[u], args))
  <2>1. PICK y : y = WriteBlock(n, n.segment[u], args)
    OBVIOUS
  <2>2. Unended(s, y) /\ Written(n, y, n.segment[u], args)
    BY <1>8, <2>1, WriteBlockDoes DEF IsOpen, Numbered
  <2>3. Len(n.blocks) \in Nat
    BY <1>0, OpenFacts
  <2>4. Numbered(y)
    BY <1>0, <2>2, <2>3, NumberedSame DEF Written, SamePolicy
  <2> QED BY <2>1, <2>2, <2>4
<1>9. PolicyDelta(n, u, type, args, wanted) =
        IF u \in n.dropped \/ (type = "thinking" /\ ~ wanted) THEN n
        ELSE IF IsOpen(n, u) THEN WriteBlock(n, n.segment[u], args) ELSE m
  BY DEF PolicyDelta, m, x, w, k
<1> QED BY <1>6, <1>7, <1>8, <1>9

LEMMA PolicyStopKeeps ==
    ASSUME NEW s, NEW n, Unended(s, n), Numbered(n), NEW u \in Index,
           NEW wanted, ~ StopStrays(n, u, wanted)
    PROVE  Unended(s, PolicyStop(n, u, wanted)) /\ Numbered(PolicyStop(n, u, wanted))
<1> DEFINE d == [n EXCEPT !.suppressed = @ \ {u}]
<1>1. n \in NativeState /\ Len(n.blocks) \in Nat
  BY OpenFacts DEF Unended, Told
<1>2. /\ d \in NativeState /\ d.blocks = n.blocks /\ d.log = n.log /\ d.text = n.text
      /\ d.thinking = n.thinking /\ SameMessage(n, d)
      /\ d.segment = n.segment /\ d.order = n.order /\ d.unseen = n.unseen
  BY <1>1 DEF NativeState, SameMessage
<1> HIDE DEF d
<1>3. Unended(s, d) /\ Numbered(d)
  BY <1>1, <1>2, UnendedSame, NumberedSame
<1> DEFINE y == [StopBlocks(n, <<n.segment[u]>>) EXCEPT !.unseen = @ \ {n.segment[u]}]
<1>4. ASSUME IsOpen(n, u) PROVE Unended(s, y) /\ Numbered(y)
  <2>1. PICK b : b = n.segment[u]
    OBVIOUS
  <2>2. PICK m : m = StopBlocks(n, <<b>>)
    OBVIOUS
  <2>3. {b} \in SUBSET StillOpen(n)
    BY <1>4, <2>1 DEF IsOpen, Numbered
  <2>4. Unended(s, m) /\ Closed(n, m, {b})
    BY <2>2, <2>3, ListOfOne, StopBlocksDoes
  <2>5. m.unseen = {} /\ n.unseen = {} /\ m \in NativeState
    BY <2>4 DEF Closed, SamePolicy, Numbered, Unended, Told
  <2>6. y = [m EXCEPT !.unseen = {}]
    BY <2>1, <2>2, <2>5
  <2> HIDE DEF y
  <2>7. /\ y \in NativeState /\ y.blocks = m.blocks /\ y.log = m.log /\ y.text = m.text
        /\ y.thinking = m.thinking /\ SameMessage(m, y)
        /\ y.segment = m.segment /\ y.order = m.order /\ y.unseen = n.unseen
    BY <2>5, <2>6 DEF NativeState, SameMessage
  <2>8. Numbered(y)
    BY <1>1, <2>4, <2>7, NumberedSame DEF Closed, SamePolicy, SameContents
  <2> QED BY <2>4, <2>7, <2>8, UnendedSame
<1>5. PolicyStop(n, u, wanted) =
        IF u \in n.dropped THEN n ELSE IF u \in n.suppressed THEN d ELSE IF IsOpen(n, u) THEN y ELSE n
  BY DEF PolicyStop, d
<1> QED BY <1>3, <1>4, <1>5

-----------------------------------------------------------------------------
(* What the ledger adds.                                                   *)
LEMMA SameToolsHeld ==
    ASSUME NEW n \in NativeState, NEW m \in NativeState, SameContents(n, m)
    PROVE  ToolBlocks(m) = ToolBlocks(n) /\ BrokenTools(m) = BrokenTools(n)
<1>1. DOMAIN n.blocks = 1 .. Len(n.blocks) /\ DOMAIN m.blocks = 1 .. Len(m.blocks)
  BY OpenFacts
<1>2. ToolBlocks(m) = ToolBlocks(n)
  BY <1>1 DEF ToolBlocks, SameContents
<1>3. \A b \in ToolBlocks(n) : m.blocks[b].args = n.blocks[b].args
  BY <1>1 DEF ToolBlocks, SameContents
<1> QED BY <1>2, <1>3 DEF BrokenTools

LEMMA AppendSuffixDoes ==
    ASSUME NEW s, NEW n, Unended(s, n), CanAppend(n), NEW type \in {"text", "thinking"},
           ToolBlocks(n) = {}
    PROVE  LET m == AppendSuffix(n, type)
           IN  /\ Unended(s, m) /\ CanAppend(m) /\ m.blocks # <<>> /\ ToolBlocks(m) = {}
<1> DEFINE other == IF type = "text" THEN n.thinking ELSE n.text
           m == IF other # 0 THEN StopBlocks(n, <<other>>) ELSE n
           cur == IF type = "text" THEN m.text ELSE m.thinking
           k == IF cur # 0 THEN m ELSE BeginBlock(m, type)
           open == {b \in StillOpen(k) : k.blocks[b].type = type}
           last == InOrder(open)[Cardinality(open)]
           r == WriteBlock(k, last, "partial")
<1>0. AppendSuffix(n, type) = r
  BY DEF AppendSuffix
<1>1. type \in BlockTypes /\ "partial" \in Args /\ type # "tool"
  BY DEF BlockTypes, Args
<1>2. Unended(s, m) /\ CanAppend(m) /\ ToolBlocks(m) = {}
  <2>1. CASE other # 0
    <3> DEFINE c == StopBlocks(n, <<other>>)
    <3>1. {other} \in SUBSET StillOpen(n)
      BY <2>1 DEF Unended, IsCurrent
    <3> HIDE DEF other
    <3>2. Unended(s, c) /\ Closed(n, c, {other})
      BY <3>1, ListOfOne, StopBlocksDoes
    <3> HIDE DEF c
    <3>3. c \in NativeState /\ n \in NativeState /\ SameContents(n, c) /\ SameMessage(n, c)
      BY <3>2 DEF Unended, Told, Closed
    <3>4. ToolBlocks(c) = {} /\ CanAppend(c)
      BY <3>3, SameToolsHeld DEF CanAppend, SameMessage
    <3>5. m = c
      BY <2>1 DEF c
    <3> QED BY <3>2, <3>4, <3>5
  <2>2. CASE other = 0
    BY <2>2
  <2> QED BY <2>1, <2>2
<1> HIDE DEF m
<1>3. Unended(s, k) /\ CanAppend(k) /\ ToolBlocks(k) = {} /\ open # {}
  <2>1. CASE cur # 0
    <3>1. cur \in StillOpen(m) /\ m.blocks[cur].type = type
      BY <1>2, <2>1 DEF Unended, IsCurrent
    <3> HIDE DEF cur
    <3> QED BY <1>2, <2>1, <3>1
  <2>2. CASE cur = 0
    <3> DEFINE c == BeginBlock(m, type)
               b == Len(m.blocks) + 1
    <3>1. Unended(s, c) /\ Begun(m, c, type)
      BY <1>1, <1>2, BeginBlockDoes
    <3> HIDE DEF c
    <3>2. c \in NativeState /\ m \in NativeState
      BY <1>2, <3>1 DEF Unended, Told
    <3>3. /\ DOMAIN c.blocks = 1 .. b /\ DOMAIN m.blocks = 1 .. Len(m.blocks)
          /\ \A d \in 1 .. b : d \in 1 .. Len(m.blocks) \/ d = b
      <4>1. Len(c.blocks) = b
        BY <3>1 DEF Begun
      <4> QED BY <3>2, <4>1, OpenFacts
    <3>4. /\ b \in StillOpen(c) /\ c.blocks[b].type = type /\ SameMessage(m, c)
          /\ \A d \in 1 .. Len(m.blocks) : c.blocks[d] = m.blocks[d]
      BY <3>1 DEF Begun
    <3> HIDE DEF b
    <3>5. ToolBlocks(c) = {}
      BY <1>1, <1>2, <3>3, <3>4 DEF ToolBlocks
    <3>6. CanAppend(c)
      BY <1>2, <3>4 DEF CanAppend, SameMessage
    <3>7. k = c
      BY <2>2 DEF c
    <3> QED BY <3>1, <3>4, <3>5, <3>6, <3>7
  <2> QED BY <2>1, <2>2
<1> HIDE DEF k, cur
<1>4. last \in open
  <2>1. k \in NativeState
    BY <1>3 DEF Unended, Told
  <2>2. StillOpen(k) \in SUBSET (Nat \ {0}) /\ IsFiniteSet(StillOpen(k))
    BY <2>1, OpenFacts
  <2>3. open \in SUBSET StillOpen(k)
    OBVIOUS
  <2> HIDE DEF open
  <2>4. open \in SUBSET Nat /\ IsFiniteSet(open)
    BY <2>2, <2>3, FS_Subset
  <2> QED BY <1>3, <2>4, ListInOrder
<1>5. last \in StillOpen(k)
  BY <1>4
<1> HIDE DEF last, open
<1>6. Unended(s, r) /\ Written(k, r, last, "partial")
  BY <1>1, <1>3, <1>5, WriteBlockDoes
<1> HIDE DEF r
<1>7. k \in NativeState /\ r \in NativeState
  BY <1>3, <1>6 DEF Unended, Told
<1>8. /\ DOMAIN k.blocks = 1 .. Len(k.blocks) /\ DOMAIN r.blocks = 1 .. Len(r.blocks)
  BY <1>7, OpenFacts
<1>9. ToolBlocks(r) = {}
  BY <1>3, <1>6, <1>8 DEF ToolBlocks, Written
<1>10. CanAppend(r)
  BY <1>3, <1>6 DEF CanAppend, Written, SameMessage
<1>11. r.blocks # <<>>
  <2>1. last \in 1 .. Len(r.blocks)
    BY <1>6 DEF Written
  <2> QED BY <2>1, EmptySeq
<1> QED BY <1>0, <1>6, <1>9, <1>10, <1>11

\* A tool of which all is told, or could be told.
LEMMA RepairToolsIs ==
    ASSUME NEW n \in NativeState, CanAppend(n)
    PROVE  LET m == RepairTools(n)
               q == EventEach(n, "delta", InOrder(BrokenTools(n)))
           IN  /\ m \in NativeState /\ m.log = n.log \o q /\ q \in Seq(Event)
               /\ EachOf(n, q, "delta", BrokenTools(n))
               /\ StillOpen(m) = StillOpen(n) /\ Len(m.blocks) = Len(n.blocks)
               /\ \A b \in 1 .. Len(n.blocks) : m.blocks[b].type = n.blocks[b].type
               /\ m.text = n.text /\ m.thinking = n.thinking /\ SameMessage(n, m)
<1> DEFINE m == RepairTools(n)
           S == BrokenTools(n)
           q == EventEach(n, "delta", InOrder(S))
           x(b) == [n.blocks[b] EXCEPT !.args = IF b \in S THEN "whole" ELSE n.blocks[b].args]
           more == [b \in DOMAIN n.blocks |-> x(b)]
<1>1. /\ Len(n.blocks) \in Nat /\ DOMAIN n.blocks = 1 .. Len(n.blocks)
      /\ \A b \in 1 .. Len(n.blocks) : n.blocks[b] \in NativeBlock
  BY OpenFacts
<1>2. S \in SUBSET (1 .. Len(n.blocks))
  BY <1>1 DEF BrokenTools, ToolBlocks
<1>3. S \in SUBSET Nat /\ IsFiniteSet(S)
  <2>1. IsFiniteSet(1 .. Len(n.blocks)) /\ 1 .. Len(n.blocks) \subseteq Nat
    BY <1>1, FS_Interval
  <2> HIDE DEF S
  <2> QED BY <1>2, <2>1, FS_Subset
<1> HIDE DEF S
<1>4. Lists(InOrder(S), S)
  BY <1>3, ListInOrder
<1>5. EachOf(n, q, "delta", S)
  BY <1>2, <1>4, EventEachIs
<1> HIDE DEF q
<1>6. q \in Seq(Event)
  BY <1>5 DEF EachOf, OneEach
<1>7. \A b \in 1 .. Len(n.blocks) :
        /\ x(b) \in NativeBlock /\ x(b).type = n.blocks[b].type /\ x(b).open = n.blocks[b].open
  BY <1>1 DEF NativeBlock, Args
<1>8. m = [n EXCEPT !.log = n.log \o q, !.blocks = more]
  BY DEF RepairTools, S, q
<1> HIDE DEF x, m
<1>9. /\ more \in Seq(NativeBlock) /\ Len(more) = Len(n.blocks) /\ DOMAIN more = DOMAIN n.blocks
      /\ \A b \in 1 .. Len(n.blocks) : more[b] = x(b)
  <2>1. more = [b \in 1 .. Len(n.blocks) |-> x(b)]
    BY <1>1
  <2> HIDE DEF more
  <2>2. more \in Seq(NativeBlock)
    BY <1>1, <1>7, <2>1, IsASeq
  <2> QED BY <1>1, <2>1, <2>2, LenProperties
<1> HIDE DEF more
<1>10. n.log \o q \in Seq(Event)
  BY <1>6, ConcatProperties DEF NativeState
<1>11. /\ m \in NativeState /\ m.log = n.log \o q /\ m.blocks = more
       /\ m.text = n.text /\ m.thinking = n.thinking /\ SameMessage(n, m)
  BY <1>8, <1>9, <1>10 DEF NativeState, SameMessage
<1>12. StillOpen(m) = StillOpen(n)
  BY <1>1, <1>7, <1>9, <1>11 DEF StillOpen
<1> QED BY <1>5, <1>6, <1>7, <1>9, <1>11, <1>12 DEF m, q, S

LEMMA RepairToolsDoes ==
    ASSUME NEW s, NEW n, Unended(s, n), CanAppend(n), BrokenTools(n) \subseteq StillOpen(n)
    PROVE  Unended(s, RepairTools(n))
<1> DEFINE m == RepairTools(n)
           S == BrokenTools(n)
           q == EventEach(n, "delta", InOrder(S))
           t == s \o n.log
           old == Announced(n.blocks)
<1>1. /\ n \in NativeState /\ s \in Seq(Event) /\ n.blocks \in Seq(NativeBlock)
      /\ n.log \in Seq(Event) /\ Records(t, old, StillOpen(n)) /\ t # <<>>
  BY DEF Unended, Told, NativeState
<1>2. /\ m \in NativeState /\ m.log = n.log \o q /\ q \in Seq(Event)
      /\ EachOf(n, q, "delta", S)
      /\ StillOpen(m) = StillOpen(n) /\ Len(m.blocks) = Len(n.blocks)
      /\ \A b \in 1 .. Len(n.blocks) : m.blocks[b].type = n.blocks[b].type
      /\ m.text = n.text /\ m.thinking = n.thinking /\ SameMessage(n, m)
  BY <1>1, RepairToolsIs
<1> HIDE DEF m, q
<1>3. OneEach(q, "delta", S) /\ \A i \in 1 .. Len(q) : q[i].type = old[q[i].block].type
  BY <1>2 DEF EachOf
<1>4. Records(t \o q, old, StillOpen(n))
  <2>1. S \in SUBSET StillOpen(n)
    OBVIOUS
  <2> HIDE DEF t, old, S
  <2>2. Records(t \o q, old, IF "delta" = "stop" THEN StillOpen(n) \ S ELSE StillOpen(n))
    BY <1>1, <1>3, <2>1, RecordsEach
  <2> QED BY <2>2
<1>5. s \o (n.log \o q) = t \o q
  BY <1>1, <1>2, LogConcat
<1>6. old \in Seq(Block) /\ Len(old) = Len(n.blocks)
      /\ \A d \in 1 .. Len(n.blocks) : old[d].type = n.blocks[d].type
  BY <1>1, AnnouncedFacts
<1> HIDE DEF old
<1>7. m.blocks \in Seq(NativeBlock)
  BY <1>2 DEF NativeState
<1>8. Records(t \o q, Announced(m.blocks), StillOpen(n))
  BY <1>2, <1>4, <1>6, <1>7, AnnouncedSame
<1>9. t \o q # <<>>
  <2>1. t \in Seq(Event)
    BY <1>1, ConcatProperties
  <2> HIDE DEF t
  <2> QED BY <1>1, <1>2, <2>1, ConcatFacts, EmptySeq
<1>10. Told(s, m)
  BY <1>1, <1>2, <1>5, <1>8, <1>9 DEF Told
<1>11. StillOpen(n) \subseteq 1 .. Len(n.blocks)
  BY <1>1, OpenFacts
<1>12. IsCurrent(m, m.text, "text") /\ IsCurrent(m, m.thinking, "thinking")
  BY <1>2, <1>11 DEF IsCurrent, Unended
<1>13. m.started /\ ~ m.stopped /\ (m.usage => m.blocks # <<>>)
  BY <1>2 DEF Unended, SameMessage, CanAppend
<1> QED BY <1>10, <1>12, <1>13 DEF Unended, m

LEMMA ErrorTextDoes ==
    ASSUME NEW s, NEW n, Unended(s, n)
    PROVE  LET m == ErrorText(n)
           IN  /\ Unended(s, m) /\ StillOpen(m) = StillOpen(n) /\ m.blocks # <<>>
               /\ SameMessage(n, m)
<1> DEFINE k == BeginBlock(n, "text")
           b == Len(k.blocks)
           w == WriteBlock(k, b, "partial")
           m == StopBlocks(w, <<b>>)
<1>1. "text" \in BlockTypes /\ "partial" \in Args
  BY DEF BlockTypes, Args
<1>2. Unended(s, k) /\ Begun(n, k, "text")
  BY <1>1, BeginBlockDoes
<1> HIDE DEF k
<1>3. /\ b \in StillOpen(k) /\ b \notin StillOpen(n) /\ StillOpen(k) = StillOpen(n) \cup {b}
      /\ SameMessage(n, k) /\ b = Len(n.blocks) + 1
  BY <1>2 DEF Begun
<1>4. Unended(s, w) /\ Written(k, w, b, "partial")
  BY <1>1, <1>2, <1>3, WriteBlockDoes
<1> HIDE DEF w
<1>5. StillOpen(w) = StillOpen(k) /\ Len(w.blocks) = b /\ SameMessage(k, w) /\ b \in 1 .. b
  BY <1>4 DEF Written
<1> HIDE DEF b
<1>6. {b} \in SUBSET StillOpen(w)
  BY <1>3, <1>5
<1>7. Unended(s, m) /\ Closed(w, m, {b})
  BY <1>4, <1>6, ListOfOne, StopBlocksDoes
<1> HIDE DEF m
<1>8. StillOpen(m) = StillOpen(n)
  BY <1>3, <1>5, <1>7 DEF Closed
<1>9. SameMessage(n, m) /\ Len(m.blocks) = b
  BY <1>3, <1>5, <1>7 DEF Closed, SameMessage, SameContents
<1>10. m.blocks # <<>>
  BY <1>5, <1>9, EmptySeq
<1>11. ErrorText(n) = m
  BY DEF ErrorText, m, w, b, k
<1> QED BY <1>7, <1>8, <1>9, <1>10, <1>11

-----------------------------------------------------------------------------
(* Ends of a message.                                                      *)
LEMMA NativeSuccessIs ==
    ASSUME NEW s \in Seq(Event), NEW n \in NativeState, ~ n.stopped
    PROVE  LET m == NativeSuccess(n)
           IN  m \in NativeState /\ m.log \in Seq(Event) /\ HasEnd(s \o m.log)
<1> DEFINE c == CloseUnclosed(n)
           k == UsageOnce(c)
<1>1. c \in NativeState /\ ~ c.stopped
  <2>1. c \in NativeState /\ Closed(n, c, StillOpen(n))
    BY CloseUnclosedIs
  <2> QED BY <2>1 DEF Closed, SameMessage
<1> HIDE DEF c
<1>2. k \in NativeState /\ ~ k.stopped
  BY <1>1, OfMessageIs DEF UsageOnce
<1> HIDE DEF k
<1>3. NativeSuccess(n) = OfMessage(k, "end")
  BY <1>2 DEF NativeSuccess, EndOnce, k, c
<1> QED BY <1>2, <1>3, EndsLast

LEMMA NativeSuccessDoes ==
    ASSUME NEW s, NEW n, Unended(s, n), n.blocks # <<>>
    PROVE  LET m == NativeSuccess(n)
           IN  Concluded(s, m) /\ ToolBlocks(m) = ToolBlocks(n) /\ BrokenTools(m) = BrokenTools(n)
<1> DEFINE c == CloseUnclosed(n)
           k == UsageOnce(c)
           m == OfMessage(k, "end")
<1>0. n \in NativeState
  BY DEF Unended, Told
<1>1. /\ Unended(s, c) /\ c \in NativeState /\ StillOpen(c) = {}
      /\ SameContents(n, c) /\ SameMessage(n, c)
  <2>1. /\ Unended(s, c) /\ c \in NativeState /\ StillOpen(c) = {}
        /\ Closed(n, c, StillOpen(n))
    BY <1>0, CloseUnclosedIs
  <2> HIDE DEF c
  <2> QED BY <2>1 DEF Closed
<1> HIDE DEF c
<1>2. c.blocks # <<>>
  <2>1. Len(c.blocks) = Len(n.blocks) /\ n.blocks \in Seq(NativeBlock) /\ c.blocks \in Seq(NativeBlock)
    BY <1>0, <1>1 DEF SameContents, NativeState
  <2> QED BY <2>1, EmptySeq
<1>3. /\ Unended(s, k) /\ k.usage /\ StillOpen(k) = {} /\ k.blocks = c.blocks
      /\ k \in NativeState
  <2>1. CASE c.usage
    BY <1>1, <2>1 DEF UsageOnce
  <2>2. CASE ~ c.usage
    <3>1. k = OfMessage(c, "usage")
      BY <2>2 DEF UsageOnce
    <3>2. /\ OfMessage(c, "usage") \in NativeState
          /\ OfMessage(c, "usage").usage /\ OfMessage(c, "usage").blocks = c.blocks
          /\ StillOpen(OfMessage(c, "usage")) = StillOpen(c)
      BY <1>1, OfMessageIs
    <3>3. Unended(s, OfMessage(c, "usage"))
      BY <1>1, <1>2, OfMessageDoes
    <3> QED BY <1>1, <3>1, <3>2, <3>3
  <2> QED BY <2>1, <2>2
<1> HIDE DEF k
<1>4. Concluded(s, m)
  BY <1>3, MessageEndsDoes
<1>5. m \in NativeState /\ m.blocks = k.blocks
  BY <1>3, OfMessageIs
<1>6. NativeSuccess(n) = m
  <2>1. ~ k.stopped
    BY <1>3 DEF Unended
  <2> QED BY <2>1 DEF NativeSuccess, EndOnce, k, c
<1> HIDE DEF m
<1>7. SameContents(n, m)
  BY <1>1, <1>3, <1>5 DEF SameContents
<1> QED BY <1>0, <1>4, <1>5, <1>6, <1>7, SameToolsHeld

\* There is nothing to add to a message that has been ended.
LEMMA ConcludedAgain ==
    ASSUME NEW s, NEW n, Concluded(s, n)
    PROVE  LET m == NativeSuccess(n)
           IN  Concluded(s, m) /\ ToolBlocks(m) = ToolBlocks(n) /\ BrokenTools(m) = BrokenTools(n)
<1> DEFINE c == CloseUnclosed(n)
<1>1. n \in NativeState /\ n.usage /\ n.stopped /\ n.started /\ StillOpen(n) = {}
  BY DEF Concluded
<1>2. /\ c \in NativeState /\ StillOpen(c) = {} /\ c.log = n.log
      /\ SameContents(n, c) /\ SameMessage(n, c)
  <2>1. /\ c \in NativeState /\ StillOpen(c) = {} /\ c.log = n.log
        /\ Closed(n, c, StillOpen(n))
    BY <1>1, CloseUnclosedIs
  <2> HIDE DEF c
  <2> QED BY <2>1 DEF Closed
<1> HIDE DEF c
<1>3. c.usage /\ c.stopped /\ c.started
  BY <1>1, <1>2 DEF SameMessage
<1>4. NativeSuccess(n) = c
  BY <1>3 DEF NativeSuccess, EndOnce, UsageOnce, c
<1>5. Concluded(s, c)
  BY <1>2, <1>3 DEF Concluded
<1>6. ToolBlocks(c) = ToolBlocks(n) /\ BrokenTools(c) = BrokenTools(n)
  BY <1>1, <1>2, SameToolsHeld
<1> QED BY <1>4, <1>5, <1>6

LEMMA NativeErrorTailDoes ==
    ASSUME NEW s, NEW n, Unended(s, n)
    PROVE  Concluded(s, NativeErrorTail(n))
<1> DEFINE c == CloseUnclosed(n)
           x == ErrorText(c)
           k == IF CanAppend(c) THEN OfMessage(x, "usage") ELSE OfMessage(c, "error")
           m == OfMessage(k, "end")
<1>0. n \in NativeState
  BY DEF Unended, Told
<1>1. /\ Unended(s, c) /\ c \in NativeState /\ StillOpen(c) = {}
  BY <1>0, CloseUnclosedIs
<1> HIDE DEF c
<1>2. Unended(s, k) /\ k.usage /\ StillOpen(k) = {}
  <2>1. CASE CanAppend(c)
    <3>1. Unended(s, x) /\ StillOpen(x) = {} /\ x.blocks # <<>>
      BY <1>1, ErrorTextDoes
    <3> HIDE DEF x
    <3>2. x \in NativeState
      BY <3>1 DEF Unended, Told
    <3>3. Unended(s, OfMessage(x, "usage"))
      BY <3>1, OfMessageDoes
    <3>4. OfMessage(x, "usage").usage /\ StillOpen(OfMessage(x, "usage")) = {}
      BY <3>1, <3>2, OfMessageIs
    <3> QED BY <2>1, <3>3, <3>4
  <2>2. CASE ~ CanAppend(c)
    <3>1. c.usage /\ c.blocks # <<>>
      BY <1>1, <2>2 DEF CanAppend, Unended
    <3>2. Unended(s, OfMessage(c, "error"))
      BY <1>1, <3>1, OfMessageDoes
    <3>3. OfMessage(c, "error").usage /\ StillOpen(OfMessage(c, "error")) = {}
      BY <1>1, <3>1, OfMessageIs
    <3> QED BY <2>2, <3>2, <3>3
  <2> QED BY <2>1, <2>2
<1> HIDE DEF k
<1>3. Concluded(s, m)
  BY <1>2, MessageEndsDoes
<1>4. NativeErrorTail(n) = m
  <2>1. ~ k.stopped
    BY <1>2 DEF Unended
  <2> QED BY <2>1 DEF NativeErrorTail, EndOnce, k, x, c
<1> QED BY <1>3, <1>4

\* An error after the end of the message: the end is still there.
LEMMA LateErrorIs ==
    ASSUME NEW s, NEW n, Concluded(s, n)
    PROVE  LET m == NativeErrorTail(n)
           IN  m \in NativeState /\ m.log \in Seq(Event) /\ HasEnd(s \o m.log)
<1> DEFINE c == CloseUnclosed(n)
           m == OfMessage(c, "error")
           e == OfMessageEvent("error")
           t == s \o n.log
<1>1. /\ n \in NativeState /\ n.usage /\ n.stopped /\ StillOpen(n) = {}
      /\ s \in Seq(Event) /\ n.log \in Seq(Event) /\ HasEnd(t)
  BY DEF Concluded, NativeState
<1>2. c \in NativeState /\ c.log = n.log /\ SameMessage(n, c)
  <2>1. c \in NativeState /\ c.log = n.log /\ Closed(n, c, StillOpen(n))
    BY <1>1, CloseUnclosedIs
  <2> HIDE DEF c
  <2> QED BY <2>1 DEF Closed
<1> HIDE DEF c
<1>3. c.usage /\ c.stopped
  BY <1>1, <1>2 DEF SameMessage
<1>4. m \in NativeState /\ m.log = Append(n.log, e) /\ e \in Event /\ m.stopped
  BY <1>2, <1>3, OfMessageIs
<1> HIDE DEF m, e
<1>5. NativeErrorTail(n) = m
  <2>1. ~ CanAppend(c)
    BY <1>3 DEF CanAppend
  <2> QED BY <1>4, <2>1 DEF NativeErrorTail, EndOnce, m, c
<1>6. m.log \in Seq(Event) /\ s \o m.log = Append(t, e) /\ t \in Seq(Event)
  BY <1>1, <1>4, LogAppend, ConcatProperties
<1> HIDE DEF t
<1>7. HasEnd(s \o m.log)
  BY <1>1, <1>4, <1>6, AppendFacts DEF HasEnd
<1> QED BY <1>4, <1>5, <1>6, <1>7

\* What has not started has nothing.
Unstarted(n) ==
    /\ n \in NativeState /\ n.blocks = <<>> /\ n.log = <<>> /\ n.text = 0 /\ n.thinking = 0
    /\ ~ n.started /\ ~ n.usage /\ ~ n.stopped

LEMMA NewNativeIs == Unstarted(NewNative) /\ Numbered(NewNative)
<1>1. <<>> \in Seq(NativeBlock) /\ <<>> \in Seq(Event) /\ <<>> \in Seq(Index) /\ Len(<<>>) = 0
  BY EmptySeq
<1>2. NewNative \in NativeState
  BY <1>1 DEF NewNative, NativeState
<1>3. /\ NewNative.order = <<>> /\ NewNative.blocks = <<>>
      /\ NewNative.segment = [u \in Index |-> 0] /\ NewNative.unseen = {}
  BY DEF NewNative
<1>4. Numbered(NewNative)
  BY <1>1, <1>3 DEF Numbered
<1> QED BY <1>2, <1>4 DEF Unstarted, NewNative

LEMMA MessageStartsDoes ==
    ASSUME NEW n, Unstarted(n)
    PROVE  Unended(<<>>, OfMessage(n, "start"))
<1> DEFINE m == OfMessage(n, "start")
           e == OfMessageEvent("start")
<1>1. /\ n \in NativeState /\ n.blocks = <<>> /\ n.log = <<>>
      /\ n.text = 0 /\ n.thinking = 0 /\ ~ n.started /\ ~ n.usage /\ ~ n.stopped
  BY DEF Unstarted
<1>2. /\ m \in NativeState /\ m.log = Append(n.log, e) /\ e \in Event /\ e.kind = "start"
      /\ m.blocks = <<>> /\ StillOpen(m) = StillOpen(n) /\ m.text = 0 /\ m.thinking = 0
      /\ m.started /\ ~ m.usage /\ ~ m.stopped
  BY <1>1, OfMessageIs
<1> HIDE DEF m, e
<1>3. StillOpen(n) = {}
  <2>1. DOMAIN n.blocks = {}
    BY <1>1
  <2> QED BY <2>1 DEF StillOpen
<1>4. <<>> \in Seq(Event) /\ <<>> \in Seq(Block) /\ <<>> \in Seq(NativeBlock) /\ Len(<<>>) = 0
  BY EmptySeq
<1>5. Append(<<>>, e) \in Seq(Event) /\ Append(<<>>, e) # <<>>
  BY <1>2, <1>4, AppendFacts, EmptySeq
<1>6. <<>> \o m.log = Append(<<>>, e)
  BY <1>1, <1>2, <1>5, ConcatEmptySeq
<1>7. Records(Append(<<>>, e), <<>>, {})
  BY <1>2, RecordsStart
<1>8. Records(Append(<<>>, e), Announced(<<>>), {})
  <2> DEFINE none == <<>>
  <2>1. \A b \in 1 .. Len(none) : none[b].type = none[b].type
    OBVIOUS
  <2> QED BY <1>4, <1>7, <2>1, AnnouncedSame
<1>9. Told(<<>>, m)
  BY <1>2, <1>3, <1>4, <1>5, <1>6, <1>8 DEF Told
<1> QED BY <1>2, <1>9 DEF Unended, IsCurrent, m

LEMMA ErrorMessageIs == Concluded(<<>>, ErrorMessage)
<1> DEFINE n == OfMessage(NewNative, "start")
           x == ErrorText(n)
           k == OfMessage(x, "usage")
<1>1. Unended(<<>>, n)
  BY NewNativeIs, MessageStartsDoes
<1>2. StillOpen(n) = {}
  <2>1. StillOpen(n) = StillOpen(NewNative)
    BY NewNativeIs, OfMessageIs DEF Unstarted
  <2>2. DOMAIN NewNative.blocks = {}
    BY DEF NewNative
  <2> HIDE DEF n
  <2> QED BY <2>1, <2>2 DEF StillOpen
<1> HIDE DEF n
<1>3. Unended(<<>>, x) /\ StillOpen(x) = {} /\ x.blocks # <<>>
  BY <1>1, <1>2, ErrorTextDoes
<1> HIDE DEF x
<1>4. x \in NativeState
  BY <1>3 DEF Unended, Told
<1>5. Unended(<<>>, k)
  BY <1>3, OfMessageDoes
<1>6. k.usage /\ StillOpen(k) = {}
  BY <1>3, <1>4, OfMessageIs
<1> HIDE DEF k
<1>7. Concluded(<<>>, OfMessage(k, "end"))
  BY <1>5, <1>6, MessageEndsDoes
<1> QED BY <1>7 DEF ErrorMessage, n, x, k

-----------------------------------------------------------------------------
(* The stream.                                                             *)
nativeStream == (nativeSent \o nativeOut) \o nativeHeld

NativeTypes ==
    /\ nativeSent \in Seq(Event) /\ nativeOut \in Seq(Event) /\ nativeHeld \in Seq(Event)
    /\ native \in NativeState /\ native.log = <<>>

NativeRunning == {"opening", "streaming"}

\* Nothing has left the holdback before it is committed, and it is empty ever after.
NativeHoldback ==
    /\ nativeCommitted => nativeHeld = <<>>
    /\ nativePhase \in NativeRunning =>
         IF nativeCommitted THEN nativeStream # <<>>
         ELSE nativeSent = <<>> /\ nativeOut = <<>>

\* A message that has not begun, goes on, or has been ended: the ledger knows which.
Follow(s, n) ==
    (Unstarted(n) /\ s = <<>>) \/ Unended(s, n) \/ Concluded(s, n)

NativeOutcome ==
    /\ nativePhase \in NativeOver => nativeHeld = <<>> /\ HasEnd(nativeStream)
    /\ nativePhase = "recovered" => BrokenTools(native) = {}
    /\ nativePhase \notin {"reopened", "late"} => WellFormed(nativeStream)

NativeFollowed ==
    /\ NativeTypes /\ NativeHoldback /\ NativeOutcome
    /\ nativePhase \in NativeRunning \cup NativeOver
    /\ nativePhase \in NativeRunning => Follow(nativeStream, native) /\ Numbered(native)

\* As long as nothing has strayed, the ledger has recorded what is sent; and whatever strays,
\* nothing has left before the holdback is committed.
NativeUnsent ==
    /\ nativePhase \in NativeRunning \cup NativeOver
    /\ nativePhase \in NativeRunning /\ ~ nativeCommitted => nativeSent = <<>> /\ nativeOut = <<>>

NInv == NativeUnsent /\ (strayed \/ NativeFollowed)

LEMMA LoglessIs ==
    ASSUME NEW n \in NativeState
    PROVE  LET m == Logless(n)
           IN  /\ m \in NativeState /\ m.log = <<>>
               /\ ToolBlocks(m) = ToolBlocks(n) /\ BrokenTools(m) = BrokenTools(n)
               /\ \A s : Unended(s, n) => Unended(s \o n.log, m)
               /\ \A s : Concluded(s, n) => Concluded(s \o n.log, m)
               /\ Numbered(n) => Numbered(m)
<1> DEFINE m == Logless(n)
<1>1. <<>> \in Seq(Event) /\ n.log \in Seq(Event)
  BY EmptySeq DEF NativeState
<1>2. /\ m \in NativeState /\ m.log = <<>> /\ m.blocks = n.blocks
      /\ m.text = n.text /\ m.thinking = n.thinking
      /\ m.started = n.started /\ m.usage = n.usage /\ m.stopped = n.stopped
      /\ m.segment = n.segment /\ m.order = n.order /\ m.unseen = n.unseen
  BY <1>1 DEF Logless, NativeState
<1> HIDE DEF m
<1>3. StillOpen(m) = StillOpen(n) /\ ToolBlocks(m) = ToolBlocks(n)
  BY <1>2 DEF StillOpen, ToolBlocks
<1>4. BrokenTools(m) = BrokenTools(n)
  BY <1>2, <1>3 DEF BrokenTools
<1>5. ASSUME NEW s \in Seq(Event)
      PROVE  s \o n.log \in Seq(Event) /\ (s \o n.log) \o m.log = s \o n.log
  <2>1. s \o n.log \in Seq(Event)
    BY <1>1, ConcatProperties
  <2> QED BY <1>2, <2>1, ConcatEmptySeq
<1>6. ASSUME NEW s, Unended(s, n) PROVE Unended(s \o n.log, m)
  BY <1>2, <1>3, <1>5, <1>6 DEF Unended, Told, IsCurrent
<1>7. ASSUME NEW s, Concluded(s, n) PROVE Concluded(s \o n.log, m)
  BY <1>2, <1>3, <1>5, <1>7 DEF Concluded
<1>8. Numbered(n) => Numbered(m)
  BY <1>2 DEF Numbered
<1> QED BY <1>2, <1>3, <1>4, <1>6, <1>7, <1>8 DEF m

\* Where the events of a step go.
LEMMA NativeGrows ==
    ASSUME NativeTypes, nativeOut = <<>>, nativeSent' = nativeSent, NEW q \in Seq(Event),
           \/ nativeHeld = <<>> /\ nativeOut' = q /\ nativeHeld' = <<>>
           \/ nativeHeld' = nativeHeld \o q /\ nativeOut' = nativeOut
           \/ nativeOut' = nativeHeld \o q /\ nativeHeld' = <<>>
    PROVE  /\ nativeStream' = nativeStream \o q /\ nativeStream \in Seq(Event)
           /\ nativeSent' \in Seq(Event) /\ nativeOut' \in Seq(Event) /\ nativeHeld' \in Seq(Event)
<1>1. Follows(nativeSent, nativeHeld, q)
  BY StreamConcat DEF NativeTypes
<1>2. nativeStream \in Seq(Event)
  <2>1. nativeSent \o nativeOut \in Seq(Event)
    BY ConcatProperties DEF NativeTypes
  <2> QED BY <2>1, ConcatProperties DEF NativeTypes, nativeStream
<1> QED BY <1>1, <1>2 DEF Follows, nativeStream, NativeTypes

LEMMA HoldKeeps ==
    ASSUME NativeFollowed, nativeOut = <<>>, nativePhase = "streaming", NEW n,
           Unended(nativeStream, n) \/ Concluded(nativeStream, n), Numbered(n), Hold(n),
           UNCHANGED <<nativeSent, nativePhase>>
    PROVE  NativeFollowed'
<1>1. n \in NativeState /\ n.log \in Seq(Event)
  BY DEF Unended, Told, Concluded, NativeState
<1>2. NativeTypes /\ nativeSent' = nativeSent /\ nativePhase' = nativePhase
  BY DEF NativeFollowed
<1>3. /\ nativeStream' = nativeStream \o n.log /\ nativeStream \in Seq(Event)
      /\ nativeSent' \in Seq(Event) /\ nativeOut' \in Seq(Event) /\ nativeHeld' \in Seq(Event)
  <2>1. \/ nativeHeld = <<>> /\ nativeOut' = n.log /\ nativeHeld' = <<>>
        \/ nativeHeld' = nativeHeld \o n.log /\ nativeOut' = nativeOut
        \/ nativeOut' = nativeHeld \o n.log /\ nativeHeld' = <<>>
    BY DEF Hold, NativeFollowed, NativeHoldback
  <2> QED BY <1>1, <1>2, <2>1, NativeGrows
<1>4. /\ native' = Logless(n) /\ Logless(n) \in NativeState /\ Logless(n).log = <<>>
      /\ Unended(nativeStream \o n.log, Logless(n)) \/ Concluded(nativeStream \o n.log, Logless(n))
  BY <1>1, LoglessIs DEF Hold
<1>5. NativeTypes'
  BY <1>3, <1>4 DEF NativeTypes
<1>6. /\ WellFormed(nativeStream)'
      /\ nativeStream' # <<>> \/ Concluded(nativeStream, native)'
  <2> DEFINE t == nativeStream \o n.log
             m == Logless(n)
  <2>1. t \in Seq(Event) /\ t \o <<>> = t
    BY <1>1, <1>3, ConcatProperties, ConcatEmptySeq
  <2> HIDE DEF t, m
  <2>2. CASE Unended(t, m)
    BY <1>3, <1>4, <2>1, <2>2 DEF Unended, Told, Records, t, m
  <2>3. CASE Concluded(t, m)
    BY <1>3, <1>4, <2>1, <2>3 DEF Concluded, t, m
  <2> QED BY <1>4, <2>2, <2>3 DEF t, m
<1>7. NativeOutcome'
  BY <1>2, <1>6 DEF NativeOutcome, NativeOver
<1>8. nativeStream' # <<>>
  <2>1. ASSUME Concluded(nativeStream, native)' PROVE nativeStream' # <<>>
    <3>1. HasEnd(nativeStream \o native.log)'
      BY <2>1 DEF Concluded
    <3>2. (nativeStream \o native.log)' = nativeStream'
      <4>1. nativeStream' \in Seq(Event) /\ native.log' = <<>>
        BY <2>1, <1>5 DEF Concluded, NativeTypes
      <4> QED BY <4>1, ConcatEmptySeq
    <3> QED BY <3>1, <3>2, EmptySeq DEF HasEnd
  <2> QED BY <1>6, <2>1
<1>9. NativeHoldback'
  BY <1>2, <1>8 DEF NativeFollowed, NativeHoldback, Hold, NativeRunning
<1>10. Follow(nativeStream, native)' /\ Numbered(native)'
  <2>1. Numbered(Logless(n))
    BY <1>1, LoglessIs
  <2> QED BY <1>3, <1>4, <2>1 DEF Follow
<1> QED BY <1>2, <1>5, <1>7, <1>9, <1>10 DEF NativeFollowed, NativeRunning

LEMMA DeliverKeeps ==
    ASSUME NativeFollowed, nativeOut = <<>>, NEW n \in NativeState, NEW end \in NativeOver,
           Deliver(n, end), HasEnd(nativeStream \o n.log),
           end \notin {"reopened", "late"} => WellFormed(nativeStream \o n.log),
           end = "recovered" => BrokenTools(n) = {}
    PROVE  NativeFollowed'
<1>1. n.log \in Seq(Event)
  BY DEF NativeState
<1>2. /\ NativeTypes /\ nativeSent' = nativeSent /\ nativePhase' = end
      /\ native' = Logless(n) /\ nativeHeld' = <<>>
      /\ nativeOut' = nativeHeld \o n.log
  BY DEF NativeFollowed, Deliver
<1>3. /\ nativeStream' = nativeStream \o n.log
      /\ nativeSent' \in Seq(Event) /\ nativeOut' \in Seq(Event) /\ nativeHeld' \in Seq(Event)
  BY <1>1, <1>2, NativeGrows
<1>4. /\ Logless(n) \in NativeState /\ Logless(n).log = <<>>
      /\ BrokenTools(Logless(n)) = BrokenTools(n)
  BY LoglessIs
<1>5. NativeTypes'
  BY <1>2, <1>3, <1>4 DEF NativeTypes
<1>6. NativeOutcome'
  BY <1>2, <1>3, <1>4 DEF NativeOutcome
<1>7. end \notin NativeRunning
  BY DEF NativeRunning, NativeOver
<1>8. NativeHoldback'
  BY <1>2, <1>7 DEF NativeHoldback
<1> QED BY <1>2, <1>5, <1>6, <1>7, <1>8 DEF NativeFollowed

\* A message that is concluded is delivered as it is.
LEMMA DeliverConcluded ==
    ASSUME NativeFollowed, nativeOut = <<>>, NEW n, Concluded(nativeStream, n),
           NEW end \in NativeOver \ {"reopened", "late"},
           Deliver(n, end), end = "recovered" => BrokenTools(n) = {}
    PROVE  NativeFollowed'
<1>1. /\ n \in NativeState /\ HasEnd(nativeStream \o n.log)
      /\ WellFormed(nativeStream \o n.log)
  BY DEF Concluded
<1> QED BY <1>1, DeliverKeeps

LEMMA StreamIs ==
    ASSUME NativeFollowed, nativePhase \in NativeRunning, nativeOut = <<>>
    PROVE  /\ Follow(nativeStream, native)
           /\ ~ nativeCommitted /\ nativeHeld = <<>> => nativeStream = <<>>
           /\ nativeCommitted \/ nativeHeld # <<>> => nativeStream # <<>>
<1>1. <<>> \o <<>> = <<>> /\ <<>> \in Seq(Event)
  BY EmptySeq, ConcatEmptySeq
<1>2. ~ nativeCommitted => nativeStream = nativeHeld
  <2> SUFFICES ASSUME ~ nativeCommitted PROVE nativeStream = nativeHeld
      OBVIOUS
  <2>1. nativeSent = <<>> /\ nativeHeld \in Seq(Event)
    BY DEF NativeFollowed, NativeHoldback, NativeTypes
  <2>2. <<>> \o nativeHeld = nativeHeld
    BY <2>1, ConcatEmptySeq
  <2> QED BY <1>1, <2>1, <2>2 DEF nativeStream
<1> QED BY <1>2 DEF NativeFollowed, NativeHoldback

LEMMA EndInErrorKeeps ==
    ASSUME NativeFollowed, nativePhase \in NativeRunning, nativeOut = <<>>, EndInError
    PROVE  NativeFollowed'
<1>1. CASE nativeCommitted \/ nativeHeld # <<>>
  <2>1. Unended(nativeStream, native) \/ Concluded(nativeStream, native)
    BY <1>1, StreamIs DEF Follow
  <2>2. PICK n : n = NativeErrorTail(native)
    OBVIOUS
  <2>3. CASE Unended(nativeStream, native)
    <3>1. Deliver(n, "failed")
      BY <1>1, <2>2, <2>3 DEF EndInError, Unended
    <3>2. Concluded(nativeStream, n)
      BY <2>2, <2>3, NativeErrorTailDoes
    <3> QED BY <3>1, <3>2, DeliverConcluded DEF NativeOver
  <2>4. CASE Concluded(nativeStream, native)
    <3>1. Deliver(n, "late")
      BY <1>1, <2>2, <2>4 DEF EndInError, Concluded
    <3>2. n \in NativeState /\ HasEnd(nativeStream \o n.log)
      BY <2>2, <2>4, LateErrorIs
    <3> QED BY <3>1, <3>2, DeliverKeeps DEF NativeOver
  <2> QED BY <2>1, <2>3, <2>4
<1>2. CASE ~ (nativeCommitted \/ nativeHeld # <<>>)
  <2>1. nativeStream = <<>>
    BY <1>2, StreamIs
  <2>2. PICK n : n = ErrorMessage
    OBVIOUS
  <2>3. Deliver(n, "failed")
    BY <1>2, <2>2 DEF EndInError
  <2>4. Concluded(nativeStream, n)
    BY <2>1, <2>2, ErrorMessageIs
  <2> QED BY <2>3, <2>4, DeliverConcluded DEF NativeOver
<1> QED BY <1>1, <1>2

LEMMA RestartKeeps ==
    ASSUME nativeSent = <<>>, nativeOut = <<>>, Restart
    PROVE  NativeFollowed'
<1>1. /\ nativeSent' = <<>> /\ nativeOut' = <<>> /\ nativeHeld' = <<>>
      /\ native' = NewNative /\ nativePhase' = "opening" /\ nativeCommitted' = FALSE
  BY DEF Restart
<1>2. <<>> \in Seq(Event) /\ <<>> \o <<>> = <<>> /\ Len(<<>>) = 0
  <2>1. <<>> \in Seq(Event) /\ Len(<<>>) = 0
    BY EmptySeq
  <2> QED BY <2>1, ConcatEmptySeq
<1>3. nativeStream' = <<>> /\ WellFormed(<<>>)
  BY <1>1, <1>2 DEF nativeStream, WellFormed
<1>4. /\ Unstarted(NewNative) /\ Numbered(NewNative)
      /\ NewNative \in NativeState /\ NewNative.log = <<>>
  BY NewNativeIs DEF Unstarted
<1>5. NativeTypes' /\ NativeHoldback' /\ NativeOutcome'
  BY <1>1, <1>2, <1>3, <1>4 DEF NativeTypes, NativeHoldback, NativeOutcome, NativeOver
<1>6. Follow(nativeStream, native)' /\ Numbered(native)'
  BY <1>1, <1>3, <1>4 DEF Follow
<1> QED BY <1>1, <1>5, <1>6 DEF NativeFollowed, NativeRunning

\* The tools that were sent, made whole; a tool that was closed is reopened for that.
LEMMA CompletedToolsKeep ==
    ASSUME NativeFollowed, nativePhase \in NativeRunning, nativeOut = <<>>, native.blocks # <<>>,
           Salvageable(RepairTools(native)),
           Deliver(NativeSuccess(RepairTools(native)),
                   IF {c \in BrokenTools(native) : ~ native.blocks[c].open} # {}
                   THEN "reopened" ELSE "recovered")
    PROVE  NativeFollowed'
<1> DEFINE b == {c \in BrokenTools(native) : ~ native.blocks[c].open}
<1>1. PICK n : n = RepairTools(native)
  OBVIOUS
<1>2. PICK m : m = NativeSuccess(n)
  OBVIOUS
<1>3. /\ BrokenTools(n) = {}
      /\ Deliver(m, IF b # {} THEN "reopened" ELSE "recovered")
  BY <1>1, <1>2 DEF Salvageable
<1> HIDE DEF b
<1>4. ASSUME Concluded(nativeStream, m), BrokenTools(m) = {}, b = {}
      PROVE  NativeFollowed'
  BY <1>3, <1>4, DeliverConcluded DEF NativeOver
<1>5. CASE ~ CanAppend(native)
  <2>1. n = native
    BY <1>1, <1>5 DEF RepairTools
  <2>2. b = {}
    BY <1>3, <2>1 DEF b
  <2>3. CASE Unended(nativeStream, native)
    <3>1. Concluded(nativeStream, m) /\ BrokenTools(m) = BrokenTools(n)
      BY <1>2, <2>1, <2>3, NativeSuccessDoes
    <3> QED BY <1>3, <1>4, <2>2, <3>1
  <2>4. CASE Concluded(nativeStream, native)
    <3>1. Concluded(nativeStream, m) /\ BrokenTools(m) = BrokenTools(n)
      BY <1>2, <2>1, <2>4, ConcludedAgain
    <3> QED BY <1>3, <1>4, <2>2, <3>1
  <2> QED BY <2>3, <2>4, StreamIs DEF Follow, Unstarted
<1>6. CASE CanAppend(native)
  <2>1. Unended(nativeStream, native)
    BY <1>6, StreamIs DEF Follow, Unstarted, Concluded, CanAppend
  <2>2. native \in NativeState /\ nativeStream \in Seq(Event) /\ ~ native.stopped
    BY <2>1 DEF Unended, Told
  <2>3. /\ n \in NativeState /\ Len(n.blocks) = Len(native.blocks) /\ SameMessage(native, n)
    BY <1>1, <1>6, <2>2, RepairToolsIs
  <2>4. ~ n.stopped
    BY <2>2, <2>3 DEF SameMessage
  <2>5. n.blocks # <<>>
    BY <2>2, <2>3, EmptySeq DEF NativeState
  <2>6. CASE b # {}
    <3>1. m \in NativeState /\ HasEnd(nativeStream \o m.log)
      BY <1>2, <2>2, <2>3, <2>4, NativeSuccessIs
    <3>2. Deliver(m, "reopened")
      BY <1>3, <2>6
    <3> QED BY <3>1, <3>2, DeliverKeeps DEF NativeOver
  <2>7. CASE b = {}
    <3>1. BrokenTools(native) \subseteq StillOpen(native)
      BY <2>7 DEF b, BrokenTools, ToolBlocks, StillOpen
    <3>2. Unended(nativeStream, n)
      BY <1>1, <1>6, <2>1, <3>1, RepairToolsDoes
    <3>3. Concluded(nativeStream, m) /\ BrokenTools(m) = BrokenTools(n)
      BY <1>2, <2>5, <3>2, NativeSuccessDoes
    <3> QED BY <1>3, <1>4, <2>7, <3>3
  <2> QED BY <2>6, <2>7
<1> QED BY <1>5, <1>6

\* A suffix to what was said.
LEMMA SuffixKeeps ==
    ASSUME NativeFollowed, nativePhase \in NativeRunning, nativeOut = <<>>, native.blocks # <<>>,
           ToolBlocks(native) = {}, CanAppend(native),
           NEW n \in {AppendSuffix(native, "text"), AppendSuffix(native, "thinking"),
                      AppendSuffix(AppendSuffix(native, "thinking"), "text")},
           Deliver(NativeSuccess(n), "recovered")
    PROVE  NativeFollowed'
<1>1. Unended(nativeStream, native)
  BY StreamIs DEF Follow, Unstarted, Concluded, CanAppend
<1>2. ASSUME NEW k, Unended(nativeStream, k), CanAppend(k), ToolBlocks(k) = {},
             NEW type \in {"text", "thinking"}
      PROVE  /\ Unended(nativeStream, AppendSuffix(k, type)) /\ CanAppend(AppendSuffix(k, type))
             /\ AppendSuffix(k, type).blocks # <<>> /\ ToolBlocks(AppendSuffix(k, type)) = {}
  BY <1>2, AppendSuffixDoes
<1>3. Unended(nativeStream, n) /\ n.blocks # <<>> /\ ToolBlocks(n) = {}
  <2>1. PICK k : k = AppendSuffix(native, "thinking")
    OBVIOUS
  <2>2. Unended(nativeStream, k) /\ CanAppend(k) /\ k.blocks # <<>> /\ ToolBlocks(k) = {}
    BY <1>1, <1>2, <2>1
  <2>3. CASE n = AppendSuffix(native, "text")
    BY <1>1, <1>2, <2>3
  <2>4. CASE n = k
    BY <2>2, <2>4
  <2>5. CASE n = AppendSuffix(k, "text")
    BY <1>2, <2>2, <2>5
  <2> QED BY <2>1, <2>3, <2>4, <2>5
<1>4. PICK m : m = NativeSuccess(n)
  OBVIOUS
<1>5. Concluded(nativeStream, m) /\ ToolBlocks(m) = ToolBlocks(n)
  BY <1>3, <1>4, NativeSuccessDoes
<1>6. BrokenTools(m) = {}
  BY <1>3, <1>5 DEF BrokenTools
<1>7. Deliver(m, "recovered")
  BY <1>4
<1> QED BY <1>5, <1>6, <1>7, DeliverConcluded DEF NativeOver

LEMMA NativeBreaksKeeps ==
    ASSUME NativeFollowed, nativePhase \in NativeRunning, nativeOut = <<>>, NEW failure, NEW opened,
           NativeBreaks(failure, opened)
    PROVE  NativeFollowed'
<1>1. \/ ~ nativeCommitted /\ Restart
      \/ native.blocks # <<>> /\ NativeRecover
      \/ EndInError
  BY DEF NativeBreaks, MayRestart
<1>2. CASE ~ nativeCommitted /\ Restart
  BY <1>2, RestartKeeps DEF NativeFollowed, NativeHoldback
<1>3. CASE EndInError
  BY <1>3, EndInErrorKeeps
<1>4. CASE native.blocks # <<>> /\ NativeRecover
  <2>1. CASE /\ Salvageable(RepairTools(native))
             /\ Deliver(NativeSuccess(RepairTools(native)),
                        IF {c \in BrokenTools(native) : ~ native.blocks[c].open} # {}
                        THEN "reopened" ELSE "recovered")
    BY <1>4, <2>1, CompletedToolsKeep
  <2>2. CASE /\ ToolBlocks(native) = {} /\ CanAppend(native)
             /\ \E n \in {AppendSuffix(native, "text"), AppendSuffix(native, "thinking"),
                          AppendSuffix(AppendSuffix(native, "thinking"), "text")} :
                  Deliver(NativeSuccess(n), "recovered")
    BY <1>4, <2>2, SuffixKeeps
  <2> QED BY <1>3, <1>4, <2>1, <2>2 DEF NativeRecover
<1> QED BY <1>1, <1>2, <1>3, <1>4

LEMMA InitFollowed == NativeInit => NativeFollowed
<1> SUFFICES ASSUME NativeInit PROVE NativeFollowed
    OBVIOUS
<1>1. /\ nativeSent = <<>> /\ nativeOut = <<>> /\ nativeHeld = <<>> /\ native = NewNative
      /\ nativePhase = "opening" /\ nativeCommitted = FALSE
  BY DEF NativeInit
<1>2. <<>> \in Seq(Event) /\ <<>> \o <<>> = <<>> /\ Len(<<>>) = 0
  <2>1. <<>> \in Seq(Event) /\ Len(<<>>) = 0
    BY EmptySeq
  <2> QED BY <2>1, ConcatEmptySeq
<1>3. nativeStream = <<>> /\ WellFormed(<<>>)
  BY <1>1, <1>2 DEF nativeStream, WellFormed
<1>4. /\ Unstarted(NewNative) /\ Numbered(NewNative)
      /\ NewNative \in NativeState /\ NewNative.log = <<>>
  BY NewNativeIs DEF Unstarted
<1>5. NativeTypes /\ NativeHoldback /\ NativeOutcome
  BY <1>1, <1>2, <1>3, <1>4 DEF NativeTypes, NativeHoldback, NativeOutcome, NativeOver
<1>6. Follow(nativeStream, native) /\ Numbered(native)
  BY <1>1, <1>3, <1>4 DEF Follow
<1> QED BY <1>1, <1>5, <1>6 DEF NativeFollowed, NativeRunning

LEMMA NativeYieldKeeps ==
    ASSUME NativeFollowed, NativeYield
    PROVE  NativeFollowed' /\ nativeStream' = nativeStream
<1>1. /\ nativeSent \in Seq(Event) /\ nativeOut \in Seq(Event) /\ nativeOut # <<>>
      /\ nativeSent' = Append(nativeSent, Head(nativeOut)) /\ nativeOut' = Tail(nativeOut)
      /\ nativeHeld' = nativeHeld /\ nativeCommitted' = nativeCommitted
      /\ native' = native /\ nativePhase' = nativePhase
  BY DEF NativeFollowed, NativeTypes, NativeYield
<1>2. /\ nativeSent' \in Seq(Event) /\ nativeOut' \in Seq(Event)
      /\ nativeStream' = nativeStream
  BY <1>1, TakesHead DEF nativeStream
<1>3. NativeTypes' /\ NativeOutcome' /\ Follow(nativeStream, native)' = Follow(nativeStream, native)
  BY <1>1, <1>2 DEF NativeFollowed, NativeTypes, NativeOutcome, Follow
<1>4. NativeHoldback'
  BY <1>1, <1>2 DEF NativeFollowed, NativeHoldback
<1> QED BY <1>1, <1>2, <1>3, <1>4 DEF NativeFollowed

LEMMA AcceptedKeeps ==
    ASSUME NativeFollowed, NativeAccepted
    PROVE  NativeFollowed'
<1>1. /\ nativeSent' = nativeSent /\ nativeOut' = nativeOut /\ nativeHeld' = nativeHeld
      /\ nativeCommitted' = nativeCommitted /\ native' = native
      /\ nativePhase = "opening" /\ nativePhase' = "streaming"
  BY DEF NativeAccepted, During
<1>2. nativeStream' = nativeStream
  BY <1>1 DEF nativeStream
<1>3. NativeTypes' /\ NativeHoldback' /\ NativeOutcome'
  BY <1>1, <1>2 DEF NativeFollowed, NativeTypes, NativeHoldback, NativeOutcome, NativeRunning, NativeOver
<1>4. Follow(nativeStream, native)' /\ Numbered(native)'
  BY <1>1, <1>2 DEF NativeFollowed, NativeRunning, Follow
<1> QED BY <1>1, <1>3, <1>4 DEF NativeFollowed, NativeRunning

\* An event of the upstream that leads to n.
LEMMA SendsKeeps ==
    ASSUME NativeFollowed, NEW n, NEW strays, UpstreamSends(n, strays), Numbered(n),
           Unended(nativeStream, n) \/ Concluded(nativeStream, n)
    PROVE  NativeFollowed'
<1>1. /\ nativeOut = <<>> /\ nativePhase = "streaming" /\ Hold(n)
      /\ UNCHANGED <<nativeSent, nativePhase>>
  BY DEF UpstreamSends, During
<1> QED BY <1>1, HoldKeeps

\* What the ledger knows tells how far the message has got.
LEMMA MessageStands ==
    ASSUME NativeFollowed, During("streaming")
    PROVE  /\ ~ native.started => Unstarted(native) /\ nativeStream = <<>>
           /\ native.started /\ ~ native.stopped => Unended(nativeStream, native)
           /\ native.usage /\ ~ native.stopped => Unended(nativeStream, native)
           /\ native.stopped => Concluded(nativeStream, native)
           /\ native \in NativeState /\ Numbered(native)
<1>1. Follow(nativeStream, native) /\ native \in NativeState /\ Numbered(native)
  BY DEF NativeFollowed, NativeTypes, NativeRunning, During
<1>2. Unstarted(native) => ~ native.started /\ ~ native.usage /\ ~ native.stopped
  BY DEF Unstarted
<1>3. Unended(nativeStream, native) => native.started /\ ~ native.stopped
  BY DEF Unended
<1>4. Concluded(nativeStream, native) => native.started /\ native.stopped
  BY DEF Concluded
<1> QED BY <1>1, <1>2, <1>3, <1>4 DEF Follow

LEMMA BlockEventsKeep ==
    ASSUME NativeFollowed, NEW u \in Index, NEW type \in {"text", "thinking", "tool"},
           NEW args \in {"partial", "whole"}, ~ strayed',
           UpstreamStops(u) \/ UpstreamOpens(u, type) \/ UpstreamWrites(u, type, args)
    PROVE  NativeFollowed'
<1>1. During("streaming") /\ NativeFlowing
  BY DEF UpstreamStops, UpstreamOpens, UpstreamWrites, UpstreamSends
<1>2. Unended(nativeStream, native) /\ Numbered(native)
  BY <1>1, MessageStands DEF NativeFlowing
<1>3. type \in BlockTypes /\ args \in Args
  BY DEF BlockTypes, Args
<1>4. CASE UpstreamStops(u)
  <2>1. PICK n : n = PolicyStop(native, u, thinks)
    OBVIOUS
  <2>2. UpstreamSends(n, StopStrays(native, u, thinks))
    BY <1>4, <2>1 DEF UpstreamStops
  <2>3. Unended(nativeStream, n) /\ Numbered(n)
    BY <1>2, <2>1, <2>2, PolicyStopKeeps DEF UpstreamSends
  <2> QED BY <2>2, <2>3, SendsKeeps
<1>5. CASE UpstreamOpens(u, type)
  <2>1. PICK n : n = PolicyStart(native, u, type, thinks)
    OBVIOUS
  <2>2. UpstreamSends(n, FALSE)
    BY <1>5, <2>1 DEF UpstreamOpens
  <2>3. Unended(nativeStream, n) /\ Numbered(n)
    BY <1>2, <1>3, <2>1, PolicyStartKeeps
  <2> QED BY <2>2, <2>3, SendsKeeps
<1>6. CASE UpstreamWrites(u, type, args)
  <2>1. PICK n : n = PolicyDelta(native, u, type, args, thinks)
    OBVIOUS
  <2>2. UpstreamSends(n, DeltaStrays(native, u, type, thinks))
    BY <1>6, <2>1 DEF UpstreamWrites
  <2>3. Unended(nativeStream, n) /\ Numbered(n)
    BY <1>2, <1>3, <2>1, <2>2, PolicyDeltaKeeps DEF UpstreamSends
  <2> QED BY <2>2, <2>3, SendsKeeps
<1> QED BY <1>4, <1>5, <1>6

LEMMA MessageEventsKeep ==
    ASSUME NativeFollowed, ~ strayed', NativeStarts \/ NativeUsage \/ NativeEnd
    PROVE  NativeFollowed'
<1>1. During("streaming")
  BY DEF NativeStarts, NativeUsage, NativeEnd, UpstreamSends
<1>0. ASSUME NEW kind \in {"start", "usage", "end"} PROVE Numbered(OfMessage(native, kind))
  <2>1. PICK n : n = OfMessage(native, kind)
    OBVIOUS
  <2>2. native \in NativeState /\ Numbered(native) /\ Len(native.blocks) \in Nat
    BY <1>1, MessageStands, OpenFacts
  <2>3. /\ n.blocks = native.blocks /\ n.segment = native.segment /\ n.order = native.order
        /\ n.unseen = native.unseen
    BY <2>1, <2>2, OfMessageIs DEF SamePolicy
  <2> QED BY <2>1, <2>2, <2>3, NumberedSame
<1>2. CASE NativeStarts
  <2>1. PICK n : n = OfMessage(native, "start")
    OBVIOUS
  <2>2. UpstreamSends(n, FALSE) /\ ~ native.started
    BY <1>2, <2>1 DEF NativeStarts
  <2>3. Unended(<<>>, n) /\ nativeStream = <<>>
    BY <1>1, <2>1, <2>2, MessageStands, MessageStartsDoes
  <2> QED BY <1>0, <2>1, <2>2, <2>3, SendsKeeps
<1>3. CASE NativeUsage
  <2>1. PICK n : n = OfMessage(native, "usage")
    OBVIOUS
  <2>2. UpstreamSends(n, FALSE) /\ NativeFlowing /\ native.blocks # <<>>
    BY <1>3, <2>1 DEF NativeUsage
  <2>3. Unended(nativeStream, n)
    BY <1>1, <2>1, <2>2, MessageStands, OfMessageDoes DEF NativeFlowing
  <2> QED BY <1>0, <2>1, <2>2, <2>3, SendsKeeps
<1>4. CASE NativeEnd
  <2>1. PICK n : n = OfMessage(native, "end")
    OBVIOUS
  <2>2. UpstreamSends(n, StillOpen(native) # {}) /\ native.usage /\ ~ native.stopped
    BY <1>4, <2>1 DEF NativeEnd
  <2>4. StillOpen(native) = {}
    BY <2>2 DEF UpstreamSends
  <2>3. Concluded(nativeStream, n)
    BY <1>1, <2>1, <2>2, <2>4, MessageStands, MessageEndsDoes
  <2> QED BY <1>0, <2>1, <2>2, <2>3, SendsKeeps
<1> QED BY <1>2, <1>3, <1>4

LEMMA UpstreamOverKeeps ==
    ASSUME NativeFollowed, NativeRefused \/ UpstreamEnds \/ UpstreamBreaks
    PROVE  NativeFollowed'
<1>1. nativePhase \in NativeRunning /\ nativeOut = <<>>
  BY DEF NativeRefused, UpstreamEnds, UpstreamBreaks, During, NativeRunning
<1>2. CASE \E f, opened : NativeBreaks(f, opened)
  BY <1>1, <1>2, NativeBreaksKeeps
<1>3. CASE During("streaming") /\ native.stopped /\ Deliver(native, "completed")
  <2>1. Concluded(nativeStream, native)
    BY <1>3, MessageStands
  <2> QED BY <1>1, <1>3, <2>1, DeliverConcluded DEF NativeOver
<1> QED BY <1>2, <1>3 DEF NativeRefused, UpstreamEnds, UpstreamBreaks

LEMMA NextFollowed == NativeFollowed /\ [NativeNext]_nativeVars /\ ~ strayed' => NativeFollowed'
<1> SUFFICES ASSUME NativeFollowed, [NativeNext]_nativeVars, ~ strayed' PROVE NativeFollowed'
    OBVIOUS
<1>1. CASE NativeYield
  BY <1>1, NativeYieldKeeps
<1>2. CASE NativeAccepted
  BY <1>2, AcceptedKeeps
<1>3. CASE NativeRefused \/ UpstreamEnds \/ UpstreamBreaks
  BY <1>3, UpstreamOverKeeps
<1>4. CASE NativeStarts \/ NativeUsage \/ NativeEnd
  BY <1>4, MessageEventsKeep
<1>5. CASE \E u \in Index : UpstreamStops(u)
  <2>1. PICK u \in Index : UpstreamStops(u)
    BY <1>5
  <2> QED BY <2>1, BlockEventsKeep
<1>6. CASE \E u \in Index : \E type \in {"text", "thinking", "tool"} :
             \/ UpstreamOpens(u, type)
             \/ \E args \in {"partial", "whole"} : UpstreamWrites(u, type, args)
  BY <1>6, BlockEventsKeep
<1>7. CASE UNCHANGED nativeVars
  <2>1. /\ nativeSent' = nativeSent /\ nativeOut' = nativeOut /\ nativeHeld' = nativeHeld
        /\ nativeCommitted' = nativeCommitted /\ native' = native
        /\ nativePhase' = nativePhase
    BY <1>7 DEF nativeVars
  <2>2. nativeStream' = nativeStream
    BY <2>1 DEF nativeStream
  <2>3. NativeTypes' /\ NativeHoldback' /\ NativeOutcome'
    BY <2>1, <2>2 DEF NativeFollowed, NativeTypes, NativeHoldback, NativeOutcome
  <2>4. Follow(nativeStream, native)' = Follow(nativeStream, native)
    BY <2>1, <2>2 DEF Follow
  <2> QED BY <2>1, <2>3, <2>4 DEF NativeFollowed
<1> QED BY <1>1, <1>2, <1>3, <1>4, <1>5, <1>6, <1>7 DEF NativeNext

\* A step of what is not followed.
LEMMA NextUnsent ==
    NInv /\ [NativeNext]_nativeVars => NativeUnsent' /\ (strayed => strayed' \/ NativeFollowed')
<1> SUFFICES ASSUME NInv, [NativeNext]_nativeVars
             PROVE  NativeUnsent' /\ (strayed => strayed' \/ NativeFollowed')
    OBVIOUS
<1>1. CASE NativeYield
  BY <1>1 DEF NInv, NativeUnsent, NativeYield, upstreamVars
<1>2. CASE NativeAccepted
  BY <1>2 DEF NInv, NativeUnsent, NativeAccepted, During, NativeRunning, upstreamVars
<1>3. ASSUME NEW n, NEW strays, UpstreamSends(n, strays)
      PROVE  NativeUnsent' /\ (strayed => strayed')
  <2>1. /\ nativePhase = "streaming" /\ nativePhase' = nativePhase /\ nativeOut = <<>>
        /\ nativeSent' = nativeSent
        /\ nativeCommitted' \/ (nativeOut' = nativeOut /\ nativeCommitted' = nativeCommitted)
    BY <1>3 DEF UpstreamSends, During, Hold
  <2>2. strayed' = (strayed \/ strays)
    BY <1>3 DEF UpstreamSends
  <2>3. strayed => strayed'
    BY <2>2
  <2>4. NativeUnsent'
    BY <2>1 DEF NInv, NativeUnsent, NativeRunning
  <2> QED BY <2>3, <2>4
<1>4. ASSUME NEW n, NEW end \in NativeOver, Deliver(n, end)
      PROVE  NativeUnsent' /\ (strayed => strayed')
  BY <1>4 DEF NativeUnsent, Deliver, NativeRunning, NativeOver, upstreamVars
<1>5. ASSUME NEW f, NEW opened, NativeBreaks(f, opened), nativePhase \in NativeRunning
      PROVE  NativeUnsent' /\ (strayed => strayed' \/ NativeFollowed')
  <2>1. \/ ~ nativeCommitted /\ Restart
        \/ \E n, end : end \in NativeOver /\ Deliver(n, end)
    BY <1>5 DEF NativeBreaks, MayRestart, NativeRecover, EndInError, NativeOver
  <2>2. CASE ~ nativeCommitted /\ Restart
    <3>1. nativeSent = <<>> /\ nativeOut = <<>>
      BY <1>5, <2>2 DEF NInv, NativeUnsent
    <3>2. NativeFollowed'
      BY <2>2, <3>1, RestartKeeps
    <3> QED BY <2>2, <3>1, <3>2 DEF Restart, NativeUnsent, NativeFollowed
  <2> QED BY <1>4, <2>1, <2>2
<1>6. CASE NativeRefused \/ UpstreamEnds \/ UpstreamBreaks
  <2>1. nativePhase \in NativeRunning
    BY <1>6 DEF NativeRefused, UpstreamEnds, UpstreamBreaks, During, NativeRunning
  <2>2. \/ \E f, opened : NativeBreaks(f, opened)
        \/ Deliver(native, "completed")
    BY <1>6 DEF NativeRefused, UpstreamEnds, UpstreamBreaks
  <2> QED BY <1>4, <1>5, <2>1, <2>2 DEF NativeOver
<1>7. CASE NativeStarts \/ NativeUsage \/ NativeEnd
  BY <1>3, <1>7 DEF NativeStarts, NativeUsage, NativeEnd
<1>8. CASE \E u \in Index : UpstreamStops(u) \/ \E type \in {"text", "thinking", "tool"} :
              \/ UpstreamOpens(u, type)
              \/ \E args \in {"partial", "whole"} : UpstreamWrites(u, type, args)
  BY <1>3, <1>8 DEF UpstreamStops, UpstreamOpens, UpstreamWrites
<1>9. CASE UNCHANGED nativeVars
  BY <1>9 DEF nativeVars, NInv, NativeUnsent
<1> QED BY <1>1, <1>2, <1>6, <1>7, <1>8, <1>9 DEF NativeNext

LEMMA NextNInv == NInv /\ [NativeNext]_nativeVars => NInv'
BY NextFollowed, NextUnsent DEF NInv

LEMMA InitIsUnsent == NativeInit => NInv
<1> SUFFICES ASSUME NativeInit PROVE NInv
    OBVIOUS
<1>1. NativeFollowed
  BY InitFollowed
<1> QED BY <1>1 DEF NInv, NativeUnsent, NativeInit, NativeRunning

\* The ledger has recorded what the client has taken, what is about to be yielded and what
\* the holdback keeps, as one message of the contract, however the blocks of the upstream
\* overlap, until it goes astray; nothing of it has left before the holdback is committed
\* (run in AnthropicMessagesStreamAdapter).
THEOREM NativeInductive == NativeSpec => []NInv
BY InitIsUnsent, NextNInv, PTL DEF NativeSpec

\* What is taken next is legal after what was taken.
LEMMA NativeSends ==
    NInv /\ [NativeNext]_nativeVars =>
      [NativeClient!Send \/ nativePhase \in {"reopened", "late"} \/ strayed]_nativeSent
<1> SUFFICES ASSUME NativeFollowed, [NativeNext]_nativeVars, nativeSent' # nativeSent,
                    nativePhase \notin {"reopened", "late"}
             PROVE  NativeClient!Send
    BY DEF NInv
<1>1. NativeYield
  BY DEF NativeNext, nativeVars, NativeAccepted, NativeRefused, UpstreamEnds, UpstreamBreaks,
         NativeStarts, NativeUsage, NativeEnd, UpstreamStops, UpstreamOpens, UpstreamWrites,
         UpstreamSends, NativeBreaks, NativeRecover, EndInError, Restart, Deliver
<1> DEFINE e == Head(nativeOut)
<1>2. /\ nativeSent \in Seq(Event) /\ nativeOut \in Seq(Event) /\ nativeOut # <<>>
      /\ nativeHeld \in Seq(Event)
      /\ nativeSent' = Append(nativeSent, e) /\ WellFormed(nativeStream)
  BY <1>1 DEF NativeFollowed, NativeTypes, NativeOutcome, NativeYield
<1> DEFINE t == nativeSent \o nativeOut
<1>3. /\ e \in Event /\ t[Len(nativeSent) + 1] = e /\ Len(nativeSent) + 1 \in 1 .. Len(t)
      /\ \A i \in 1 .. Len(nativeSent) : t[i] = nativeSent[i]
  BY <1>2, TakesHead
<1>4. t \in Seq(Event) /\ nativeStream = t \o nativeHeld
  BY <1>2, ConcatProperties DEF nativeStream
<1> HIDE DEF e, t
<1>5. /\ Len(t) \in Nat /\ Len(t) <= Len(nativeStream)
      /\ \A i \in 1 .. Len(t) : nativeStream[i] = t[i]
  BY <1>2, <1>4, ConcatFacts
<1>6. /\ nativeStream[Len(nativeSent) + 1] = e
      /\ Len(nativeSent) + 1 \in 1 .. Len(nativeStream)
      /\ \A i \in 1 .. Len(nativeSent) : nativeStream[i] = nativeSent[i]
  <2>1. Len(nativeSent) \in Nat
    BY <1>2, LenProperties
  <2>2. Len(nativeStream) \in Nat
    BY <1>2, LenProperties DEF WellFormed
  <2> QED BY <1>3, <1>5, <2>1, <2>2
<1>7. NativeClient!Legal(nativeSent, e)
  <2>1. LegalAt(nativeStream, Len(nativeSent) + 1)
    BY <1>2, <1>6 DEF WellFormed
  <2>2. Contract!Legal(nativeSent, e)
    BY <1>2, <1>3, <1>6, <2>1, LegalForContract
  <2> QED BY <2>2 DEF Contract!Legal, Contract!Has, Contract!Blocks, Contract!OpenBlocks,
                      NativeClient!Legal, NativeClient!Has, NativeClient!Blocks,
                      NativeClient!OpenBlocks
<1>8. e \in NativeClient!Event
  BY <1>3 DEF Event, NativeClient!Event, BlockTypes, NativeClient!BlockType
<1>9. nativeSent' # <<>> /\ nativeSent'[Len(nativeSent')] = e
  BY <1>2, <1>3, AppendFacts, EmptySeq
<1> QED BY <1>2, <1>7, <1>8, <1>9 DEF NativeClient!Send

LEMMA EndsNativeWhole == NInv => NativeEndsWhole
<1> SUFFICES ASSUME NativeFollowed, nativePhase \in NativeOver, nativeOut = <<>>
             PROVE  /\ NativeClient!Has(nativeSent, "end")
                    /\ nativePhase = "recovered" /\ ToolBlocks(native) # {} => Salvageable(native)
    BY DEF NInv, NativeEndsWhole
<1>1. nativeSent \in Seq(Event) /\ nativeHeld = <<>> /\ HasEnd(nativeStream)
  BY DEF NativeFollowed, NativeTypes, NativeOutcome
<1>2. nativeStream = nativeSent
  BY <1>1, ConcatEmptySeq DEF nativeStream
<1>3. DOMAIN nativeSent = 1 .. Len(nativeSent)
  BY <1>1, LenProperties
<1>4. NativeClient!Has(nativeSent, "end")
  BY <1>1, <1>2, <1>3 DEF HasEnd, NativeClient!Has
<1>5. nativePhase = "recovered" /\ ToolBlocks(native) # {} => Salvageable(native)
  BY DEF NativeFollowed, NativeOutcome, Salvageable
<1> QED BY <1>4, <1>5

\* The client of the native transport gets one message of its contract, whatever order the
\* blocks of the upstream come in and wherever it fails, and always to its message_stop: run
\* in AnthropicMessagesStreamAdapter, but for what NativeKeepsContract leaves out.
THEOREM NativeIsTransparentCorrect == NativeSpec => NativeIsTransparent
<1>1. NativeInit => NativeClient!Init
  BY DEF NativeInit, NativeClient!Init
<1> QED BY <1>1, NativeSends, EndsNativeWhole, NativeInductive, PTL
        DEF NativeSpec, NativeIsTransparent, NativeKeepsContract
=============================================================================
