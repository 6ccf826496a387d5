--------------------------- MODULE Messaging_proofs ---------------------------
(***************************************************************************)
(* Proofs about five parts of the messaging side: VoiceNotes, for any      *)
(* number of notes, PlatformDelivery, for any number of messages, batches  *)
(* and tries, Conversations, for any number of prompts, clears and         *)
(* shutdowns, StatusMessage, for any run and any limit of a message, and   *)
(* SessionPersistence, for any number of saves, flushes and clears.        *)
(*                                                                         *)
(* A cancelled note is out of the registry, so that its flow cannot hand   *)
(* it on.  A deletion has every message it has not dealt with on one of    *)
(* its lists.  What a /clear covers stays there until it is removed, and   *)
(* what was erased is out of every tree and file that anything can return  *)
(* to.  The transcript of a run has its pieces in order, its open block    *)
(* the newest of them, and the stack of Tasks those without a result; what *)
(* is rendered of it is an end of it.  No interleaving of the timers'      *)
(* threads, with writes that may fail, forgets a change.                   *)
(***************************************************************************)
EXTENDS VoiceNotes, PlatformDelivery, Conversations, StatusMessage, SessionPersistence,
        PrefixInduction, FiniteSetTheorems, SequenceTheorems, TLAPS

(* Voice notes.                                                            *)

NoteSteps ==
    {"new", "sending", "shown", "working", "handed", "taken", "dropped", "failed",
     "turnedDown", "lost"}

VoiceTypes ==
    /\ noteStep \in [Note -> NoteSteps]
    /\ noteStatus \in [Note -> {"none", "shown", "deleted", "prompt's"}]
    /\ pendingIds \subseteq {"voice", "status"} \X Note
    /\ cancelling \subseteq Note /\ cancelledNotes \subseteq Note

\* A cancelled note is no longer pending, so that its flow cannot hand it on.
CancelledIsNotPending ==
    \A n \in cancelling \cup cancelledNotes : Both(n) \cap pendingIds = {}

VInv == VoiceTypes /\ CancelledIsNotPending /\ NotesEndAsTold
-----------------------------------------------------------------------------
\* The ids of a note, and of which note an id is.
LEMMA IdsOfNotes ==
  ASSUME NEW n, NEW m
  PROVE  /\ Both(n) = {<<"voice", n>>, <<"status", n>>}
         /\ n # m => Both(n) \cap Both(m) = {}
BY DEF Both

LEMMA InitVInv == VoiceInit => VInv
BY DEF VoiceInit, VInv, VoiceTypes, NoteSteps, CancelledIsNotPending, NotesEndAsTold,
       CancelledNoteIsNotRun, NotesSettle

\* What a step of one note's flow leaves as it is: all of the others.
LEMMA FlowStep ==
  ASSUME VInv, NEW n \in Note,
         \/ ReceiveNote(n) \/ StatusSent(n) \/ StatusLost(n) \/ RegisterNote(n)
         \/ HandOff(n) \/ DropNote(n) \/ WorkFails(n) \/ TurnTaken(n) \/ TurnFails(n)
  PROVE  VInv'
<1> USE DEF VInv
<1>1. cancelling' = cancelling /\ cancelledNotes' = cancelledNotes
  BY DEF ReceiveNote, StatusSent, StatusLost, RegisterNote, HandOff, DropNote, WorkFails,
         TurnTaken, TurnFails
<1>2. /\ noteStep' = [noteStep EXCEPT ![n] = noteStep'[n]] /\ noteStep'[n] \in NoteSteps
      /\ noteStatus' = [noteStatus EXCEPT ![n] = noteStatus'[n]]
      /\ noteStatus'[n] \in {"none", "shown", "deleted", "prompt's"}
  BY DEF ReceiveNote, StatusSent, StatusLost, RegisterNote, HandOff, DropNote, WorkFails,
         TurnTaken, TurnFails, NoteGoes, StatusBecomes, VoiceTypes, NoteSteps
<1>3. pendingIds' \in {pendingIds, pendingIds \cup Both(n), pendingIds \ Both(n)}
  BY DEF ReceiveNote, StatusSent, StatusLost, RegisterNote, HandOff, DropNote, WorkFails,
         TurnTaken, TurnFails
<1>4. VoiceTypes'
  <2>1. Both(n) \subseteq {"voice", "status"} \X Note
    BY DEF Both
  <2> QED
    BY <1>1, <1>2, <1>3, <2>1 DEF VoiceTypes
<1>5. \A m \in Note \ {n} : /\ noteStep'[m] = noteStep[m] /\ noteStatus'[m] = noteStatus[m]
                            /\ Both(m) \cap pendingIds' = Both(m) \cap pendingIds
  <2> TAKE m \in Note \ {n}
  <2>1. Both(m) \cap Both(n) = {}
    BY IdsOfNotes
  <2> QED
    BY <1>2, <1>3, <2>1 DEF VoiceTypes
<1>6. /\ n \in cancelling \cup cancelledNotes =>
           /\ noteStep'[n] \in {"working", "dropped", "failed"} /\ Both(n) \cap pendingIds' = {}
           /\ n \in cancelledNotes => noteStatus'[n] = "deleted"
      /\ Both(n) \subseteq pendingIds' \/ Both(n) \cap pendingIds' = {}
      /\ Both(n) \cap pendingIds' # {} => noteStep'[n] = "working"
      /\ noteStep'[n] \in {"dropped", "failed"} => noteStatus'[n] = "deleted"
      /\ noteStatus'[n] = "prompt's" <=> noteStep'[n] = "taken"
  <2> DEFINE Settled ==
        /\ n \in cancelling \cup cancelledNotes =>
             /\ noteStep[n] \in {"working", "dropped", "failed"} /\ Both(n) \cap pendingIds = {}
             /\ n \in cancelledNotes => noteStatus[n] = "deleted"
        /\ Both(n) \subseteq pendingIds \/ Both(n) \cap pendingIds = {}
        /\ Both(n) \cap pendingIds # {} => noteStep[n] = "working"
        /\ noteStep[n] \in {"dropped", "failed"} => noteStatus[n] = "deleted"
        /\ noteStatus[n] = "prompt's" <=> noteStep[n] = "taken"
  <2>1. Settled
    BY DEF CancelledIsNotPending, NotesEndAsTold, CancelledNoteIsNotRun, NotesSettle
  <2>2. noteStep \in [Note -> NoteSteps] /\ DOMAIN noteStatus = Note
    BY DEF VoiceTypes
  <2>3. CASE ReceiveNote(n) \/ StatusSent(n) \/ StatusLost(n)
    BY <2>1, <2>2, <2>3 DEF ReceiveNote, StatusSent, StatusLost, NoteGoes, StatusBecomes
  <2>4. CASE RegisterNote(n)
    BY <2>1, <2>2, <2>4 DEF RegisterNote, NoteGoes
  <2>5. CASE HandOff(n)
    <3>1. Both(n) \cap pendingIds # {}
      BY <2>5, IdsOfNotes DEF HandOff
    <3> QED
      BY <2>1, <2>2, <2>5, <3>1 DEF HandOff, NoteGoes
  <2>6. CASE DropNote(n)
    <3>1. Both(n) \cap pendingIds = {}
      BY <2>1, <2>6, IdsOfNotes DEF DropNote
    <3> QED
      BY <2>1, <2>2, <2>6, <3>1 DEF DropNote, NoteGoes, StatusBecomes
  <2>7. CASE WorkFails(n)
    BY <2>1, <2>2, <2>7 DEF WorkFails, NoteGoes, StatusBecomes
  <2>8. CASE TurnTaken(n) \/ TurnFails(n)
    BY <2>1, <2>2, <2>8 DEF TurnTaken, TurnFails, NoteGoes, StatusBecomes
  <2> QED
    BY <2>3, <2>4, <2>5, <2>6, <2>7, <2>8
<1>7. CancelledIsNotPending' /\ CancelledNoteIsNotRun'
  <2>1. \A m \in cancelling \cup cancelledNotes : m \in Note
    BY DEF VoiceTypes
  <2> QED
    BY <1>1, <1>5, <1>6, <2>1
    DEF CancelledIsNotPending, NotesEndAsTold, CancelledNoteIsNotRun
<1>8. NotesSettle'
  BY <1>5, <1>6 DEF NotesEndAsTold, NotesSettle
<1> QED
  BY <1>4, <1>7, <1>8 DEF NotesEndAsTold

\* A cancellation, through either id: the note is worked on, and its ids go together.
LEMMA CancelStep ==
  ASSUME VInv, NEW id \in {"voice", "status"} \X Note, CancelNote(id)
  PROVE  VInv'
<1> USE DEF VInv
<1>1. PICK n \in Note : id \in Both(n) /\ id[2] = n
  BY DEF Both
<1>2. /\ pendingIds' = pendingIds \ Both(n) /\ cancelling' = cancelling \cup {n}
      /\ noteStep' = noteStep /\ noteStatus' = noteStatus /\ cancelledNotes' = cancelledNotes
  BY <1>1 DEF CancelNote
<1>3. noteStep[n] = "working"
  BY <1>1 DEF CancelNote, NotesEndAsTold, NotesSettle
<1>4. n \notin cancelledNotes
  BY <1>1 DEF CancelNote, CancelledIsNotPending
<1>5. VoiceTypes'
  BY <1>2 DEF VoiceTypes
<1>6. CancelledIsNotPending' /\ CancelledNoteIsNotRun'
  BY <1>2, <1>3, <1>4 DEF CancelledIsNotPending, NotesEndAsTold, CancelledNoteIsNotRun
<1>7. NotesSettle'
  <2> SUFFICES ASSUME NEW m \in Note
               PROVE  /\ Both(m) \subseteq pendingIds' \/ Both(m) \cap pendingIds' = {}
                      /\ Both(m) \cap pendingIds' # {} => noteStep[m] = "working"
    BY <1>2 DEF NotesEndAsTold, NotesSettle
  <2>1. m # n => Both(m) \cap Both(n) = {}
    BY IdsOfNotes
  <2> QED
    BY <1>2, <2>1 DEF NotesEndAsTold, NotesSettle
<1> QED
  BY <1>5, <1>6, <1>7 DEF NotesEndAsTold

\* The end of a cancellation: the note's flow is still at work, or over.
LEMMA DeleteStep ==
  ASSUME VInv, NEW n \in Note, DeleteCancelled(n)
  PROVE  VInv'
<1> USE DEF VInv
<1>1. /\ cancelling' = cancelling \ {n} /\ cancelledNotes' = cancelledNotes \cup {n}
      /\ noteStatus' = [noteStatus EXCEPT ![n] = "deleted"]
      /\ noteStep' = noteStep /\ pendingIds' = pendingIds
  BY DEF DeleteCancelled, StatusBecomes
<1>2. noteStep[n] \in {"working", "dropped", "failed"}
  BY DEF DeleteCancelled, NotesEndAsTold, CancelledNoteIsNotRun
<1>3. VoiceTypes'
  BY <1>1 DEF VoiceTypes
<1>4. \A m \in Note : noteStatus'[m] = IF m = n THEN "deleted" ELSE noteStatus[m]
  BY <1>1 DEF VoiceTypes
<1>5. CancelledIsNotPending'
  BY <1>1 DEF CancelledIsNotPending, DeleteCancelled
<1>6. CancelledNoteIsNotRun' /\ NotesSettle'
  <2>1. \A m \in cancelling \cup cancelledNotes : m \in Note
    BY DEF VoiceTypes
  <2> QED
    BY <1>1, <1>2, <1>4, <2>1 DEF NotesEndAsTold, CancelledNoteIsNotRun, NotesSettle
<1> QED
  BY <1>3, <1>5, <1>6 DEF NotesEndAsTold

\* The invariant holds: the registry's ids come and go in pairs, and a note that is
\* cancelled is not pending any more.
THEOREM VoiceInductive == VoiceSpec => []VInv
<1>1. VoiceInit => VInv
  BY InitVInv
<1>2. VInv /\ [VoiceNext]_voiceVars => VInv'
  <2> SUFFICES ASSUME VInv, [VoiceNext]_voiceVars PROVE VInv'
    OBVIOUS
  <2>1. CASE VoiceNext
    BY <2>1, FlowStep, CancelStep, DeleteStep DEF VoiceNext
  <2>2. CASE UNCHANGED voiceVars
    BY <2>2 DEF voiceVars, VInv, VoiceTypes, CancelledIsNotPending, NotesEndAsTold,
                CancelledNoteIsNotRun, NotesSettle
  <2> QED
    BY <2>1, <2>2
<1> QED
  BY <1>1, <1>2, PTL DEF VoiceSpec

\* A cancelled note is never handed to the intake, its status goes, and every note's end
\* is the one its user was told (VoiceNoteFlow.handle, PendingVoiceRegistry).
THEOREM NotesEndAsToldCorrect == VoiceSpec => []NotesEndAsTold
<1>1. VInv => NotesEndAsTold
  BY DEF VInv
<1> QED
  BY <1>1, VoiceInductive, PTL
-----------------------------------------------------------------------------
(* The delivery of a platform messenger.                                   *)

DeliveryTypes ==
    /\ platform \in {"telegram", "discord"} /\ op \in {"send", "edit", "delete"}
    /\ remaining \in Seq(MsgId) /\ batch \in Seq(MsgId) /\ falling \in Seq(MsgId)
    /\ chatIds \in [MsgId -> {"present", "gone", "fixed"}]
    /\ copies \in Nat /\ unheard \in Nat /\ edited \in BOOLEAN
    /\ skipped \subseteq MsgId /\ outcome \in {"none", "returned", "raised"}

\* It is gone, or cannot be deleted, or was left out in silence.
Dealt(i) == chatIds[i] # "present" \/ i \in skipped

In(i, s) == \E k \in DOMAIN s : s[k] = i

\* A message that a deletion has not dealt with is on one of its lists.
Listed(i) == In(i, batch) \/ In(i, falling) \/ In(i, remaining)

SendIsCounted ==
    op = "send" => copies = IF outcome = "returned" THEN unheard + 1 ELSE unheard
EditIsInPlace ==
    op = "edit" /\ outcome = "returned" => edited \/ chatIds[1] # "present"
DeletionIsListed ==
    op = "delete" /\ outcome # "raised" =>
        \A i \in MsgId : Dealt(i) \/ (outcome = "none" /\ Listed(i))
BatchIsNext ==
    /\ op # "delete" => batch = <<1>> /\ falling = <<>>
    /\ falling # <<>> => batch = <<falling[1]>>
    /\ platform = "discord" => Len(batch) <= 1

\* What any call leaves as it is, whether it takes effect or not.
Settles ==
    /\ UNCHANGED <<platform, op>>
    /\ chatIds' \in [MsgId -> {"present", "gone", "fixed"}]
    /\ skipped \subseteq skipped' /\ skipped' \subseteq MsgId
    /\ \A i \in MsgId : chatIds[i] # "present" => chatIds'[i] # "present"
    /\ copies' \in Nat /\ unheard' \in Nat /\ edited' \in BOOLEAN

DInv == DeliveryTypes /\ SendIsCounted /\ EditIsInPlace /\ DeletionIsListed /\ BatchIsNext

\* A list is its first elements and the others.
LEMMA TakeAndFrom ==
  ASSUME NEW s \in Seq(MsgId), NEW n \in Nat
  PROVE  /\ Take(s, n) \in Seq(MsgId) /\ From(s, n) \in Seq(MsgId)
         /\ \A i : In(i, s) => In(i, Take(s, n)) \/ In(i, From(s, n))
         /\ Len(Take(s, n)) <= n
<1>1. /\ Take(s, n) \in Seq(MsgId)
      /\ Len(Take(s, n)) <= n
      /\ DOMAIN Take(s, n) = 1 .. IF Len(s) < n THEN Len(s) ELSE n
      /\ \A k \in DOMAIN Take(s, n) : Take(s, n)[k] = s[k]
  BY DEF Take
<1>2. CASE Len(s) < n
  <2>1. From(s, n) = <<>>
    BY <1>2 DEF From
  <2>2. \A i : In(i, s) => In(i, Take(s, n))
    BY <1>1, <1>2 DEF In
  <2> QED
    BY <1>1, <2>1, <2>2
<1>3. CASE n <= Len(s)
  <2>1. /\ From(s, n) \in Seq(MsgId)
        /\ DOMAIN From(s, n) = 1 .. Len(s) - n
        /\ \A k \in DOMAIN From(s, n) : From(s, n)[k] = s[n + k]
    BY <1>3 DEF From
  <2>2. ASSUME NEW i, In(i, s)
        PROVE  In(i, Take(s, n)) \/ In(i, From(s, n))
    <3>1. PICK k \in 1 .. Len(s) : s[k] = i
      BY <2>2 DEF In
    <3>2. CASE k <= n
      BY <1>1, <1>3, <3>1, <3>2 DEF In
    <3>3. CASE n < k
      <4>1. k - n \in DOMAIN From(s, n) /\ From(s, n)[k - n] = i
        BY <1>3, <2>1, <3>1, <3>3
      <4> QED
        BY <4>1 DEF In
    <3> QED
      BY <3>2, <3>3
  <2> QED
    BY <1>1, <2>1, <2>2
<1> QED
  BY <1>2, <1>3

LEMMA InitDInv == DeliveryInit => DInv
<1> SUFFICES ASSUME DeliveryInit
             PROVE  DInv
  OBVIOUS
<1> USE DeliveryAssumption DEF DeliveryAssumption
<1>1. 1 \in MsgId /\ <<1>> \in Seq(MsgId) /\ <<>> \in Seq(MsgId)
  BY DEF MsgId
<1>3. /\ platform \in {"telegram", "discord"} /\ op \in {"send", "edit", "delete"}
      /\ copies = 0 /\ unheard = 0 /\ edited = FALSE
      /\ chatIds \in [MsgId -> {"present", "gone", "fixed"}]
  BY DEF DeliveryInit
<1>5. CASE op # "delete"
  <2>1. /\ remaining = <<>> /\ batch = <<1>> /\ falling = <<>> /\ skipped = {}
        /\ outcome = "none"
    BY <1>5 DEF DeliveryInit
  <2>2. DeliveryTypes
    BY <1>1, <1>3, <2>1 DEF DeliveryTypes
  <2>3. BatchIsNext
    BY <1>3, <2>1 DEF BatchIsNext
  <2>4. SendIsCounted /\ EditIsInPlace
    BY <1>3, <2>1 DEF SendIsCounted, EditIsInPlace
  <2> QED
    BY <1>5, <2>2, <2>3, <2>4 DEF DInv, DeletionIsListed
<1>6. CASE op = "delete"
  <2>0. PICK n \in 0 .. MaxIds, k \in Nat :
          LET ids == [i \in 1 .. n |-> i]
          IN  /\ skipped = MsgId \ 1 .. n /\ outcome = IF n = 0 THEN "returned" ELSE "none"
              /\ platform = "discord" => k = 1
              /\ \/ falling = <<>> /\ remaining = From(ids, k) /\ batch = Take(ids, k)
                 \/ /\ falling = ids /\ batch = Take(ids, 1) /\ remaining = <<>>
                    /\ platform = "telegram"
    BY <1>6, <1>3 DEF DeliveryInit, DeletionStarts
  <2> DEFINE ids == [i \in 1 .. n |-> i]
  <2>1. ids \in Seq(MsgId) /\ Len(ids) = n /\ \A i \in 1 .. n : In(i, ids) /\ ids[i] = i
    <3>1. ids \in [1 .. n -> MsgId] /\ n \in Nat
      BY DEF MsgId
    <3>2. ids \in Seq(MsgId) /\ DOMAIN ids = 1 .. n
      <4> HIDE DEF ids
      <4> QED
        BY <3>1, SeqDef
    <3>3. Len(ids) = n
      <4> HIDE DEF ids
      <4> QED
        BY <3>1, <3>2, LenProperties
    <3> QED
      BY <3>2, <3>3 DEF In
  <2>2. /\ skipped = MsgId \ 1 .. n /\ outcome = IF n = 0 THEN "returned" ELSE "none"
        /\ platform = "discord" => k = 1
        /\ \/ falling = <<>> /\ remaining = From(ids, k) /\ batch = Take(ids, k)
           \/ /\ falling = ids /\ batch = Take(ids, 1) /\ remaining = <<>>
              /\ platform = "telegram"
    BY <2>0
  <2> HIDE DEF ids
  <2>3. ASSUME NEW l \in Nat
        PROVE  /\ Take(ids, l) \in Seq(MsgId) /\ From(ids, l) \in Seq(MsgId)
               /\ Len(Take(ids, l)) <= l
               /\ \A i : In(i, ids) => In(i, Take(ids, l)) \/ In(i, From(ids, l))
    BY <2>1, TakeAndFrom
  <2>4. /\ remaining \in Seq(MsgId) /\ batch \in Seq(MsgId) /\ falling \in Seq(MsgId)
        /\ platform = "discord" => Len(batch) <= 1
        /\ \A i \in 1 .. n : Listed(i)
    <3>1. CASE falling = <<>> /\ remaining = From(ids, k) /\ batch = Take(ids, k)
      <4>1. \A i \in 1 .. n : In(i, batch) \/ In(i, remaining)
        BY <2>1, <2>3, <3>1
      <4> QED
        BY <1>1, <2>2, <2>3, <3>1, <4>1 DEF Listed
    <3>2. CASE falling = ids /\ batch = Take(ids, 1) /\ remaining = <<>>
      <4>1. \A i \in 1 .. n : In(i, falling)
        BY <2>1, <3>2
      <4> QED
        BY <1>1, <2>1, <2>3, <3>2, <4>1 DEF Listed
    <3> QED
      BY <2>2, <3>1, <3>2
  <2>5. DeliveryTypes
    BY <1>3, <2>2, <2>4 DEF DeliveryTypes
  <2>6. falling # <<>> => batch = <<falling[1]>>
    <3> SUFFICES ASSUME falling # <<>>
                 PROVE  batch = <<falling[1]>>
      OBVIOUS
    <3>1. falling = ids /\ batch = Take(ids, 1)
      BY <2>2
    <3>2. ids \in Seq(MsgId) /\ ids # <<>>
      BY <2>1, <3>1
    <3>3. Len(ids) >= 1
      BY <3>2
    <3>4. batch = SubSeq(ids, 1, 1)
      BY <3>1, <3>2, <3>3 DEF Take
    <3>5. batch \in Seq(MsgId) /\ Len(batch) = 1 /\ batch[1] = ids[1]
      BY <3>2, <3>3, <3>4
    <3> QED
      BY <3>1, <3>5
  <2>7. BatchIsNext
    BY <1>6, <2>4, <2>6 DEF BatchIsNext
  <2>8. DeletionIsListed
    <3> SUFFICES ASSUME NEW i \in MsgId, i \notin skipped
                 PROVE  outcome = "none" /\ Listed(i)
      BY DEF DeletionIsListed, Dealt
    <3>1. i \in 1 .. n
      BY <2>2
    <3> QED
      BY <2>2, <2>4, <3>1
  <2>9. SendIsCounted /\ EditIsInPlace
    BY <1>6 DEF SendIsCounted, EditIsInPlace
  <2> QED
    BY <2>5, <2>7, <2>8, <2>9 DEF DInv
<1> QED
  BY <1>5, <1>6

\* The call raised: a batch falls back to its messages, nothing else goes on.
LEMMA RaisesKeeps ==
  ASSUME DInv, outcome = "none", Raises, Settles, op = "send" => copies' = unheard'
  PROVE  DInv'
<1>1. CASE Bulk
  <2>1. /\ falling' = batch /\ batch' = Take(batch, 1) /\ remaining' = remaining
        /\ outcome' = "none" /\ op = "delete" /\ op' = "delete"
        /\ falling = <<>> /\ platform' = "telegram"
    BY <1>1 DEF Raises, Bulk, Deleting, Settles
  <2>2. batch \in Seq(MsgId) /\ remaining \in Seq(MsgId)
    BY DEF DInv, DeliveryTypes
  <2>3. batch' \in Seq(MsgId)
    BY <2>1, <2>2, TakeAndFrom
  <2>4. ASSUME batch # <<>>
        PROVE  batch' = <<batch[1]>>
    <3>1. Len(batch) >= 1
      BY <2>2, <2>4
    <3>2. batch' = SubSeq(batch, 1, 1)
      BY <2>1, <2>2, <3>1 DEF Take
    <3>3. batch' \in Seq(MsgId) /\ Len(batch') = 1 /\ batch'[1] = batch[1]
      BY <2>2, <3>1, <3>2
    <3> QED
      BY <3>3
  <2>5. \A i \in MsgId : Listed(i) => (Listed(i))'
    <3>1. \A i : ~ In(i, falling)
      BY <2>1 DEF In
    <3>2. \A i : In(i, batch) => (In(i, falling))'
      BY <2>1 DEF In
    <3>3. \A i : In(i, remaining) => (In(i, remaining))'
      BY <2>1 DEF In
    <3> QED
      BY <3>1, <3>2, <3>3 DEF Listed
  <2>6. DeliveryTypes'
    BY <2>1, <2>2, <2>3 DEF DeliveryTypes, Settles
  <2>7. BatchIsNext'
    BY <2>1, <2>4 DEF BatchIsNext
  <2>8. DeletionIsListed'
    BY <2>1, <2>5 DEF DInv, DeletionIsListed, Dealt, Settles
  <2> QED
    BY <2>1, <2>6, <2>7, <2>8 DEF DInv, SendIsCounted, EditIsInPlace
<1>2. CASE ~ Bulk
  <2>1. outcome' = "raised" /\ UNCHANGED <<remaining, batch, falling>>
    BY <1>2 DEF Raises
  <2>2. DeliveryTypes' /\ BatchIsNext'
    BY <2>1 DEF DInv, DeliveryTypes, BatchIsNext, Settles
  <2>3. SendIsCounted'
    BY <2>1 DEF SendIsCounted, Settles
  <2>4. EditIsInPlace' /\ DeletionIsListed'
    BY <2>1 DEF EditIsInPlace, DeletionIsListed
  <2> QED
    BY <2>2, <2>3, <2>4 DEF DInv
<1> QED
  BY <1>1, <1>2

\* The call returned: it was about messages that are no longer there to be deleted.
LEMMA ReturnsKeeps ==
  ASSUME DInv, outcome = "none", Returns, Settles,
         op = "delete" => \A i \in MsgId : In(i, batch) => (Dealt(i))',
         op = "send" => copies' = unheard' + 1,
         op = "edit" => edited' \/ chatIds'[1] # "present"
  PROVE  DInv'
<1>0. /\ op' = op /\ platform' = platform
      /\ remaining \in Seq(MsgId) /\ batch \in Seq(MsgId) /\ falling \in Seq(MsgId)
  BY DEF DInv, DeliveryTypes, Settles
<1>1. CASE op # "delete"
  <2>1. outcome' = "returned" /\ UNCHANGED <<remaining, batch, falling>>
    BY <1>1 DEF Returns, Deleting
  <2>2. DeliveryTypes' /\ BatchIsNext'
    BY <2>1 DEF DInv, DeliveryTypes, BatchIsNext, Settles
  <2> QED
    BY <1>0, <1>1, <2>1, <2>2 DEF DInv, SendIsCounted, EditIsInPlace, DeletionIsListed
<1>2. CASE op = "delete" /\ Len(falling) > 1
  <2>1. /\ falling' = Tail(falling) /\ batch' = <<falling[2]>>
        /\ UNCHANGED <<remaining, outcome>>
    BY <1>2 DEF Returns, Deleting, NextBatch
  <2>2. falling # <<>>
    BY <1>0, <1>2
  <2>3. falling' \in Seq(MsgId) /\ Len(falling') = Len(falling) - 1
    BY <1>0, <2>1, <2>2, HeadTailProperties
  <2>4. \A k \in 1 .. Len(falling') : falling'[k] = falling[k + 1]
    BY <1>0, <2>1, <2>2, HeadTailProperties
  <2>5. falling[2] \in MsgId
    BY <1>0, <1>2, ElementOfSeq
  <2>6. batch' \in Seq(MsgId) /\ Len(batch') = 1
    BY <2>1, <2>5
  <2>7. batch' = <<falling'[1]>>
    <3>1. 1 \in 1 .. Len(falling')
      BY <1>0, <1>2, <2>3
    <3> QED
      BY <2>1, <2>4, <3>1
  <2>8. batch = <<falling[1]>>
    BY <2>2 DEF DInv, BatchIsNext
  <2>9. ASSUME NEW i \in MsgId, Listed(i), ~ In(i, batch)
        PROVE  (Listed(i))'
    <3>1. CASE In(i, remaining)
      <4>1. (In(i, remaining))'
        BY <2>1, <3>1 DEF In
      <4> QED
        BY <4>1 DEF Listed
    <3>2. CASE In(i, falling)
      <4>1. PICK k \in 1 .. Len(falling) : falling[k] = i
        BY <1>0, <3>2 DEF In
      <4>2. k # 1
        BY <2>8, <2>9, <4>1 DEF In
      <4>3. k - 1 \in 1 .. Len(falling')
        BY <1>0, <2>3, <4>1, <4>2
      <4>4. falling'[k - 1] = falling[(k - 1) + 1] /\ (k - 1) + 1 = k
        BY <2>4, <4>1, <4>3
      <4>5. (In(i, falling))'
        BY <2>3, <4>1, <4>3, <4>4 DEF In
      <4> QED
        BY <4>5 DEF Listed
    <3> QED
      BY <2>9, <3>1, <3>2 DEF Listed
  <2>10. DeliveryTypes'
    BY <1>0, <2>1, <2>3, <2>6 DEF DInv, DeliveryTypes, Settles
  <2>11. BatchIsNext'
    BY <1>0, <1>2, <2>6, <2>7 DEF BatchIsNext
  <2>12. DeletionIsListed'
    BY <1>0, <1>2, <2>1, <2>9 DEF DInv, DeletionIsListed, Dealt, Settles
  <2> QED
    BY <1>0, <1>2, <2>10, <2>11, <2>12 DEF DInv, SendIsCounted, EditIsInPlace
<1>3. CASE op = "delete" /\ ~ Len(falling) > 1
  <2>1. PICK n \in Nat :
          /\ falling' = <<>> /\ batch' = Take(remaining, n) /\ remaining' = From(remaining, n)
          /\ outcome' = IF remaining = <<>> THEN "returned" ELSE outcome
          /\ platform = "discord" => n = 1
    BY <1>3, DeliveryAssumption DEF Returns, Deleting, NextBatch, DeliveryAssumption
  <2>2. batch' \in Seq(MsgId) /\ remaining' \in Seq(MsgId) /\ Len(batch') <= n
    BY <1>0, <2>1, TakeAndFrom
  <2>3. \A i \in MsgId : In(i, falling) => In(i, batch)
    <3> SUFFICES ASSUME NEW i \in MsgId, NEW k \in 1 .. Len(falling), falling[k] = i
                 PROVE  In(i, batch)
      BY <1>0 DEF In
    <3>1. k = 1 /\ falling # <<>>
      BY <1>0, <1>3
    <3>2. batch = <<i>>
      BY <3>1 DEF DInv, BatchIsNext
    <3> QED
      BY <3>2 DEF In
  <2>4. \A i \in MsgId : In(i, remaining) => (Listed(i))'
    <3> SUFFICES ASSUME NEW i \in MsgId, In(i, remaining)
                 PROVE  (Listed(i))'
      OBVIOUS
    <3>1. In(i, Take(remaining, n)) \/ In(i, From(remaining, n))
      BY <1>0, TakeAndFrom
    <3>2. (In(i, batch))' \/ (In(i, remaining))'
      BY <2>1, <3>1 DEF In
    <3> QED
      BY <3>2 DEF Listed
  <2>5. remaining = <<>> => \A i : ~ In(i, remaining)
    BY DEF In
  <2>6. DeletionIsListed'
    <3> SUFFICES ASSUME outcome' # "raised", NEW i \in MsgId, ~ (Dealt(i))'
                 PROVE  outcome' = "none" /\ (Listed(i))'
      BY DEF DeletionIsListed
    <3>1. ~ Dealt(i) /\ ~ In(i, batch)
      BY <1>3 DEF Settles, Dealt
    <3>2. In(i, remaining)
      BY <1>3, <2>3, <3>1 DEF DInv, DeletionIsListed, Listed
    <3> QED
      BY <2>1, <2>4, <2>5, <3>2
  <2>7. DeliveryTypes'
    <3>1. outcome' \in {"none", "returned", "raised"} /\ falling' \in Seq(MsgId)
      BY <2>1
    <3> QED
      BY <1>0, <2>2, <3>1 DEF DInv, DeliveryTypes, Settles
  <2>8. BatchIsNext'
    BY <1>0, <1>3, <2>1, <2>2 DEF BatchIsNext
  <2> QED
    BY <1>0, <1>3, <2>6, <2>7, <2>8 DEF DInv, SendIsCounted, EditIsInPlace
<1> QED
  BY <1>1, <1>2, <1>3

LEMMA WaitsKeeps ==
  ASSUME DInv, outcome = "none", UNCHANGED <<remaining, batch, falling, outcome>>, Settles,
         op = "send" => copies' = unheard'
  PROVE  DInv'
<1>1. DeliveryTypes' /\ BatchIsNext'
  BY DEF DInv, DeliveryTypes, BatchIsNext, Settles
<1>2. \A i \in MsgId : Listed(i) => (Listed(i))'
  BY DEF Listed, In
<1>3. DeletionIsListed'
  BY <1>2 DEF DInv, DeletionIsListed, Dealt, Settles
<1>4. SendIsCounted'
  BY DEF SendIsCounted, Settles
<1>5. EditIsInPlace'
  BY DEF EditIsInPlace
<1> QED
  BY <1>1, <1>3, <1>4, <1>5 DEF DInv

LEMMA RetriedKeeps ==
  ASSUME DInv, outcome = "none", Retried, Settles, op = "send" => copies' = unheard'
  PROVE  DInv'
<1>1. CASE Raises
  BY <1>1, RaisesKeeps
<1>2. CASE UNCHANGED <<remaining, batch, falling, outcome>>
  BY <1>2, WaitsKeeps
<1> QED
  BY <1>1, <1>2 DEF Retried

LEMMA NoEffectSettles ==
  ASSUME DInv, outcome = "none", NoEffect, UNCHANGED <<platform, op, unheard, skipped>>
  PROVE  Settles /\ (op = "send" => copies' = unheard')
BY DEF DInv, DeliveryTypes, NoEffect, Settles, SendIsCounted

\* A call that takes effect does what it is for, once.
LEMMA EffectSettles ==
  ASSUME DInv, outcome = "none", TakesEffect, UNCHANGED <<platform, op, skipped>>,
         unheard' \in Nat
  PROVE  /\ Settles
         /\ op = "send" => copies' = unheard + 1
         /\ op = "edit" => edited'
         /\ op = "delete" => \A i \in MsgId : In(i, batch) => (Dealt(i))'
<1>1. CASE op = "send"
  BY <1>1 DEF DInv, DeliveryTypes, SendIsCounted, TakesEffect, Settles
<1>2. CASE op = "edit"
  BY <1>2 DEF DInv, DeliveryTypes, SendIsCounted, TakesEffect, Settles
<1>3. CASE op = "delete"
  <2>1. /\ chatIds' = [i \in MsgId |-> IF In(i, batch) THEN "gone" ELSE chatIds[i]]
        /\ UNCHANGED <<copies, edited>>
    BY <1>3 DEF TakesEffect, In
  <2> QED
    BY <1>3, <2>1 DEF DInv, DeliveryTypes, Settles, Dealt
<1> QED
  BY <1>1, <1>2, <1>3 DEF DInv, DeliveryTypes

\* What is rejected is about a message that is not there, or about a batch.
LEMMA RejectedIsGone ==
  ASSUME DInv, ~ Possible, ~ Bulk
  PROVE  /\ op \in {"edit", "delete"}
         /\ op = "edit" => chatIds[1] # "present"
         /\ op = "delete" => \A i \in MsgId : In(i, batch) => chatIds[i] # "present"
<1>1. op \in {"edit", "delete"}
  BY DEF Possible, DInv, DeliveryTypes
<1>2. ASSUME op = "edit" PROVE chatIds[1] # "present"
  <2>1. batch = <<1>>
    BY <1>2 DEF DInv, BatchIsNext
  <2>2. Targets = {chatIds[1]}
    BY <2>1 DEF Targets
  <2> QED
    BY <2>2 DEF Possible
<1>3. ASSUME op = "delete", NEW i \in MsgId, In(i, batch)
      PROVE  chatIds[i] # "present"
  <2>1. batch = <<i>>
    <3>1. CASE falling # <<>>
      <4>1. batch = <<falling[1]>>
        BY <3>1 DEF DInv, BatchIsNext
      <4> QED
        BY <1>3, <4>1 DEF In
    <3>2. CASE falling = <<>>
      <4>1. Len(batch) <= 1 /\ batch \in Seq(MsgId)
        BY <1>3, <3>2 DEF Bulk, Deleting, DInv, BatchIsNext, DeliveryTypes
      <4>2. PICK k \in 1 .. Len(batch) : batch[k] = i
        BY <1>3, <4>1 DEF In
      <4>3. k = 1 /\ Len(batch) = 1
        <5>1. Len(batch) \in Nat
          BY <4>1, LenProperties
        <5>2. k \in Nat /\ 1 <= k /\ k <= Len(batch)
          BY <4>2, <5>1
        <5> QED
          BY <4>1, <5>1, <5>2
      <4> QED
        BY <4>1, <4>2, <4>3
    <3> QED
      BY <3>1, <3>2
  <2>2. Targets = {chatIds[i]}
    BY <2>1 DEF Targets
  <2> QED
    BY <2>2 DEF Possible
<1> QED
  BY <1>1, <1>2, <1>3

LEMMA NextDInv == DInv /\ [DeliveryNext]_deliveryVars => DInv'
<1> SUFFICES ASSUME DInv, [DeliveryNext]_deliveryVars
             PROVE  DInv'
  OBVIOUS
<1>1. CASE CallSucceeds
  <2>1. /\ outcome = "none" /\ TakesEffect /\ Returns
        /\ UNCHANGED <<platform, op, unheard, skipped>> /\ unheard' \in Nat
    BY <1>1 DEF CallSucceeds, DInv, DeliveryTypes
  <2> QED
    BY <2>1, EffectSettles, ReturnsKeeps
<1>2. CASE CallTimesOut
  <2>1. outcome = "none" /\ Retried /\ UNCHANGED <<platform, op, skipped>>
    BY <1>2 DEF CallTimesOut
  <2>2. CASE TakesEffect /\ unheard' = unheard + 1
    <3>1. unheard' \in Nat
      BY <2>2 DEF DInv, DeliveryTypes
    <3> QED
      BY <2>1, <2>2, <3>1, EffectSettles, RetriedKeeps
  <2>3. CASE NoEffect /\ UNCHANGED unheard
    BY <2>1, <2>3, NoEffectSettles, RetriedKeeps
  <2> QED
    BY <1>2, <2>2, <2>3 DEF CallTimesOut
<1>3. CASE CallLimited
  <2>1. outcome = "none" /\ NoEffect /\ UNCHANGED <<platform, op, unheard, skipped>>
    BY <1>3 DEF CallLimited
  <2>2. Raises \/ UNCHANGED <<remaining, batch, falling, outcome>>
    BY <1>3 DEF CallLimited
  <2> QED
    BY <2>1, <2>2, NoEffectSettles, RaisesKeeps, WaitsKeeps
<1>4. CASE NotModified
  <2>1. /\ outcome = "none" /\ NoEffect /\ UNCHANGED <<platform, op, unheard, skipped>>
        /\ op = "edit" /\ edited' /\ (Raises \/ Returns)
    BY <1>4 DEF NotModified, NoEffect, DInv, DeliveryTypes
  <2> QED
    BY <2>1, NoEffectSettles, RaisesKeeps, ReturnsKeeps
<1>5. CASE TargetRejected
  <2>1. /\ outcome = "none" /\ NoEffect /\ UNCHANGED <<platform, op, unheard, skipped>>
        /\ ~ Possible
    BY <1>5 DEF TargetRejected
  <2>2. Retried \/ Raises \/ (Returns /\ ~ Bulk)
    BY <1>5 DEF TargetRejected, Bulk
  <2>3. CASE Returns /\ ~ Bulk
    <3>1. chatIds' = chatIds
      BY <2>1 DEF NoEffect
    <3> QED
      BY <2>1, <2>3, <3>1, RejectedIsGone, NoEffectSettles, ReturnsKeeps DEF Dealt
  <2> QED
    BY <2>1, <2>2, <2>3, NoEffectSettles, RaisesKeeps, RetriedKeeps
<1>6. CASE MarkupRejected
  <2>1. outcome = "none" /\ NoEffect /\ UNCHANGED <<platform, op, unheard, skipped>>
    BY <1>6 DEF MarkupRejected
  <2>2. Retried \/ Raises \/ UNCHANGED <<remaining, batch, falling, outcome>>
    BY <1>6 DEF MarkupRejected
  <2> QED
    BY <2>1, <2>2, NoEffectSettles, RaisesKeeps, RetriedKeeps, WaitsKeeps
<1>7. CASE CallRefused
  <2>1. /\ outcome = "none" /\ Raises /\ NoEffect /\ UNCHANGED <<platform, op, unheard, skipped>>
    BY <1>7 DEF CallRefused
  <2> QED
    BY <2>1, NoEffectSettles, RaisesKeeps
<1>8. CASE ChannelUnknown
  <2>1. /\ outcome = "none" /\ NoEffect /\ Returns /\ UNCHANGED <<platform, op, unheard>>
        /\ op = "delete" /\ skipped' = skipped \cup {batch[k] : k \in DOMAIN batch}
    BY <1>8 DEF ChannelUnknown, Deleting
  <2>2. /\ skipped' \subseteq MsgId /\ skipped \subseteq skipped'
        /\ \A i \in MsgId : In(i, batch) => i \in skipped'
    BY <2>1, ElementOfSeq DEF DInv, DeliveryTypes, In
  <2>3. Settles
    BY <2>1, <2>2 DEF NoEffect, Settles, DInv, DeliveryTypes
  <2> QED
    BY <2>1, <2>2, <2>3, ReturnsKeeps DEF Dealt
<1>9. CASE UNCHANGED deliveryVars
  BY <1>9 DEF deliveryVars, Dealt, DInv, DeliveryTypes, SendIsCounted, EditIsInPlace,
              DeletionIsListed, BatchIsNext, Listed, In
<1> QED
  BY <1>9, <1>8, <1>7, <1>6, <1>5, <1>4, <1>3, <1>2, <1>1 DEF DeliveryNext

\* A deletion that goes on has every message it has not dealt with on one of its lists, and
\* a send has put up what it reported or what it could not know of: _with_retry and the
\* fallback of telegram_io.py keep this for any number of messages, batches and tries.
THEOREM DeliveryInductive == DeliverySpec => []DInv
<1> QED
  BY InitDInv, NextDInv, PTL DEF DeliverySpec

\* What a messenger reports of a send, an edit or a deletion is so.
THEOREM DeliveryIsHonestCorrect == DeliverySpec => []DeliveryIsHonest
<1>1. DInv => DeliveryIsHonest
  <2> SUFFICES ASSUME DInv
               PROVE  DeliveryIsHonest
    OBVIOUS
  <2> USE DEF DInv
  <2>1. CASE op = "send"
    BY <2>1 DEF SendIsCounted, DeliveryTypes, DeliveryIsHonest
  <2>2. CASE op = "edit"
    BY <2>2 DEF EditIsInPlace, DeliveryIsHonest
  <2>3. CASE op = "delete"
    BY <2>3 DEF DeletionIsListed, Dealt, DeliveryIsHonest
  <2> QED
    BY <2>1, <2>2, <2>3 DEF DeliveryTypes
<1> QED
  BY <1>1, DeliveryInductive, PTL
-----------------------------------------------------------------------------
(* The conversations.                                                      *)

Admitted == {m \in Msg : intake[m] = "admitted"}

PairIn(m, ids) == <<"prompt", m>> \in ids /\ <<"status", m>> \in ids
Found(m)     == PairIn(m, lookup) /\ rootOf[m] \in trees /\ m \in inGraph

ChatTypes ==
    /\ intake \in [Msg -> {"new", "sending", "shown", "admitted", "refused"}]
    /\ parentOf \in [Msg -> Msg \cup {NoMsg}] /\ rootOf \in [Msg -> Msg \cup {NoMsg}]
    /\ lookup \subseteq Ids(Msg) /\ shaken \subseteq Msg /\ shuttingDown \in BOOLEAN
    /\ stored \in [Msg -> SUBSET Msg]
    /\ clear \in [at : {"none", "stopping", "deleting"}, of : Msg \cup {NoMsg},
                  nodes : SUBSET Msg]

\* Whatever is anywhere in the trees or the store was admitted, and is where its root is.
OnlyAdmitted ==
    /\ inGraph \cup trees \cup erased \cup clear.nodes \subseteq Admitted
    /\ \A m \in Msg : intake[m] = "new" => parentOf[m] = NoMsg
    /\ \A r \in trees : rootOf[r] = r
    /\ \A r \in Msg : \A m \in stored[r] : m \in Admitted /\ rootOf[m] = r

\* A node is in the thread of its root: to clear the root is to clear the tree.
Rooted ==
    \A m \in Admitted :
      /\ rootOf[m] \in Admitted /\ rootOf[rootOf[m]] = rootOf[m]
      /\ m \in Thread(rootOf[m])

\* An id and that of its status are indexed together.
Paired == \A m \in Msg : <<"prompt", m>> \in lookup <=> <<"status", m>> \in lookup

\* What was erased is in no tree that a task or a prompt can reach.
ErasedIsOut ==
    /\ \A r \in Msg : erased \cap stored[r] = {}
    /\ \A m \in erased : <<"prompt", m>> \notin lookup
    /\ \A r \in trees : TreeOf(r) \cap erased = {}

\* What a /clear covers is still there when it comes to remove it.
ClearHolds ==
    /\ clear.nodes \subseteq shaken
    /\ clear.of # NoMsg => Found(clear.of) /\ clear.nodes \subseteq Branch(clear.of)

\* A prompt on its way has its id in the log and its parent in the index; one that was
\* admitted is everywhere in memory.
Kept(m) ==
    /\ intake[m] # "refused"
    /\ intake[m] \in {"sending", "shown"} =>
         /\ ~ shuttingDown /\ <<"prompt", m>> \in msgLog
         /\ parentOf[m] # NoMsg => Found(parentOf[m])
    /\ intake[m] = "admitted" =>
         Found(m) /\ PairIn(m, msgLog) /\ m \in stored[rootOf[m]]

UnshakenIsKept == \A m \in Msg : m \in shaken \/ Kept(m)

\* What the store held when a file, or a thread's snapshot, was made of it.
Told(image) ==
    /\ image.stored \in [Msg -> SUBSET Msg]
    /\ \A r \in Msg : \A m \in image.stored[r] : m \in Admitted /\ rootOf[m] = r

\* A restart from it brings back nothing erased, and every prompt that was not shaken.
Faithful(image) ==
    /\ \A r \in Msg : erased \cap image.stored[r] = {}
    /\ \A m \in Admitted :
         m \in shaken \/ (m \in image.stored[rootOf[m]] /\ PairIn(m, image.msgLog))

\* From the flush on, what a thread took since then may replace the file; what it took
\* before makes it outdated.
FilesStand ==
    /\ Told(disk) /\ \A w \in Saver : Told(snapshot[w])
    /\ writing \in [Saver -> {"no", "fresh", "late"}] /\ DOMAIN snapshot = Saver
    /\ shuttingDown =>
         /\ outdated \/ Faithful(disk)
         /\ \A w \in Saver : writing[w] = "fresh" => Faithful(snapshot[w])

CInv ==
    /\ ChatTypes /\ OnlyAdmitted /\ Rooted /\ Paired
    /\ ErasedIsOut /\ ClearHolds /\ UnshakenIsKept /\ FilesStand

LEMMA IdsOf ==
  ASSUME NEW S
  PROVE  /\ \A m : /\ <<"prompt", m>> \in Ids(S) <=> m \in S
                   /\ <<"status", m>> \in Ids(S) <=> m \in S
         /\ \A id \in Ids(S) :
              /\ id[2] \in S
              /\ id = <<"prompt", id[2]>> \/ id = <<"status", id[2]>>
BY DEF Ids

LEMMA ResolvesIsFound ==
  ASSUME ChatTypes, Paired
  PROVE  /\ \A m \in Msg : /\ Resolves(<<"prompt", m>>) <=> Found(m)
                           /\ Resolves(<<"status", m>>) <=> Found(m)
         /\ \A id \in lookup : id[2] \in Msg /\ (Resolves(id) <=> Found(id[2]))
<1>1. \A m \in Msg : /\ Resolves(<<"prompt", m>>) <=> Found(m)
                     /\ Resolves(<<"status", m>>) <=> Found(m)
  BY DEF Resolves, Found, PairIn, Paired
<1>2. ASSUME NEW id \in lookup
      PROVE  id[2] \in Msg /\ (Resolves(id) <=> Found(id[2]))
  <2>1. id[2] \in Msg /\ (id = <<"prompt", id[2]>> \/ id = <<"status", id[2]>>)
    BY IdsOf DEF ChatTypes
  <2> QED
    BY <1>1, <2>1
<1> QED
  BY <1>1, <1>2

\* A message is in its own thread, and what replies to a member of a thread is in it.
LEMMA ThreadOf ==
  /\ \A m \in Msg : m \in Thread(m)
  /\ \A r \in Msg : \A m \in Msg : parentOf[m] \in Thread(r) => m \in Thread(r)
BY DEF Thread, WithReplies

\* A reply that comes takes nothing from a thread.
LEMMA ThreadGrows ==
  ASSUME \A k \in Msg : parentOf[k] # NoMsg => parentOf'[k] = parentOf[k]
  PROVE  \A m \in Msg : Thread(m) \subseteq (Thread(m))'
<1> SUFFICES ASSUME NEW m \in Msg, NEW k \in Thread(m), NEW S \in SUBSET Msg,
                    m \in S, (WithReplies(S))'
             PROVE  k \in S
  BY DEF Thread
<1>1. WithReplies(S)
  <2> SUFFICES ASSUME NEW j \in Msg, parentOf[j] \in S
               PROVE  j \in S
    BY DEF WithReplies
  <2>1. parentOf'[j] = parentOf[j]
    BY ChatAssumption DEF ChatAssumption
  <2> QED
    BY <2>1 DEF WithReplies
<1> QED
  BY <1>1 DEF Thread

LEMMA RootedKeeps ==
  ASSUME Rooted, rootOf' = rootOf, Admitted' = Admitted,
         \A k \in Msg : parentOf[k] # NoMsg => parentOf'[k] = parentOf[k]
  PROVE  Rooted'
<1> SUFFICES ASSUME NEW m \in Admitted
             PROVE  /\ rootOf[m] \in Admitted /\ rootOf[rootOf[m]] = rootOf[m]
                    /\ (m \in Thread(rootOf[m]))'
  BY DEF Rooted
<1>1. /\ rootOf[m] \in Admitted /\ rootOf[rootOf[m]] = rootOf[m]
      /\ m \in Thread(rootOf[m])
  BY DEF Rooted
<1>2. PICK r \in Msg : r = rootOf[m]
  BY <1>1 DEF Admitted
<1>3. (m \in Thread(r))'
  BY <1>1, <1>2, ThreadGrows
<1> QED
  BY <1>1, <1>2, <1>3

\* A step that leaves the trees as they are: threads may only grow.
TreesStand ==
    /\ UNCHANGED <<rootOf, inGraph, trees, lookup, erased>> /\ Admitted' = Admitted
    /\ \A k \in Msg : parentOf[k] # NoMsg => parentOf'[k] = parentOf[k]

LEMMA StandKeeps ==
  ASSUME CInv, TreesStand
  PROVE  /\ Rooted' /\ Paired'
         /\ \A m : (Found(m))' <=> Found(m)
         /\ \A r : (TreeOf(r))' = TreeOf(r)
         /\ \A b \in Msg : Branch(b) \subseteq (Branch(b))'
<1> USE DEF TreesStand
<1>1. \A m \in Msg : Thread(m) \subseteq (Thread(m))'
  BY ThreadGrows
<1>2. Paired'
  BY DEF CInv, Paired
<1>3. \A m : (Found(m))' <=> Found(m)
  BY DEF Found, PairIn
<1>4. \A r : (TreeOf(r))' = TreeOf(r)
  BY DEF TreeOf
<1>5. \A b \in Msg : Branch(b) \subseteq (Branch(b))'
  BY <1>1, <1>4 DEF Branch
<1>6. Rooted'
  BY RootedKeeps DEF CInv
<1> QED
  BY <1>2, <1>3, <1>4, <1>5, <1>6

\* A prompt that was neither refused, taken nor admitted in this step.
AsBefore(m) ==
    /\ intake'[m] = "refused" => intake[m] = "refused"
    /\ intake'[m] \in {"sending", "shown"} => intake[m] \in {"sending", "shown"}
    /\ intake'[m] = "admitted" => intake[m] = "admitted"

\* What an unshaken prompt relies on, when none of it goes.
LEMMA KeptStays ==
  ASSUME NEW k \in Msg, Kept(k), parentOf[k] \in Msg \cup {NoMsg},
         AsBefore(k), parentOf'[k] = parentOf[k], rootOf'[k] = rootOf[k],
         \A j \in Msg : Found(j) => (Found(j))',
         \A id \in msgLog : id[2] = k => id \in msgLog',
         k \in stored[rootOf[k]] => k \in stored'[rootOf[k]],
         shuttingDown' = shuttingDown
  PROVE  (Kept(k))'
<1>1. /\ <<"prompt", k>> \in msgLog => <<"prompt", k>> \in msgLog'
      /\ PairIn(k, msgLog) => (PairIn(k, msgLog))'
  BY DEF PairIn
<1>2. parentOf[k] # NoMsg /\ Found(parentOf[k]) => (Found(parentOf[k]))'
  <2>1. PICK p : p = parentOf[k]
    OBVIOUS
  <2> QED
    BY <2>1
<1> QED
  BY <1>1, <1>2 DEF Kept, AsBefore

\* A step that leaves the file and the threads: what it admits during a shutdown is
\* shaken, and it erases nothing then.
FilesLeft ==
    /\ UNCHANGED <<savedVars, shuttingDown>> /\ Admitted \subseteq Admitted'
    /\ \A m \in Admitted : rootOf'[m] = rootOf[m]
    /\ shaken \subseteq shaken'
    /\ shuttingDown => erased' = erased /\ Admitted' \subseteq Admitted \cup shaken'

LEMMA FileStays ==
  ASSUME FilesLeft, NEW image, Told(image)
  PROVE  /\ (Told(image))'
         /\ shuttingDown /\ Faithful(image) => (Faithful(image))'
<1>1. (Told(image))'
  BY DEF Told, FilesLeft
<1>2. ASSUME shuttingDown, Faithful(image), NEW m \in Admitted', m \notin shaken'
      PROVE  m \in image.stored[rootOf'[m]] /\ (PairIn(m, image.msgLog))'
  <2>1. m \in Admitted /\ rootOf'[m] = rootOf[m] /\ m \notin shaken
    BY <1>2 DEF FilesLeft
  <2> QED
    BY <1>2, <2>1 DEF Faithful, PairIn
<1>3. shuttingDown /\ Faithful(image) => \A r \in Msg : erased' \cap image.stored[r] = {}
  BY DEF Faithful, FilesLeft
<1> QED
  BY <1>1, <1>2, <1>3 DEF Faithful

LEMMA FilesKeep ==
  ASSUME FilesStand, FilesLeft
  PROVE  FilesStand'
<1>1. UNCHANGED <<disk, writing, snapshot, outdated, shuttingDown>>
  BY DEF FilesLeft, savedVars
<1>2. (Told(disk))' /\ (shuttingDown /\ Faithful(disk) => (Faithful(disk))')
  <2>1. PICK image : image = disk
    OBVIOUS
  <2>2. Told(image) /\ (Faithful(disk) => Faithful(image))
    BY <2>1 DEF FilesStand
  <2>3. (Told(image))' /\ (shuttingDown /\ Faithful(image) => (Faithful(image))')
    BY <2>2, FileStays
  <2> QED
    BY <1>1, <2>1, <2>2, <2>3
<1>3. ASSUME NEW w \in Saver
      PROVE  /\ (Told(snapshot[w]))'
             /\ shuttingDown /\ Faithful(snapshot[w]) => (Faithful(snapshot[w]))'
  <2>1. PICK image : image = snapshot[w]
    OBVIOUS
  <2>2. Told(image) /\ (Faithful(snapshot[w]) => Faithful(image))
    BY <2>1 DEF FilesStand
  <2>3. (Told(image))' /\ (shuttingDown /\ Faithful(image) => (Faithful(image))')
    BY <2>2, FileStays
  <2> QED
    BY <1>1, <2>1, <2>2, <2>3
<1> QED
  BY <1>1, <1>2, <1>3 DEF FilesStand

\* What /clear works on is not disturbed by a step that takes nothing from the trees.
LEMMA ClearStays ==
  ASSUME ClearHolds, clear.of \in Msg \cup {NoMsg}, clear' = clear, shaken \subseteq shaken',
         \A j \in Msg : Found(j) => (Found(j))',
         \A b \in Msg : Branch(b) \subseteq (Branch(b))'
  PROVE  ClearHolds'
<1>1. PICK b : b = clear.of
  OBVIOUS
<1>2. b # NoMsg => Found(b) /\ clear.nodes \subseteq Branch(b)
  BY <1>1 DEF ClearHolds
<1>3. b # NoMsg => (Found(b))' /\ clear.nodes \subseteq (Branch(b))'
  BY <1>1, <1>2
<1> QED
  BY <1>1, <1>3 DEF ClearHolds

LEMMA InitCInv == ChatInit => CInv
<1> SUFFICES ASSUME ChatInit
             PROVE  CInv
  OBVIOUS
<1> USE DEF ChatInit
<1>1. ChatTypes
  BY DEF ChatTypes, NoClear
<1>2. Admitted = {}
  BY DEF Admitted
<1>3. OnlyAdmitted /\ Rooted /\ Paired
  BY <1>2 DEF OnlyAdmitted, Rooted, Paired, NoClear
<1>4. ErasedIsOut /\ ClearHolds /\ UnshakenIsKept
  BY <1>2 DEF ErasedIsOut, ClearHolds, UnshakenIsKept, Kept, NoClear
<1>5. FilesStand
  <2>1. /\ disk.stored = [m \in Msg |-> {}] /\ \A w \in Saver : snapshot[w].stored = [m \in Msg |-> {}]
    BY DEF EmptyStore
  <2> QED
    BY <1>2, <2>1 DEF FilesStand, Told
<1> QED
  BY <1>1, <1>3, <1>4, <1>5 DEF CInv

\* handle_message up to its await.
LEMMA TakePromptKeeps ==
  ASSUME CInv, NEW m \in Msg, TakePrompt(m)
  PROVE  CInv'
<1>1. /\ intake[m] = "new" /\ ~ shuttingDown
      /\ intake' = [intake EXCEPT ![m] = "sending"]
      /\ msgLog' = msgLog \cup {<<"prompt", m>>}
      /\ UNCHANGED <<rootOf, inGraph, trees, lookup, stored, clear, shuttingDown, erased>>
      /\ UNCHANGED savedVars
      /\ shaken' = shaken \cup (Disturbed \cap {m})
  BY DEF TakePrompt, treeVars, quietVars
<1>2. PICK parent \in {NoMsg} \cup {id[2] : id \in {i \in lookup : Resolves(i)}} :
        parentOf' = [parentOf EXCEPT ![m] = parent]
  BY DEF TakePrompt
<1>3. parent \in Msg \cup {NoMsg} /\ (parent # NoMsg => Found(parent))
  BY <1>2, ResolvesIsFound DEF CInv
<1>4. parentOf[m] = NoMsg /\ m \notin Admitted
  BY <1>1 DEF CInv, OnlyAdmitted, Admitted
<1>5. /\ Admitted' = Admitted
      /\ \A k \in Msg : k # m => intake'[k] = intake[k] /\ parentOf'[k] = parentOf[k]
      /\ intake'[m] = "sending" /\ parentOf'[m] = parent
  BY <1>1, <1>2 DEF CInv, ChatTypes, Admitted
<1>6. TreesStand
  BY <1>1, <1>4, <1>5 DEF TreesStand
<1>7. shaken \subseteq shaken' /\ shaken' \subseteq Msg
  BY <1>1 DEF CInv, ChatTypes
<1>8. ChatTypes'
  BY <1>1, <1>2, <1>3, <1>7 DEF CInv, ChatTypes
<1>9. OnlyAdmitted'
  BY <1>1, <1>5 DEF CInv, OnlyAdmitted
<1>10. ErasedIsOut'
  BY <1>1, <1>6, StandKeeps DEF CInv, ErasedIsOut
<1>11. ClearHolds'
  <2>1. clear.of \in Msg \cup {NoMsg} /\ ClearHolds
    BY DEF CInv, ChatTypes
  <2> QED
    BY <1>1, <1>6, <1>7, <2>1, StandKeeps, ClearStays
<1>12. UnshakenIsKept'
  <2> SUFFICES ASSUME NEW k \in Msg, k \notin shaken'
               PROVE  (Kept(k))'
    BY DEF UnshakenIsKept
  <2>1. CASE k = m
    <3>1. /\ intake'[k] = "sending" /\ ~ shuttingDown' /\ <<"prompt", k>> \in msgLog'
          /\ parentOf'[k] = parent
      BY <1>1, <1>5, <2>1
    <3>2. parent # NoMsg => (Found(parent))'
      BY <1>3, <1>6, StandKeeps
    <3>3. parentOf'[k] # NoMsg => (Found(parentOf[k]))'
      BY <3>1, <3>2
    <3> QED
      BY <3>1, <3>3 DEF Kept
  <2>2. CASE k # m
    <3>1. Kept(k) /\ parentOf[k] \in Msg \cup {NoMsg}
      BY <1>7 DEF CInv, UnshakenIsKept, ChatTypes
    <3> QED
      BY <1>1, <1>5, <1>6, <2>2, <3>1, StandKeeps, KeptStays DEF AsBefore
  <2> QED
    BY <2>1, <2>2
<1>13. FilesStand'
  BY <1>1, <1>5, <1>7, FilesKeep DEF FilesLeft, CInv
<1> QED
  BY <1>6, <1>8, <1>9, <1>10, <1>11, <1>12, <1>13, StandKeeps DEF CInv

\* A step that leaves the trees, and saves a tree as it is or not at all.
LEMMA QuietKeeps ==
  ASSUME CInv, ChatTypes', UNCHANGED <<parentOf, rootOf, inGraph, trees, lookup>>,
         UNCHANGED <<savedVars, shuttingDown, erased>>,
         msgLog \subseteq msgLog', shaken \subseteq shaken', clear'.nodes \subseteq Admitted,
         Admitted' = Admitted, \A m \in Msg : intake'[m] = "new" => intake[m] = "new",
         \A r \in Msg : stored'[r] = stored[r] \/ (r \in trees /\ stored'[r] = TreeOf(r)),
         \A m \in Msg : m \in shaken' \/ AsBefore(m),
         ClearHolds'
  PROVE  CInv'
<1>1. TreesStand
  BY DEF TreesStand
<1>2. OnlyAdmitted'
  <2>1. ASSUME NEW r \in Msg, NEW m \in stored'[r]
        PROVE  m \in Admitted /\ rootOf[m] = r
    BY DEF CInv, OnlyAdmitted, TreeOf
  <2> QED
    BY <2>1 DEF CInv, OnlyAdmitted
<1>3. ErasedIsOut'
  <2>1. \A r \in Msg : erased \cap stored'[r] = {}
    BY DEF CInv, ErasedIsOut
  <2> QED
    BY <1>1, <2>1, StandKeeps DEF CInv, ErasedIsOut
<1>4. ASSUME NEW k \in Msg, k \notin shaken'
      PROVE  (Kept(k))'
  <2>1. Kept(k) /\ parentOf[k] \in Msg \cup {NoMsg}
    BY <1>4 DEF CInv, UnshakenIsKept, ChatTypes
  <2>2. ASSUME Found(k), k \in stored[rootOf[k]]
        PROVE  k \in stored'[rootOf[k]]
    <3>1. rootOf[k] \in Msg
      BY <2>2 DEF Found, CInv, OnlyAdmitted, Admitted
    <3>2. k \in TreeOf(rootOf[k])
      BY <2>2 DEF Found, TreeOf
    <3> QED
      BY <2>2, <3>1, <3>2
  <2>3. CASE intake'[k] = "admitted"
    <3>1. Found(k)
      BY <1>4, <2>1, <2>3 DEF AsBefore, Kept
    <3> QED
      BY <1>1, <1>4, <2>1, <2>2, <3>1, StandKeeps, KeptStays
  <2>4. CASE intake'[k] # "admitted"
    <3>1. (Found(parentOf[k]))' <=> Found(parentOf[k])
      BY DEF Found, PairIn
    <3> QED
      BY <1>4, <2>1, <2>4, <3>1 DEF Kept, AsBefore
  <2> QED
    BY <2>3, <2>4
<1>5. UnshakenIsKept'
  BY <1>4 DEF UnshakenIsKept
<1>6. FilesStand'
  BY FilesKeep DEF FilesLeft, CInv
<1> QED
  BY <1>1, <1>2, <1>3, <1>5, <1>6, StandKeeps DEF CInv

LEMMA IntakeKeeps ==
  ASSUME CInv, NEW m \in Msg, ShowStatus(m) \/ Refuse(m) \/ TaskSaves(m)
  PROVE  CInv'
<1>1. /\ UNCHANGED <<parentOf, rootOf, inGraph, trees, lookup>>
      /\ UNCHANGED <<savedVars, shuttingDown, erased, clear, shaken>>
      /\ msgLog \subseteq msgLog'
  BY DEF ShowStatus, Refuse, TaskSaves, treeVars, quietVars
<1>2. /\ intake' \in [Msg -> {"new", "sending", "shown", "admitted", "refused"}]
      /\ \A k \in Msg : /\ intake'[k] = "new" => intake[k] = "new"
                        /\ intake'[k] = "admitted" <=> intake[k] = "admitted"
      /\ \A k \in Msg : AsBefore(k) \/ (k = m /\ Refuse(m))
  BY DEF ShowStatus, Refuse, TaskSaves, CInv, ChatTypes, AsBefore
<1>3. Refuse(m) => m \in shaken
  <2> SUFFICES ASSUME Refuse(m), m \notin shaken
               PROVE  FALSE
    OBVIOUS
  <2>1. /\ intake[m] = "shown" /\ parentOf[m] \in Msg /\ ~ Resolves(<<"prompt", parentOf[m]>>)
    BY DEF Refuse, CInv, ChatTypes
  <2>2. Found(parentOf[m])
    BY <2>1, ChatAssumption DEF CInv, UnshakenIsKept, Kept, ChatAssumption
  <2> QED
    BY <2>1, <2>2, ResolvesIsFound DEF CInv
<1>4. /\ stored' \in [Msg -> SUBSET Msg]
      /\ \A r \in Msg : stored'[r] = stored[r] \/ (r \in trees /\ stored'[r] = TreeOf(r))
  <2>1. inGraph \subseteq Msg /\ stored \in [Msg -> SUBSET Msg]
    BY DEF CInv, OnlyAdmitted, Admitted, ChatTypes
  <2>2. CASE stored' = stored
    BY <2>1, <2>2
  <2>3. CASE TaskSaves(m) /\ stored' # stored
    <3>1. PICK r : /\ r = rootOf[m] /\ r \in trees
                   /\ stored' = [stored EXCEPT ![r] = TreeOf(r)]
      BY <2>3 DEF TaskSaves, SaveTree, Resolves
    <3>2. TreeOf(r) \in SUBSET Msg
      BY <2>1 DEF TreeOf
    <3> QED
      BY <2>1, <3>1, <3>2
  <2> QED
    BY <2>2, <2>3 DEF ShowStatus, Refuse
<1>5. Admitted' = Admitted
  BY <1>2 DEF Admitted
<1>6. ChatTypes'
  BY <1>1, <1>2, <1>4 DEF CInv, ChatTypes
<1>7. ClearHolds'
  <2>1. TreesStand
    BY <1>1, <1>5 DEF TreesStand
  <2> QED
    BY <1>1, <2>1, StandKeeps, ClearStays DEF CInv, ChatTypes
<1>8. clear'.nodes \subseteq Admitted
  BY <1>1 DEF CInv, OnlyAdmitted
<1> QED
  BY <1>1, <1>2, <1>3, <1>4, <1>5, <1>6, <1>7, <1>8, QuietKeeps

ClearIsSet ==
    /\ clear' \in [at : {"none", "stopping", "deleting"}, of : Msg \cup {NoMsg},
                  nodes : SUBSET Msg]
    /\ shaken' \subseteq Msg /\ clear'.nodes \subseteq Admitted /\ ClearHolds'

\* /clear as it comes, and as it waits for the tasks that it cancelled.
LEMMA ClearComes ==
  ASSUME CInv, ClearAll \/ ClearStopped \/ \E id \in Ids(Msg) : ClearBranch(id)
  PROVE  CInv'
<1>1. /\ UNCHANGED <<intake, parentOf, rootOf, inGraph, trees, lookup>>
      /\ UNCHANGED <<savedVars, shuttingDown, erased, stored, msgLog>>
      /\ shaken \subseteq shaken'
  BY DEF ClearAll, ClearStopped, ClearBranch, treeVars, quietVars
<1>2. TreesStand /\ Admitted' = Admitted /\ inGraph \subseteq Admitted /\ Admitted \subseteq Msg
  BY <1>1 DEF TreesStand, CInv, OnlyAdmitted, Admitted
<1>3. ClearIsSet
  <2>1. CASE ClearAll
    <3>1. clear' = [at |-> "stopping", of |-> NoMsg,
                    nodes |-> inGraph \cap {i[2] : i \in lookup}]
      BY <2>1 DEF ClearAll
    <3>2. clear'.nodes \subseteq Admitted /\ clear'.of = NoMsg
      BY <1>2, <3>1
    <3>3. shaken' \subseteq Msg /\ Admitted \subseteq shaken'
      BY <2>1 DEF ClearAll, CInv, ChatTypes, Admitted
    <3> QED
      BY <1>2, <3>1, <3>2, <3>3 DEF ClearIsSet, ClearHolds
  <2>2. ASSUME NEW id \in Ids(Msg), ClearBranch(id)
        PROVE  ClearIsSet
    <3>1. /\ Resolves(id) /\ id \in lookup
          /\ clear' = [at |-> "stopping", of |-> id[2], nodes |-> Branch(id[2])]
          /\ shaken' = shaken \cup Branch(id[2]) \cup InIntake(Branch(id[2]))
      BY <2>2 DEF ClearBranch, Resolves
    <3>2. PICK b \in Msg : b = id[2] /\ Found(b)
      BY <3>1, ResolvesIsFound DEF CInv
    <3>3. Branch(b) \subseteq Admitted /\ Branch(b) \subseteq (Branch(b))' /\ (Found(b))'
      BY <1>2, <3>2, StandKeeps DEF Branch, TreeOf
    <3>4. shaken' \subseteq Msg
      BY <1>2, <3>1, <3>2, <3>3 DEF CInv, ChatTypes, InIntake
    <3>5. clear'.of = b /\ clear'.nodes = Branch(b) /\ Branch(b) \subseteq shaken'
      BY <3>1, <3>2
    <3>6. ClearHolds'
      BY <3>3, <3>5 DEF ClearHolds
    <3> QED
      BY <1>2, <3>1, <3>2, <3>3, <3>4, <3>5, <3>6 DEF ClearIsSet
  <2>3. CASE ClearStopped
    <3>1. /\ clear' = [clear EXCEPT !.at = "deleting"] /\ shaken' = shaken
          /\ clear \in [at : {"none", "stopping", "deleting"}, of : Msg \cup {NoMsg},
                        nodes : SUBSET Msg]
      BY <2>3 DEF ClearStopped, CInv, ChatTypes
    <3>2. clear'.of = clear.of /\ clear'.nodes = clear.nodes
      BY <3>1
    <3>3. PICK b : b = clear.of /\ b \in Msg \cup {NoMsg}
      BY <3>1
    <3>4. b # NoMsg => Found(b) /\ clear.nodes \subseteq Branch(b)
      BY <3>3 DEF CInv, ClearHolds
    <3>5. b # NoMsg => (Found(b))' /\ clear.nodes \subseteq (Branch(b))'
      BY <1>2, <3>3, <3>4, StandKeeps
    <3>6. ClearHolds'
      BY <3>1, <3>2, <3>3, <3>5 DEF CInv, ClearHolds
    <3> QED
      BY <3>1, <3>2, <3>6 DEF ClearIsSet, CInv, OnlyAdmitted, ChatTypes
  <2> QED
    BY <2>1, <2>2, <2>3
<1>4. ChatTypes'
  BY <1>1, <1>3 DEF ClearIsSet, CInv, ChatTypes
<1>5. \A m \in Msg : AsBefore(m)
  BY <1>1 DEF AsBefore
<1> QED
  BY <1>1, <1>2, <1>3, <1>4, <1>5, QuietKeeps DEF ClearIsSet

\* What the store holds may become a file: it has what the trees have.
LEMMA StoreIsFaithful ==
  ASSUME CInv, NEW image, image = [stored |-> stored, msgLog |-> msgLog]
  PROVE  Told(image) /\ Faithful(image)
<1>1. image.stored = stored /\ image.msgLog = msgLog
  OBVIOUS
<1>2. Told(image)
  BY <1>1 DEF CInv, ChatTypes, OnlyAdmitted, Told
<1>3. ASSUME NEW m \in Admitted, m \notin shaken
      PROVE  m \in image.stored[rootOf[m]] /\ PairIn(m, image.msgLog)
  BY <1>1, <1>3 DEF CInv, UnshakenIsKept, Kept, Admitted
<1>4. \A r \in Msg : erased \cap image.stored[r] = {}
  BY <1>1 DEF CInv, ErasedIsOut
<1> QED
  BY <1>2, <1>3, <1>4 DEF Faithful

\* The file is written, or a snapshot taken: by a timer's thread, or as the shutdown begins.
LEMMA FileKeeps ==
  ASSUME CInv, Shutdown \/ \E w \in Saver : TakeSnapshot(w) \/ ThreadWrites(w)
  PROVE  CInv'
<1>1. /\ UNCHANGED <<intake, parentOf, rootOf, inGraph, trees, lookup>>
      /\ UNCHANGED <<clear, erased, stored, msgLog>>
      /\ shaken \subseteq shaken' /\ shaken' \subseteq Msg /\ shuttingDown' \in BOOLEAN
  BY DEF TakeSnapshot, ThreadWrites, Shutdown, treeVars, quietVars, CInv, ChatTypes
<1>2. PICK now : now = [stored |-> stored, msgLog |-> msgLog]
  OBVIOUS
<1>3. TreesStand /\ Admitted' = Admitted
  BY <1>1 DEF TreesStand, Admitted
<1>4. ChatTypes'
  BY <1>1 DEF CInv, ChatTypes
<1>5. OnlyAdmitted'
  BY <1>1, <1>3 DEF CInv, OnlyAdmitted, TreesStand
<1>6. ErasedIsOut'
  BY <1>1, <1>3, StandKeeps DEF CInv, ErasedIsOut
<1>7. ClearHolds'
  BY <1>1, <1>3, StandKeeps, ClearStays DEF CInv, ChatTypes
<1>8. ASSUME NEW k \in Msg, k \notin shaken'
      PROVE  (Kept(k))'
  <2>1. Kept(k)
    BY <1>1, <1>8 DEF CInv, UnshakenIsKept
  <2>2. intake[k] \in {"sending", "shown"} => shuttingDown' = shuttingDown
    BY <1>8 DEF TakeSnapshot, ThreadWrites, Shutdown, quietVars
  <2>3. \A j : (Found(j))' <=> Found(j)
    BY <1>3, StandKeeps
  <2>4. PICK p : p = parentOf[k]
    OBVIOUS
  <2>5. (Found(parentOf[k]))' <=> Found(parentOf[k])
    BY <1>1, <2>3, <2>4
  <2> QED
    BY <1>1, <2>1, <2>2, <2>3, <2>5 DEF Kept, PairIn
<1>9. UnshakenIsKept'
  BY <1>8 DEF UnshakenIsKept
<1>10. ASSUME NEW image, Told(image)
       PROVE  (Told(image))' /\ (Faithful(image) => (Faithful(image))')
  BY <1>1, <1>3, <1>10 DEF Told, Faithful, PairIn
<1>11. (Told(now))' /\ (Faithful(now))'
  BY <1>2, <1>10, StoreIsFaithful
<1>12. /\ (Told(disk) => \A f : f = disk => (Told(f))')
       /\ \A w \in Saver : \A f : f = snapshot[w] => (Told(f))'
  BY <1>10 DEF CInv, FilesStand
<1>13. FilesStand'
  <2>1. CASE Shutdown
    <3>1. /\ \/ disk' = now /\ outdated' = FALSE
             \/ disk' = disk /\ outdated' = TRUE
          /\ writing' = [w \in Saver |-> IF writing[w] = "fresh" THEN "late" ELSE writing[w]]
          /\ UNCHANGED snapshot
      BY <1>2, <2>1 DEF Shutdown, LoopWrites
    <3>2. /\ writing' \in [Saver -> {"no", "fresh", "late"}]
          /\ \A w \in Saver : writing'[w] # "fresh"
      BY <3>1 DEF CInv, FilesStand
    <3>3. (Told(disk))' /\ (outdated' \/ (Faithful(disk))')
      <4>1. PICK image : image = disk'
        OBVIOUS
      <4>2. (Told(image))' /\ (outdated' \/ (Faithful(image))')
        BY <1>11, <1>12, <3>1, <4>1 DEF CInv, FilesStand
      <4> QED
        BY <4>1, <4>2
    <3>4. ASSUME NEW w \in Saver
          PROVE  (Told(snapshot[w]))'
      <4>1. PICK image : image = snapshot[w]
        OBVIOUS
      <4> QED
        BY <1>12, <3>1, <4>1
    <3> QED
      BY <3>1, <3>2, <3>3, <3>4 DEF CInv, FilesStand
  <2>2. ASSUME NEW w \in Saver, TakeSnapshot(w)
        PROVE  FilesStand'
    <3>1. /\ writing' = [writing EXCEPT ![w] = "fresh"]
          /\ snapshot' = [snapshot EXCEPT ![w] = now]
          /\ UNCHANGED <<disk, outdated, shuttingDown>>
      BY <1>2, <2>2 DEF TakeSnapshot, quietVars
    <3>2. (Told(disk))' /\ (Faithful(disk) => (Faithful(disk))')
      <4>1. PICK image : image = disk
        OBVIOUS
      <4> QED
        BY <1>10, <3>1, <4>1 DEF CInv, FilesStand
    <3>3. ASSUME NEW v \in Saver
          PROVE  /\ (Told(snapshot[v]))'
                 /\ shuttingDown /\ writing'[v] = "fresh" => (Faithful(snapshot[v]))'
      <4>1. PICK image : image = snapshot'[v]
        OBVIOUS
      <4>2. CASE v = w
        BY <1>11, <3>1, <4>1, <4>2 DEF CInv, FilesStand
      <4>3. CASE v # w
        BY <1>10, <3>1, <4>1, <4>3 DEF CInv, FilesStand
      <4> QED
        BY <4>2, <4>3
    <3> QED
      BY <3>1, <3>2, <3>3 DEF CInv, FilesStand
  <2>3. ASSUME NEW w \in Saver, ThreadWrites(w)
        PROVE  FilesStand'
    <3>1. /\ \/ disk' = snapshot[w] /\ outdated' = (writing[w] = "late")
             \/ UNCHANGED <<disk, outdated>>
          /\ writing[w] # "no" /\ writing' = [writing EXCEPT ![w] = "no"]
          /\ snapshot' = [snapshot EXCEPT ![w] = EmptyStore]
          /\ UNCHANGED shuttingDown
      BY <2>3 DEF ThreadWrites, quietVars
    <3>2. (Told(disk))' /\ (shuttingDown => outdated' \/ (Faithful(disk))')
      <4>1. PICK image : image = disk'
        OBVIOUS
      <4>2. CASE disk' = snapshot[w] /\ outdated' = (writing[w] = "late")
        <5>1. image = snapshot[w] /\ writing[w] \in {"fresh", "late"}
          BY <3>1, <4>1, <4>2 DEF CInv, FilesStand
        <5>2. Told(image) /\ (shuttingDown /\ writing[w] = "fresh" => Faithful(image))
          BY <5>1 DEF CInv, FilesStand
        <5> QED
          BY <1>10, <4>1, <4>2, <5>1, <5>2
      <4>3. CASE UNCHANGED <<disk, outdated>>
        <5>1. image = disk /\ Told(image) /\ (shuttingDown => outdated \/ Faithful(image))
          BY <4>1, <4>3 DEF CInv, FilesStand
        <5> QED
          BY <1>10, <4>1, <4>3, <5>1
      <4> QED
        BY <3>1, <4>2, <4>3
    <3>3. (Told(EmptyStore))'
      BY DEF Told, EmptyStore
    <3>4. ASSUME NEW v \in Saver
          PROVE  /\ (Told(snapshot[v]))'
                 /\ shuttingDown /\ writing'[v] = "fresh" => (Faithful(snapshot[v]))'
      <4>1. PICK image : image = snapshot'[v]
        OBVIOUS
      <4>2. CASE v = w
        BY <3>1, <3>3, <4>2 DEF CInv, FilesStand
      <4>3. CASE v # w
        BY <1>10, <3>1, <4>1, <4>3 DEF CInv, FilesStand
      <4> QED
        BY <4>2, <4>3
    <3> QED
      BY <3>1, <3>2, <3>4 DEF CInv, FilesStand
  <2> QED
    BY <2>1, <2>2, <2>3
<1> QED
  BY <1>3, <1>4, <1>5, <1>6, <1>7, <1>9, <1>13, StandKeeps DEF CInv

\* add_to_tree or create_tree, with the save of the tree.
LEMMA AdmitKeeps ==
  ASSUME CInv, NEW m \in Msg, Admit(m)
  PROVE  CInv'
<1>1. /\ intake[m] = "shown" /\ intake' = [intake EXCEPT ![m] = "admitted"]
      /\ inGraph' = inGraph \cup {m} /\ lookup' = lookup \cup Ids({m})
      /\ msgLog' = msgLog \cup {<<"status", m>>}
      /\ shaken' = shaken \cup (Disturbed \cap {m})
      /\ UNCHANGED <<parentOf, savedVars, clear, shuttingDown, erased>>
      /\ parentOf[m] = NoMsg \/ Resolves(<<"prompt", parentOf[m]>>)
  BY DEF Admit, quietVars
<1>2. PICK r : /\ r = IF parentOf[m] = NoMsg THEN m ELSE rootOf[parentOf[m]]
               /\ rootOf' = [rootOf EXCEPT ![m] = r] /\ trees' = trees \cup {r}
               /\ stored' = [stored EXCEPT ![r] = TreeOf(r) \cup {m}]
  BY DEF Admit
<1>3. /\ m \notin Admitted /\ m \notin erased /\ m \notin inGraph /\ m \notin trees
      /\ inGraph \subseteq Admitted /\ trees \subseteq Admitted /\ Admitted \subseteq Msg
      /\ rootOf \in [Msg -> Msg \cup {NoMsg}] /\ stored \in [Msg -> SUBSET Msg]
  BY <1>1 DEF CInv, ChatTypes, OnlyAdmitted, Admitted
<1>4. \/ r = m /\ parentOf[m] = NoMsg
      \/ /\ r = rootOf[parentOf[m]] /\ r \in trees /\ rootOf[r] = r /\ Found(parentOf[m])
         /\ parentOf[m] \in Admitted /\ parentOf[m] \in Thread(r)
  <2>1. CASE parentOf[m] = NoMsg
    BY <1>2, <2>1
  <2>2. CASE parentOf[m] # NoMsg
    <3>1. parentOf[m] \in Msg /\ Found(parentOf[m])
      BY <1>1, <2>2, ResolvesIsFound DEF CInv, ChatTypes
    <3>2. r = rootOf[parentOf[m]] /\ r \in trees /\ parentOf[m] \in Admitted
      BY <1>2, <1>3, <2>2, <3>1 DEF Found
    <3> QED
      BY <3>1, <3>2 DEF CInv, OnlyAdmitted, Rooted
  <2> QED
    BY <2>1, <2>2
<1>5. r \in Msg /\ (r = m \/ r \in Admitted)
  BY <1>3, <1>4
<1>6. /\ Admitted' = Admitted \cup {m}
      /\ \A k \in Msg : k # m => intake'[k] = intake[k] /\ rootOf'[k] = rootOf[k]
      /\ intake'[m] = "admitted" /\ rootOf'[m] = r
  BY <1>1, <1>2, <1>3 DEF CInv, ChatTypes, Admitted
<1>7. \A k \in Msg : Thread(k) \subseteq (Thread(k))'
  BY <1>1, ThreadGrows
<1>8. \A q : (TreeOf(q))' = IF q = r THEN TreeOf(q) \cup {m} ELSE TreeOf(q)
  BY <1>1, <1>3, <1>6 DEF TreeOf
<1>9. r = m => TreeOf(r) = {}
  <2> SUFFICES ASSUME r = m, NEW x \in inGraph, rootOf[x] = m
               PROVE  FALSE
    BY DEF TreeOf
  <2> QED
    BY <1>3 DEF CInv, Rooted
<1>10. Rooted'
  <2> SUFFICES ASSUME NEW x \in Admitted \cup {m}
               PROVE  /\ rootOf'[x] \in Admitted' /\ rootOf'[rootOf'[x]] = rootOf'[x]
                      /\ (x \in Thread(rootOf[x]))'
    BY <1>6 DEF Rooted
  <2>1. CASE x = m
    <3>1. m \in Thread(r)
      BY <1>4, <1>5, ThreadOf
    <3>2. (m \in Thread(r))'
      BY <1>5, <1>7, <3>1
    <3> QED
      BY <1>3, <1>4, <1>5, <1>6, <2>1, <3>2
  <2>2. CASE x # m
    <3>1. /\ x \in Admitted /\ rootOf[x] \in Admitted /\ rootOf[rootOf[x]] = rootOf[x]
          /\ x \in Thread(rootOf[x])
      BY <2>2 DEF CInv, Rooted
    <3>2. PICK q \in Msg : q = rootOf[x]
      BY <1>3, <3>1
    <3>3. (x \in Thread(q))'
      BY <1>7, <3>1, <3>2
    <3> QED
      BY <1>3, <1>6, <2>2, <3>1, <3>2, <3>3
  <2> QED
    BY <2>1, <2>2
<1>11. TreeOf(r) \cup {m} \subseteq Msg
  BY <1>3 DEF TreeOf
<1>12. ChatTypes'
  <2>1. lookup' \subseteq Ids(Msg)
    BY <1>1 DEF CInv, ChatTypes, Ids
  <2>2. shaken' \subseteq Msg
    BY <1>1 DEF CInv, ChatTypes
  <2>3. stored' \in [Msg -> SUBSET Msg]
    BY <1>2, <1>3, <1>5, <1>11
  <2>4. rootOf' \in [Msg -> Msg \cup {NoMsg}]
    BY <1>2, <1>3, <1>5
  <2> QED
    BY <1>1, <2>1, <2>2, <2>3, <2>4 DEF CInv, ChatTypes
<1>13. OnlyAdmitted'
  <2>1. (inGraph \cup trees \cup erased \cup clear.nodes)' \subseteq Admitted'
    BY <1>1, <1>2, <1>5, <1>6 DEF CInv, OnlyAdmitted
  <2>2. \A k \in Msg : intake'[k] = "new" => parentOf'[k] = NoMsg
    BY <1>1, <1>6 DEF CInv, OnlyAdmitted
  <2>3. \A q \in trees' : rootOf'[q] = q
    BY <1>2, <1>3, <1>4, <1>6 DEF CInv, OnlyAdmitted
  <2>4. ASSUME NEW q \in Msg, NEW x \in stored'[q]
        PROVE  x \in Admitted' /\ rootOf'[x] = q
    <3>1. CASE x \in stored[q]
      BY <1>3, <1>6, <3>1 DEF CInv, OnlyAdmitted
    <3>2. CASE x \notin stored[q]
      <4>1. q = r /\ x \in TreeOf(r) \cup {m}
        BY <1>1, <1>2, <1>3, <2>4, <3>2
      <4> QED
        BY <1>3, <1>6, <4>1 DEF TreeOf
    <3> QED
      BY <3>1, <3>2
  <2> QED
    BY <2>1, <2>2, <2>3, <2>4 DEF OnlyAdmitted
<1>14. /\ \A k : <<"prompt", k>> \in lookup' <=> <<"prompt", k>> \in lookup \/ k = m
       /\ \A k : <<"status", k>> \in lookup' <=> <<"status", k>> \in lookup \/ k = m
  BY <1>1, IdsOf
<1>15. Paired'
  BY <1>14 DEF CInv, Paired
<1>16. ErasedIsOut'
  <2>1. \A q \in trees' : TreeOf(q) \cap erased = {}
    BY <1>2, <1>4, <1>9 DEF CInv, ErasedIsOut
  <2>2. \A q \in trees' : (TreeOf(q))' \cap erased' = {}
    BY <1>1, <1>3, <1>8, <2>1
  <2>3. ASSUME NEW q \in Msg
        PROVE  erased' \cap stored'[q] = {}
    <3>1. r \in trees'
      BY <1>2
    <3> QED
      BY <1>1, <1>2, <1>3, <2>1, <3>1 DEF CInv, ErasedIsOut
  <2>4. \A k \in erased' : <<"prompt", k>> \notin lookup'
    BY <1>1, <1>3, <1>14 DEF CInv, ErasedIsOut
  <2> QED
    BY <2>2, <2>3, <2>4 DEF ErasedIsOut
<1>17. \A j \in Msg : Found(j) => (Found(j))'
  BY <1>1, <1>2, <1>3, <1>6, <1>14 DEF Found, PairIn
<1>18. \A b \in Admitted : Branch(b) \subseteq (Branch(b))'
  <2> SUFFICES ASSUME NEW b \in Admitted, NEW x \in Branch(b)
               PROVE  x \in (Branch(b))'
    OBVIOUS
  <2>1. x \in Thread(b) /\ x \in TreeOf(rootOf[b])
    BY DEF Branch
  <2>2. x \in (Thread(b))'
    BY <1>3, <1>7, <2>1
  <2>3. PICK q : q = rootOf[b]
    OBVIOUS
  <2>4. x \in (TreeOf(q))' /\ rootOf'[b] = q
    BY <1>3, <1>6, <1>8, <2>1, <2>3
  <2>5. x \in (TreeOf(rootOf[b]))'
    BY <2>4
  <2> QED
    BY <2>2, <2>5 DEF Branch
<1>19. ClearHolds'
  <2>1. PICK b : b = clear.of /\ b \in Msg \cup {NoMsg}
    BY DEF CInv, ChatTypes
  <2>2. b # NoMsg => Found(b) /\ b \in Admitted /\ clear.nodes \subseteq Branch(b)
    BY <1>3, <2>1 DEF CInv, ClearHolds, Found
  <2>3. b # NoMsg => (Found(b))' /\ clear.nodes \subseteq (Branch(b))'
    BY <1>17, <1>18, <2>1, <2>2
  <2> QED
    BY <1>1, <2>1, <2>3 DEF CInv, ClearHolds
<1>20. ASSUME NEW k \in Msg, k \notin shaken'
       PROVE  (Kept(k))'
  <2>1. Kept(k) /\ parentOf[k] \in Msg \cup {NoMsg}
    BY <1>1, <1>20 DEF CInv, UnshakenIsKept, ChatTypes
  <2>2. CASE k = m
    <3>1. ~ shuttingDown
      BY <1>1, <1>20, <2>2 DEF Disturbed
    <3>2. <<"prompt", m>> \in msgLog
      BY <1>1, <2>1, <2>2 DEF Kept
    <3>3. (Found(m))'
      <4>1. <<"prompt", m>> \in lookup' /\ <<"status", m>> \in lookup'
        BY <1>14
      <4>2. rootOf'[m] \in trees' /\ m \in inGraph'
        BY <1>1, <1>2, <1>6
      <4> QED
        BY <4>1, <4>2 DEF Found, PairIn
    <3>4. m \in stored'[rootOf'[m]]
      BY <1>2, <1>3, <1>5, <1>6
    <3> QED
      BY <1>1, <1>6, <2>2, <3>1, <3>2, <3>3, <3>4 DEF Kept, PairIn
  <2>3. CASE k # m
    <3>1. AsBefore(k) /\ rootOf'[k] = rootOf[k]
      BY <1>6, <2>3 DEF AsBefore
    <3>2. CASE intake[k] = "admitted"
      <4>1. k \in TreeOf(rootOf[k])
        BY <2>1, <3>2 DEF Kept, Found, TreeOf
      <4>2. k \in stored'[rootOf[k]]
        BY <1>2, <1>3, <2>1, <3>2, <4>1 DEF Kept
      <4> QED
        BY <1>1, <1>17, <2>1, <3>1, <4>2, KeptStays
    <3>3. CASE intake[k] # "admitted"
      <4>1. PICK p : p = parentOf[k]
        OBVIOUS
      <4>2. Found(parentOf[k]) /\ parentOf[k] # NoMsg => (Found(parentOf[k]))'
        BY <1>1, <1>17, <2>1, <4>1
      <4>3. intake'[k] # "admitted"
        BY <3>1, <3>3 DEF AsBefore
      <4> QED
        BY <1>1, <2>1, <3>1, <4>2, <4>3 DEF Kept, AsBefore
    <3> QED
      BY <3>2, <3>3
  <2> QED
    BY <2>2, <2>3
<1>21. UnshakenIsKept'
  BY <1>20 DEF UnshakenIsKept
<1>22. FilesStand'
  <2>1. shuttingDown => m \in shaken'
    BY <1>1 DEF Disturbed
  <2>2. Admitted' \subseteq Admitted \cup {m}
    BY <1>6
  <2> QED
    BY <1>1, <1>3, <1>6, <2>1, <2>2, FilesKeep DEF FilesLeft, CInv
<1> QED
  BY <1>10, <1>12, <1>13, <1>15, <1>16, <1>19, <1>21, <1>22 DEF CInv

\* clear_all, with a new manager.
LEMMA AllClearedKeeps ==
  ASSUME CInv, AllCleared
  PROVE  CInv'
<1>1. /\ UNCHANGED <<intake, parentOf, rootOf, inGraph, shuttingDown>>
      /\ clear' = [at |-> "none", of |-> NoMsg, nodes |-> {}]
      /\ stored' = [m \in Msg |-> {}]
      /\ trees' = {} /\ lookup' = {} /\ erased' = erased \cup clear.nodes
      /\ shaken' = shaken \cup {m \in Msg : intake[m] # "new"}
  BY DEF AllCleared, NoClear, EmptyStore
<1>2. Admitted' = Admitted
  BY <1>1 DEF Admitted
<1>3. clear'.of = NoMsg /\ clear'.nodes = {}
  BY <1>1
<1>4. ChatTypes'
  BY <1>1, <1>3 DEF CInv, ChatTypes
<1>5. OnlyAdmitted'
  BY <1>1, <1>2, <1>3 DEF CInv, OnlyAdmitted
<1>6. Rooted'
  BY <1>1, <1>2, RootedKeeps DEF CInv
<1>7. Paired' /\ ErasedIsOut'
  BY <1>1 DEF Paired, ErasedIsOut
<1>8. ClearHolds'
  BY <1>3 DEF ClearHolds
<1>9. UnshakenIsKept'
  <2> SUFFICES ASSUME NEW k \in Msg, k \notin shaken'
               PROVE  (Kept(k))'
    BY DEF UnshakenIsKept
  <2>1. intake'[k] = "new"
    BY <1>1
  <2> QED
    BY <2>1 DEF Kept
<1>10. FilesStand'
  <2>1. /\ \/ disk' = EmptyStore
           \/ disk' = disk /\ outdated' = TRUE
        /\ writing' = [w \in Saver |-> IF writing[w] = "fresh" THEN "late" ELSE writing[w]]
        /\ UNCHANGED snapshot
    BY DEF AllCleared, LoopWrites
  <2>2. /\ writing' \in [Saver -> {"no", "fresh", "late"}]
        /\ \A w \in Saver : writing'[w] # "fresh"
    BY <2>1 DEF CInv, FilesStand
  <2>3. /\ (Told(EmptyStore))' /\ EmptyStore.stored = [r \in Msg |-> {}]
        /\ \A m \in Admitted' : m \in shaken'
    BY <1>1 DEF Told, EmptyStore, Admitted
  <2>4. (Faithful(EmptyStore))'
    BY <2>3 DEF Faithful
  <2>5. ASSUME NEW image, Told(image)
        PROVE  (Told(image))'
    BY <1>1, <1>2, <2>5 DEF Told
  <2>6. (Told(disk))' /\ (outdated' \/ (Faithful(disk))')
    <3>1. CASE disk' = EmptyStore
      BY <2>3, <2>4, <3>1 DEF Told, Faithful
    <3>2. CASE disk' = disk /\ outdated' = TRUE
      <4>1. PICK image : image = disk
        OBVIOUS
      <4> QED
        BY <2>5, <3>2, <4>1 DEF CInv, FilesStand
    <3> QED
      BY <2>1, <3>1, <3>2
  <2>7. ASSUME NEW w \in Saver
        PROVE  (Told(snapshot[w]))'
    <3>1. PICK image : image = snapshot[w]
      OBVIOUS
    <3> QED
      BY <2>1, <2>5, <3>1 DEF CInv, FilesStand
  <2> QED
    BY <2>1, <2>2, <2>6, <2>7 DEF CInv, FilesStand
<1> QED
  BY <1>4, <1>5, <1>6, <1>7, <1>8, <1>9, <1>10 DEF CInv

\* remove_branch, with the store's part.
LEMMA BranchClearedKeeps ==
  ASSUME CInv, BranchCleared
  PROVE  CInv'
<1>1. PICK b \in Msg : b = clear.of /\ Found(b) /\ clear.nodes \subseteq Branch(b)
  BY DEF BranchCleared, CInv, ClearHolds, ChatTypes
<1>2. PICK gone : gone = Branch(b)
  OBVIOUS
<1>3. Resolves(<<"prompt", b>>)
  BY <1>1, ResolvesIsFound DEF CInv
<1>4. /\ inGraph' = IF b = rootOf[b] THEN inGraph ELSE inGraph \ gone
      /\ trees' = trees \ {b} /\ lookup' = lookup \ Ids(gone)
      /\ stored' = [stored EXCEPT ![rootOf[b]] = @ \ gone]
      /\ shaken' = shaken \cup gone \cup InIntake(gone)
      /\ msgLog' = msgLog \ Ids(clear.nodes)
      /\ erased' = IF shuttingDown THEN erased ELSE erased \cup clear.nodes
      /\ UNCHANGED <<intake, parentOf, rootOf, savedVars, shuttingDown>>
      /\ clear' = [at |-> "none", of |-> NoMsg, nodes |-> {}]
  BY <1>1, <1>2, <1>3 DEF BranchCleared, NoClear
<1>5. clear'.of = NoMsg /\ clear'.nodes = {}
  BY <1>4
<1>6. Admitted' = Admitted
  BY <1>4 DEF Admitted
<1>7. /\ clear.nodes \subseteq gone /\ gone \subseteq TreeOf(rootOf[b])
      /\ gone \subseteq Admitted /\ gone \subseteq inGraph
      /\ Admitted \subseteq Msg /\ rootOf[b] \in Msg
      /\ \A m \in gone : rootOf[m] = rootOf[b]
  BY <1>1, <1>2 DEF Branch, TreeOf, CInv, OnlyAdmitted, Admitted, Found
<1>8. /\ \A r \in Msg : stored'[r] = IF r = rootOf[b] THEN stored[r] \ gone ELSE stored[r]
      /\ stored' \in [Msg -> SUBSET Msg]
  BY <1>4, <1>7 DEF CInv, ChatTypes
<1>9. /\ \A k : <<"prompt", k>> \in lookup' <=> <<"prompt", k>> \in lookup /\ k \notin gone
      /\ \A k : <<"status", k>> \in lookup' <=> <<"status", k>> \in lookup /\ k \notin gone
  BY <1>4, IdsOf
<1>10. ChatTypes'
  <2>1. shaken' \subseteq Msg
    BY <1>4, <1>7 DEF CInv, ChatTypes, InIntake
  <2>2. clear' \in [at : {"none", "stopping", "deleting"}, of : Msg \cup {NoMsg},
                    nodes : SUBSET Msg]
    BY <1>4
  <2> QED
    BY <1>4, <1>8, <2>1, <2>2 DEF CInv, ChatTypes
<1>11. OnlyAdmitted'
  <2>1. (inGraph \cup trees \cup erased \cup clear.nodes)' \subseteq Admitted'
    BY <1>4, <1>5, <1>6, <1>7 DEF CInv, OnlyAdmitted
  <2>2. ASSUME NEW q \in Msg, NEW x \in stored'[q]
        PROVE  x \in Admitted' /\ rootOf'[x] = q
    BY <1>4, <1>6, <1>8 DEF CInv, OnlyAdmitted
  <2> QED
    BY <1>4, <2>1, <2>2 DEF CInv, OnlyAdmitted
<1>12. Rooted'
  BY <1>4, <1>6, RootedKeeps DEF CInv
<1>13. Paired'
  BY <1>9 DEF CInv, Paired
<1>14. ErasedIsOut'
  <2>1. erased' \subseteq erased \cup gone
    BY <1>4, <1>7
  <2>2. ASSUME NEW q \in Msg
        PROVE  erased' \cap stored'[q] = {}
    <3> SUFFICES ASSUME NEW x \in erased', x \in stored'[q]
                 PROVE  FALSE
      OBVIOUS
    <3>1. x \in stored[q] /\ (q = rootOf[b] => x \notin gone)
      BY <1>8
    <3>2. x \in gone
      BY <2>1, <3>1 DEF CInv, ErasedIsOut
    <3>3. rootOf[x] = q
      BY <3>1 DEF CInv, OnlyAdmitted
    <3> QED
      BY <1>7, <3>1, <3>2, <3>3
  <2>3. \A k \in erased' : <<"prompt", k>> \notin lookup'
    BY <1>9, <2>1 DEF CInv, ErasedIsOut
  <2>4. ASSUME NEW q \in trees', NEW x \in (TreeOf(q))', x \in erased'
        PROVE  FALSE
    <3>1. /\ q \in trees /\ q # b /\ rootOf[x] = q /\ x \in inGraph
          /\ b # rootOf[b] => x \notin gone
      BY <1>4, <2>4 DEF TreeOf
    <3>2. x \notin erased
      BY <3>1 DEF CInv, ErasedIsOut, TreeOf
    <3>3. x \in gone
      BY <2>1, <2>4, <3>2
    <3> QED
      BY <1>7, <3>1, <3>3
  <2> QED
    BY <2>2, <2>3, <2>4 DEF ErasedIsOut
<1>15. ClearHolds'
  BY <1>5 DEF ClearHolds
<1>16. ASSUME NEW j \in Msg, Found(j), j \notin gone
       PROVE  (Found(j))'
  <2>1. rootOf[j] # b
    <3> SUFFICES ASSUME rootOf[j] = b
                 PROVE  FALSE
      OBVIOUS
    <3>1. j \in Admitted /\ j \in inGraph
      BY <1>16 DEF Found, CInv, OnlyAdmitted
    <3>2. j \in Thread(b) /\ rootOf[b] = b
      BY <3>1 DEF CInv, Rooted
    <3> QED
      BY <1>2, <1>16, <3>1, <3>2 DEF Branch, TreeOf
  <2> QED
    BY <1>4, <1>9, <1>16, <2>1 DEF Found, PairIn
<1>17. ASSUME NEW k \in Msg, k \notin shaken'
       PROVE  (Kept(k))'
  <2>1. /\ Kept(k) /\ parentOf[k] \in Msg \cup {NoMsg}
        /\ k \notin gone /\ k \notin InIntake(gone) /\ k \notin clear.nodes
    BY <1>4, <1>7, <1>17 DEF CInv, UnshakenIsKept, ChatTypes
  <2>2. /\ <<"prompt", k>> \in msgLog' <=> <<"prompt", k>> \in msgLog
        /\ PairIn(k, msgLog) => (PairIn(k, msgLog))'
    BY <1>4, <2>1, IdsOf DEF PairIn
  <2>3. intake'[k] # "refused"
    BY <1>4, <2>1 DEF Kept
  <2>4. CASE intake[k] \in {"sending", "shown"}
    <3>1. parentOf[k] # NoMsg /\ parentOf[k] \notin gone
      BY <2>1, <2>4 DEF InIntake
    <3>2. PICK p \in Msg : p = parentOf[k]
      BY <2>1, <3>1
    <3>3. (Found(p))'
      BY <1>16, <2>1, <2>4, <3>1, <3>2 DEF Kept
    <3>4. (Found(parentOf[k]))'
      BY <1>4, <3>2, <3>3
    <3> QED
      BY <1>4, <2>1, <2>2, <2>3, <2>4, <3>4 DEF Kept
  <2>5. CASE intake[k] = "admitted"
    <3>1. (Found(k))' /\ rootOf[k] \in Msg
      BY <1>7, <1>16, <2>1, <2>5 DEF Kept, CInv, Rooted, Admitted
    <3>2. k \in stored'[rootOf[k]]
      BY <1>8, <2>1, <2>5, <3>1 DEF Kept
    <3> QED
      BY <1>4, <2>1, <2>2, <2>3, <2>5, <3>1, <3>2 DEF Kept
  <2>6. CASE intake[k] \notin {"sending", "shown", "admitted"}
    BY <1>4, <2>3, <2>6 DEF Kept
  <2> QED
    BY <2>4, <2>5, <2>6
<1>18. UnshakenIsKept'
  BY <1>17 DEF UnshakenIsKept
<1>19. FilesStand'
  BY <1>4, <1>6, FilesKeep DEF FilesLeft, CInv
<1> QED
  BY <1>10, <1>11, <1>12, <1>13, <1>14, <1>15, <1>18, <1>19 DEF CInv

\* The restart from the file.
LEMMA RestartKeeps ==
  ASSUME CInv, Restart
  PROVE  CInv'
<1>1. /\ shuttingDown /\ ~ shuttingDown'
      /\ stored' = disk.stored /\ msgLog' = disk.msgLog
      /\ inGraph' = UNION {disk.stored[r] : r \in Msg}
      /\ trees' = {r \in Msg : disk.stored[r] # {}} /\ lookup' = Ids(inGraph')
      /\ intake' = [m \in Msg |-> IF intake[m] \in {"sending", "shown"} THEN "refused"
                                  ELSE intake[m]]
      /\ clear' = [at |-> "none", of |-> NoMsg, nodes |-> {}] /\ shuttingDown' = FALSE
      /\ shaken' = IF outdated THEN shaken \cup {m \in Msg : intake[m] # "new"} ELSE shaken
      /\ erased' = IF outdated THEN {} ELSE erased
      /\ UNCHANGED <<parentOf, rootOf, disk>>
  BY DEF Restart, NoClear, Derived
<1>2. clear'.of = NoMsg /\ clear'.nodes = {}
  BY <1>1
<1>3. Admitted' = Admitted
  BY <1>1 DEF Admitted
<1>4. disk.stored \in [Msg -> SUBSET Msg]
  BY DEF CInv, FilesStand, Told
<1>5. \A r \in Msg : \A m \in disk.stored[r] :
        /\ m \in Msg /\ m \in Admitted /\ rootOf[m] = r
        /\ r \in Admitted /\ rootOf[r] = r /\ m \notin erased'
  BY <1>1, <1>4 DEF CInv, FilesStand, Told, Faithful, Rooted
<1>6. /\ \A m \in inGraph' : m \in Msg /\ m \in Admitted /\ m \notin erased'
      /\ \A r \in trees' : r \in Admitted /\ rootOf[r] = r
  BY <1>1, <1>5
<1>7. \A k : /\ <<"prompt", k>> \in lookup' <=> k \in inGraph'
             /\ <<"status", k>> \in lookup' <=> k \in inGraph'
  BY <1>1, IdsOf
<1>8. ChatTypes'
  <2>1. intake' \in [Msg -> {"new", "sending", "shown", "admitted", "refused"}]
    BY <1>1 DEF CInv, ChatTypes
  <2>2. lookup' \subseteq Ids(Msg)
    BY <1>1, <1>6 DEF Ids
  <2>3. clear' \in [at : {"none", "stopping", "deleting"}, of : Msg \cup {NoMsg},
                    nodes : SUBSET Msg]
    BY <1>1
  <2> QED
    BY <1>1, <1>4, <2>1, <2>2, <2>3 DEF CInv, ChatTypes
<1>9. OnlyAdmitted'
  <2>1. (inGraph \cup trees \cup erased \cup clear.nodes)' \subseteq Admitted'
    BY <1>1, <1>2, <1>3, <1>6 DEF CInv, OnlyAdmitted
  <2>2. \A k \in Msg : intake'[k] = "new" => parentOf'[k] = NoMsg
    BY <1>1 DEF CInv, OnlyAdmitted
  <2> QED
    BY <1>1, <1>3, <1>5, <1>6, <2>1, <2>2 DEF OnlyAdmitted
<1>10. Rooted'
  BY <1>1, <1>3, RootedKeeps DEF CInv
<1>11. Paired'
  BY <1>7 DEF Paired
<1>12. ErasedIsOut'
  <2>1. \A r \in trees' : (TreeOf(r))' \cap erased' = {}
    BY <1>1, <1>6 DEF TreeOf
  <2>2. \A m \in erased' : <<"prompt", m>> \notin lookup'
    BY <1>1, <1>6, <1>7
  <2>3. \A r \in Msg : erased' \cap stored'[r] = {}
    BY <1>1, <1>5
  <2> QED
    BY <1>1, <2>1, <2>2, <2>3 DEF ErasedIsOut
<1>13. ClearHolds'
  BY <1>2 DEF ClearHolds
<1>14. ASSUME NEW k \in Msg, k \notin shaken'
       PROVE  (Kept(k))'
  <2>1. Kept(k) /\ k \notin shaken
    BY <1>1, <1>14 DEF CInv, UnshakenIsKept
  <2>2. /\ intake[k] \notin {"sending", "shown", "refused"} /\ intake'[k] = intake[k]
    BY <1>1, <2>1 DEF Kept
  <2>3. CASE intake[k] = "admitted"
    <3>1. k \in disk.stored[rootOf[k]] /\ PairIn(k, disk.msgLog)
      BY <1>1, <1>14, <2>1, <2>3 DEF CInv, FilesStand, Faithful, Admitted
    <3>2. rootOf[k] \in Msg
      BY <2>3 DEF CInv, Rooted, Admitted
    <3>3. k \in inGraph' /\ rootOf[k] \in trees'
      BY <1>1, <3>1, <3>2
    <3>4. (Found(k))'
      BY <1>1, <1>7, <3>3 DEF Found, PairIn
    <3>5. (PairIn(k, msgLog))'
      BY <1>1, <3>1 DEF PairIn
    <3> QED
      BY <1>1, <2>2, <2>3, <3>1, <3>4, <3>5 DEF Kept
  <2>4. CASE intake[k] # "admitted"
    BY <2>2, <2>4 DEF Kept
  <2> QED
    BY <2>3, <2>4
<1>15. UnshakenIsKept'
  BY <1>14 DEF UnshakenIsKept
<1>16. FilesStand'
  <2>1. ASSUME NEW image, Told(image)
        PROVE  (Told(image))'
    BY <1>1, <1>3, <2>1 DEF Told
  <2>2. (Told(disk))'
    <3>1. PICK image : image = disk
      OBVIOUS
    <3> QED
      BY <1>1, <2>1, <3>1 DEF CInv, FilesStand
  <2>3. writing' = [w \in Saver |-> "no"] /\ snapshot' = [w \in Saver |-> EmptyStore]
    BY DEF Restart
  <2>4. (Told(EmptyStore))'
    BY DEF Told, EmptyStore
  <2>5. ASSUME NEW w \in Saver
        PROVE  (Told(snapshot[w]))'
    BY <2>3, <2>4 DEF Told, EmptyStore
  <2> QED
    BY <1>1, <2>2, <2>3, <2>5 DEF FilesStand
<1> QED
  BY <1>8, <1>9, <1>10, <1>11, <1>12, <1>13, <1>15, <1>16 DEF CInv

LEMMA NextCInv == CInv /\ [ChatNext]_chatVars => CInv'
<1> SUFFICES ASSUME CInv, [ChatNext]_chatVars
             PROVE  CInv'
  OBVIOUS
<1>1. CASE ChatNext
  BY <1>1, TakePromptKeeps, IntakeKeeps, AdmitKeeps, ClearComes, AllClearedKeeps,
     BranchClearedKeeps, FileKeeps, RestartKeeps DEF ChatNext
<1>2. CASE UNCHANGED chatVars
  <2>1. TreesStand /\ \A m \in Msg : AsBefore(m)
    BY <1>2 DEF chatVars, TreesStand, Admitted, AsBefore
  <2>2. ChatTypes'
    BY <1>2 DEF chatVars, CInv, ChatTypes
  <2>3. ClearHolds'
    BY <1>2, <2>1, StandKeeps, ClearStays DEF chatVars, CInv, ChatTypes
  <2> QED
    BY <1>2, <2>1, <2>2, <2>3, QuietKeeps DEF chatVars, savedVars, TreesStand, CInv, OnlyAdmitted
<1> QED
  BY <1>1, <1>2

\* The conversations keep their invariant: what a /clear covers stays there until it is
\* removed, what was erased is out of every tree and of the file a restart reads, and an
\* undisturbed prompt keeps its place in the index, the store, the log and the file, for
\* any number of prompts, clears and shutdowns.
THEOREM ConversationsInductive == ChatSpec => []CInv
<1> QED
  BY InitCInv, NextCInv, PTL DEF ChatSpec

\* What the store, the index and the message log know is what was said and not erased.
THEOREM KnownUntilErasedCorrect == ChatSpec => []KnownUntilErased
<1>1. CInv => KnownUntilErased
  <2> SUFFICES ASSUME CInv
               PROVE  KnownUntilErased
    OBVIOUS
  <2>1. ErasedStaysErased
    <3>1. erased \cap UNION {stored[r] : r \in Msg} = {}
      BY DEF CInv, ErasedIsOut
    <3>2. ASSUME NEW m \in erased, NEW id \in Ids({m}), id \in lookup
          PROVE  FALSE
      <4>1. m \in Msg /\ id[2] = m /\ (id = <<"prompt", m>> \/ id = <<"status", m>>)
        BY IdsOf DEF CInv, OnlyAdmitted, Admitted
      <4> QED
        BY <3>2, <4>1 DEF CInv, ErasedIsOut, Paired
    <3> QED
      BY <3>1, <3>2 DEF ErasedStaysErased
  <2>2. ASSUME NEW m \in Msg \ shaken
        PROVE  /\ intake[m] # "refused"
               /\ intake[m] = "admitted" =>
                    /\ \A id \in Ids({m}) : Resolves(id) /\ id \in msgLog
                    /\ m \in stored[rootOf[m]]
    <3>1. Kept(m)
      BY DEF CInv, UnshakenIsKept
    <3>2. ASSUME intake[m] = "admitted", NEW id \in Ids({m})
          PROVE  Resolves(id) /\ id \in msgLog
      <4>1. id = <<"prompt", m>> \/ id = <<"status", m>>
        BY IdsOf
      <4> QED
        BY <3>1, <3>2, <4>1, ResolvesIsFound DEF CInv, Kept, PairIn
    <3> QED
      BY <3>1, <3>2 DEF Kept
  <2> QED
    BY <2>1, <2>2 DEF KnownUntilErased, UnshakenIsKnown
<1> QED
  BY <1>1, ConversationsInductive, PTL
-----------------------------------------------------------------------------
(* What a rendering shows.                                                 *)

Kinds == Said \cup {"text", "subagent", "tool", "error"}
Segments == [kind : Kinds, parts : Seq(Nat)]

LEMMA SizeIsPositive ==
  ASSUME NEW s \in Segments
  PROVE  Size(s) \in Nat /\ Size(s) >= 1
<1>1. s.parts \in Seq(Nat)
  BY DEF Segments
<1>2. Len(s.parts) \in Nat /\ (s.parts # <<>> => Len(s.parts) >= 1)
  BY <1>1
<1>3. QED
  BY <1>2 DEF Size

\* The size of a body is the sum of its segments'.
LEMMA SizeOfSums ==
  ASSUME NEW body \in Seq(Segments)
  PROVE  /\ SizeOf(body) \in Nat
         /\ body = <<>> => SizeOf(body) = 0
         /\ Len(body) = 1 => SizeOf(body) = Size(body[1])
<1>0. PICK n \in Nat : n = Len(body)
  OBVIOUS
<1> DEFINE D == 0 .. n
           F(f) == [i \in D |-> IF i = 0 THEN 0 ELSE f[i - 1] + Size(body[i])]
           upTo == CHOOSE f : f = F(f)
           G == [p \in Nat \X (1 .. n) |-> p[1] + Size(body[p[2]])]
<1>1. n \in Nat /\ \A i \in 1 .. n : body[i] \in Segments
  BY <1>0
<1>2. \A i \in 1 .. n : Size(body[i]) \in Nat
  BY <1>1, SizeIsPositive
<1>3. G \in [Nat \X (1 .. n) -> Nat]
  BY <1>2
<1>4. PICK g \in [0 .. n -> Nat] : Steps(g, n, 0, G)
  <2>1. 0 \in Nat
    OBVIOUS
  <2> HIDE DEF G
  <2>2. QED
    BY <1>0, <1>3, <2>1, StepsExist
<1>5. g = F(g)
  <2>0. g[0] = 0 /\ \A i \in 1 .. n : g[i] = G[<<g[i - 1], i>>]
    BY <1>4 DEF Steps
  <2>1. ASSUME NEW i \in D
        PROVE  g[i] = F(g)[i]
    <3>1. CASE i = 0
      BY <2>0, <3>1
    <3>2. CASE i # 0
      <4>1. i \in 1 .. n /\ i - 1 \in D
        BY <1>1, <3>2
      <4>2. g[i - 1] \in Nat
        BY <1>4, <4>1
      <4>3. g[i] = g[i - 1] + Size(body[i])
        BY <2>0, <4>1, <4>2
      <4>4. QED
        BY <3>2, <4>3
    <3>3. QED
      BY <3>1, <3>2
  <2>2. QED
    BY <1>4, <2>1
<1>6. upTo = F(upTo)
  BY <1>5
<1>7. SizeOf(body) = upTo[n]
  BY <1>0 DEF SizeOf
<1> HIDE DEF upTo
<1>8. upTo[0] = 0
  <2>1. 0 \in D
    BY <1>1
  <2>2. QED
    BY <1>6, <2>1
<1>9. ASSUME NEW i \in 1 .. n
      PROVE  upTo[i] = upTo[i - 1] + Size(body[i])
  <2>1. i \in D /\ i # 0
    BY <1>1
  <2>2. QED
    BY <1>6, <2>1
<1>10. \A i \in 1 .. n : upTo[i - 1] \in Nat => upTo[i] = G[<<upTo[i - 1], i>>]
  BY <1>9
<1>11. \A i \in 0 .. n : upTo[i] \in Nat
  <2>1. PICK V : V = Nat
    OBVIOUS
  <2>2. PICK b \in V : b = 0
    BY <2>1
  <2> HIDE DEF G
  <2>3. G \in [V \X (1 .. n) -> V]
    BY <1>3, <2>1
  <2>4. StepsWithin(upTo, n, V, b, G)
    BY <1>8, <1>10, <2>1, <2>2 DEF StepsWithin
  <2>5. \A i \in 0 .. n : upTo[i] \in V
    BY <1>1, <2>2, <2>3, <2>4, StepsStay
  <2>6. QED
    BY <2>1, <2>5
<1>12. SizeOf(body) \in Nat
  BY <1>1, <1>7, <1>11
<1>13. body = <<>> => SizeOf(body) = 0
  BY <1>0, <1>7, <1>8
<1>14. ASSUME Len(body) = 1
       PROVE  SizeOf(body) = Size(body[1])
  <2>1. upTo[1] = upTo[0] + Size(body[1])
    BY <1>0, <1>9, <1>14
  <2>2. Size(body[1]) \in Nat
    BY <1>0, <1>2, <1>14
  <2>3. QED
    BY <1>0, <1>7, <1>8, <1>14, <2>1, <2>2
<1>15. QED
  BY <1>12, <1>13, <1>14

LEMMA DrawnIsTail ==
  ASSUME NEW s \in Segments
  PROVE  /\ Drawn(s) \in Segments
         /\ Drawn(s).kind = s.kind
<1>1. s.parts \in Seq(Nat) /\ s.kind \in Kinds /\ s = [kind |-> s.kind, parts |-> s.parts]
  BY DEF Segments
<1>2. Len(s.parts) \in Nat
  BY <1>1
<1> DEFINE tail == IF Len(s.parts) <= TailMax THEN s.parts
                   ELSE SubSeq(s.parts, Len(s.parts) - TailMax + 1, Len(s.parts))
<1>3. tail \in Seq(Nat)
  <2>1. CASE Len(s.parts) <= TailMax
    BY <1>1, <2>1
  <2>2. CASE ~ (Len(s.parts) <= TailMax)
    <3>1. Len(s.parts) - TailMax + 1 \in 1 .. Len(s.parts)
      BY <1>2, <2>2, LimitAssumption
    <3>2. SubSeq(s.parts, Len(s.parts) - TailMax + 1, Len(s.parts)) \in Seq(Nat)
      BY <1>1, <1>2, <3>1, SubSeqProperties
    <3>3. QED
      BY <2>2, <3>2
  <2>3. QED
    BY <2>1, <2>2
<1>4. Drawn(s) = [kind |-> s.kind, parts |-> tail]
  BY <1>1 DEF Drawn, Segment
<1>5. QED
  BY <1>1, <1>3, <1>4 DEF Segments

Visible(s) == s.kind # "text" \/ s.parts # <<>>

\* What is drawn are segments, and the last of them is that of the transcript, if anything of
\* it can be seen.
LEMMA DrawnSegmentsAre ==
  ASSUME NEW ps \in Seq(Segments)
  PROVE  /\ DrawnSegments(ps) \in Seq(Segments)
         /\ ps # <<>> /\ Visible(ps[Len(ps)]) =>
              /\ DrawnSegments(ps) # <<>>
              /\ Last(DrawnSegments(ps)).kind = Last(ps).kind
<1>0. PICK n \in Nat : n = Len(ps)
  OBVIOUS
<1> DEFINE D == 0 .. n
           V == Seq(Segments)
           F(f) == [i \in D |-> IF i = 0 THEN <<>>
                                ELSE IF ps[i].kind # "text" \/ ps[i].parts # <<>>
                                THEN Append(f[i - 1], Drawn(ps[i]))
                                ELSE f[i - 1]]
           upTo == CHOOSE f : f = F(f)
           G == [p \in V \X (1 .. n) |-> IF Visible(ps[p[2]]) THEN Append(p[1], Drawn(ps[p[2]]))
                                         ELSE p[1]]
<1>1. n \in Nat /\ \A i \in 1 .. n : ps[i] \in Segments
  BY <1>0
<1>2. \A i \in 1 .. n : Drawn(ps[i]) \in Segments
  BY <1>1, DrawnIsTail
<1>3. G \in [V \X (1 .. n) -> V]
  BY <1>2
<1>4. PICK g \in [0 .. n -> V] : Steps(g, n, <<>>, G)
  <2>1. <<>> \in V
    OBVIOUS
  <2> HIDE DEF V, G
  <2>2. QED
    BY <1>0, <1>3, <2>1, StepsExist
<1>5. g = F(g)
  <2>0. g[0] = <<>> /\ \A i \in 1 .. n : g[i] = G[<<g[i - 1], i>>]
    BY <1>4 DEF Steps
  <2>1. ASSUME NEW i \in D
        PROVE  g[i] = F(g)[i]
    <3>1. CASE i = 0
      BY <2>0, <3>1
    <3>2. CASE i # 0
      <4>1. i \in 1 .. n /\ i - 1 \in D
        BY <1>1, <3>2
      <4>2. g[i - 1] \in V
        BY <1>4, <4>1
      <4>3. g[i] = IF Visible(ps[i]) THEN Append(g[i - 1], Drawn(ps[i])) ELSE g[i - 1]
        BY <2>0, <4>1, <4>2
      <4>4. QED
        BY <3>2, <4>3 DEF Visible
    <3>3. QED
      BY <3>1, <3>2
  <2>2. QED
    BY <1>4, <2>1
<1>6. upTo = F(upTo)
  BY <1>5
<1>7. DrawnSegments(ps) = upTo[n]
  BY <1>0 DEF DrawnSegments
<1> HIDE DEF upTo
<1>8. upTo[0] = <<>>
  <2>1. 0 \in D
    BY <1>1
  <2>2. QED
    BY <1>6, <2>1
<1>9. ASSUME NEW i \in 1 .. n
      PROVE  upTo[i] = IF Visible(ps[i]) THEN Append(upTo[i - 1], Drawn(ps[i])) ELSE upTo[i - 1]
  <2>1. i \in D /\ i # 0
    BY <1>1
  <2>2. QED
    BY <1>6, <2>1 DEF Visible
<1>10. \A i \in 1 .. n : upTo[i - 1] \in V => upTo[i] = G[<<upTo[i - 1], i>>]
  BY <1>9
<1>11. \A i \in 0 .. n : upTo[i] \in V
  <2>1. <<>> \in V
    OBVIOUS
  <2> HIDE DEF G, V
  <2>2. PICK b \in V : b = <<>>
    BY <2>1
  <2>3. StepsWithin(upTo, n, V, b, G)
    BY <1>8, <1>10, <2>2 DEF StepsWithin
  <2>4. QED
    BY <1>1, <1>3, <2>2, <2>3, StepsStay
<1>12. DrawnSegments(ps) \in Seq(Segments)
  BY <1>1, <1>7, <1>11
<1>13. ASSUME ps # <<>>, Visible(ps[Len(ps)])
       PROVE  /\ DrawnSegments(ps) # <<>>
              /\ Last(DrawnSegments(ps)).kind = Last(ps).kind
  <2>1. n \in 1 .. n /\ n - 1 \in D
    BY <1>0, <1>1, <1>13
  <2>2. upTo[n - 1] \in Seq(Segments)
    BY <1>11, <2>1
  <2>3. DrawnSegments(ps) = Append(upTo[n - 1], Drawn(ps[n]))
    BY <1>0, <1>7, <1>9, <1>13, <2>1
  <2>4. PICK before \in Seq(Segments) : before = upTo[n - 1]
    BY <2>2
  <2>5. PICK x \in Segments : x = Drawn(ps[n])
    BY <1>2, <2>1
  <2>6. Len(Append(before, x)) = Len(before) + 1 /\ Append(before, x)[Len(before) + 1] = x
    OBVIOUS
  <2>7. Len(before) \in Nat /\ Len(<<>>) = 0
    OBVIOUS
  <2>8. PICK drawn : drawn = DrawnSegments(ps)
    OBVIOUS
  <2>81. drawn = Append(before, x)
    BY <2>3, <2>4, <2>5, <2>8
  <2>82. Len(drawn) = Len(before) + 1 /\ drawn[Len(before) + 1] = x
    BY <2>6, <2>81
  <2>83. drawn # <<>> /\ Last(drawn) = x
    BY <2>7, <2>82 DEF Last
  <2>9. x.kind = ps[n].kind
    BY <1>1, <2>1, <2>5, DrawnIsTail
  <2>10. QED
    BY <1>0, <2>8, <2>83, <2>9 DEF Last
<1>14. QED
  BY <1>12, <1>13

\* What is rendered of what is drawn: the newest segment or an end of it, within the limit.
Renders(d, body) ==
    /\ SizeOf(d.body) < ShownLimit
    /\ body # <<>> =>
         /\ d.body # <<>>
         /\ Last(d.body).kind = Last(body).kind
         /\ \E n \in 0 .. Len(Last(body).parts) :
              Last(d.body).parts = SubSeq(Last(body).parts, n + 1, Len(Last(body).parts))

\* The end of a sequence.
LEMMA EndOf ==
  ASSUME NEW S, NEW s \in Seq(S), NEW m \in 1 .. Len(s)
  PROVE  /\ SubSeq(s, m, Len(s)) \in Seq(S)
         /\ Len(SubSeq(s, m, Len(s))) = Len(s) - m + 1
         /\ SubSeq(s, m, Len(s))[Len(s) - m + 1] = s[Len(s)]
<1>1. PICK n \in Nat : n = Len(s)
  OBVIOUS
<1>2. m \in 1 .. n + 1 /\ n \in m - 1 .. n
  BY <1>1
<1>3. PICK e : e = SubSeq(s, m, n)
  OBVIOUS
<1>4. e \in Seq(S) /\ Len(e) = n - m + 1 /\ \A i \in 1 .. n - m + 1 : e[i] = s[m + i - 1]
  BY <1>1, <1>2, <1>3, SubSeqProperties
<1>5. n - m + 1 \in 1 .. n - m + 1 /\ m + (n - m + 1) - 1 = n
  BY <1>1
<1>6. QED
  BY <1>1, <1>3, <1>4, <1>5

LEMMA RenderShows ==
  ASSUME NEW ps \in Seq(Segments), NEW status
  PROVE  /\ Render(ps, status).status = status
         /\ Renders(Render(ps, status), DrawnSegments(ps))
<1>1. PICK body \in Seq(Segments) : body = DrawnSegments(ps)
  BY DrawnSegmentsAre
<1>2. PICK d : d = Render(ps, status)
  OBVIOUS
<1> DEFINE L == Len(body)
           fits(i) == SizeOf(SubSeq(body, i, L)) + 2 <= ShownLimit
           from == {i \in DOMAIN body : fits(i)}
           longest == CHOOSE i \in from : \A j \in from : i <= j
           newest == Last(body)
           room == ShownLimit - 2
           end == Segment(newest.kind, SubSeq(newest.parts, Len(newest.parts) - room + 1,
                                              Len(newest.parts)))
<1>3. d = IF SizeOf(body) + 1 <= ShownLimit
          THEN [body |-> body, cut |-> FALSE, status |-> status]
          ELSE [body |-> IF from # {} THEN SubSeq(body, longest, L) ELSE <<end>>,
                cut |-> TRUE, status |-> status]
  BY <1>1, <1>2 DEF Render
<1>4. d.status = status
  BY <1>3
<1>5. SizeOf(body) \in Nat /\ ShownLimit \in Nat /\ L \in Nat /\ DOMAIN body = 1 .. L
  BY SizeOfSums, LimitAssumption
<1>6. body # <<>> =>
        /\ L \in 1 .. L /\ newest \in Segments /\ newest = body[L]
        /\ newest.parts \in Seq(Nat) /\ newest.kind \in Kinds /\ Len(newest.parts) \in Nat
  <2> SUFFICES ASSUME body # <<>>
               PROVE  /\ L \in 1 .. L /\ newest \in Segments /\ newest = body[L]
                      /\ newest.parts \in Seq(Nat) /\ newest.kind \in Kinds
                      /\ Len(newest.parts) \in Nat
    OBVIOUS
  <2>1. L \in 1 .. L
    BY <1>5
  <2>2. newest = body[L]
    BY DEF Last
  <2>3. newest \in Segments
    BY <2>1, <2>2
  <2>4. newest.parts \in Seq(Nat) /\ newest.kind \in Kinds
    BY <2>3 DEF Segments
  <2>5. QED
    BY <2>1, <2>2, <2>3, <2>4
<1> HIDE DEF from, longest, newest
<1>7. CASE SizeOf(body) + 1 <= ShownLimit
  <2>1. d.body = body
    BY <1>3, <1>7
  <2>2. SizeOf(d.body) < ShownLimit
    BY <1>5, <1>7, <2>1
  <2>3. ASSUME body # <<>>
        PROVE  newest.parts = SubSeq(newest.parts, 0 + 1, Len(newest.parts))
    <3>1. newest.parts = SubSeq(newest.parts, 1, Len(newest.parts))
      BY <1>6, <2>3, SubSeqFull
    <3>2. QED
      BY <3>1
  <2>4. Renders(d, body)
    BY <1>6, <2>1, <2>2, <2>3 DEF Renders, newest
  <2>5. QED
    BY <1>1, <1>2, <1>4, <2>4
<1>8. CASE SizeOf(body) + 1 > ShownLimit /\ from # {}
  <2>1. longest \in from
    <3>1. from \subseteq Nat
      BY <1>5 DEF from
    <3>2. \E i \in from : \A j \in from : i <= j
      BY <1>8, <3>1, LeastNumber
    <3>3. QED
      BY <3>2 DEF longest
  <2>2. longest \in 1 .. L /\ SizeOf(SubSeq(body, longest, L)) + 2 <= ShownLimit
    BY <1>5, <2>1 DEF from
  <2>3. PICK e \in Seq(Segments) : e = SubSeq(body, longest, L)
    BY <2>2, EndOf
  <2>4. Len(e) = L - longest + 1 /\ e[L - longest + 1] = body[L]
    BY <2>2, <2>3, EndOf
  <2>5. d.body = e
    BY <1>3, <1>5, <1>8, <2>3
  <2>6. SizeOf(e) \in Nat
    BY SizeOfSums
  <2>7. SizeOf(d.body) < ShownLimit
    BY <1>5, <2>2, <2>3, <2>5, <2>6
  <2>8. e # <<>> /\ e[Len(e)] = body[L]
    <3>1. Len(e) >= 1
      BY <1>5, <2>2, <2>4
    <3>2. QED
      BY <2>4, <3>1
  <2>9. body # <<>> => Last(d.body) = newest
    BY <1>6, <2>5, <2>8 DEF Last
  <2>10. ASSUME body # <<>>
         PROVE  newest.parts = SubSeq(newest.parts, 0 + 1, Len(newest.parts))
    <3>1. newest.parts = SubSeq(newest.parts, 1, Len(newest.parts))
      BY <1>6, <2>10, SubSeqFull
    <3>2. QED
      BY <3>1
  <2>11. Renders(d, body)
    BY <1>6, <2>5, <2>7, <2>8, <2>9, <2>10 DEF Renders, newest
  <2>12. QED
    BY <1>1, <1>2, <1>4, <2>11
<1>9. CASE SizeOf(body) + 1 > ShownLimit /\ from = {}
  <2>1. body # <<>>
    <3>1. body = <<>> => SizeOf(body) = 0
      BY SizeOfSums
    <3>2. QED
      BY <1>5, <1>9, <3>1, LimitAssumption
  <2>2. PICK e \in Seq(Segments) : e = SubSeq(body, L, L)
    BY <1>6, <2>1, EndOf
  <2>3. Len(e) = 1 /\ e[1] = newest
    BY <1>5, <1>6, <2>1, <2>2, EndOf
  <2>4. SizeOf(e) = Size(newest)
    BY <2>3, SizeOfSums
  <2>5. Size(newest) \in Nat /\ ~ (Size(newest) + 2 <= ShownLimit)
    <3>1. Size(newest) \in Nat
      BY <1>6, <2>1, SizeIsPositive
    <3>2. L \notin from
      BY <1>9
    <3>3. ~ (SizeOf(SubSeq(body, L, L)) + 2 <= ShownLimit)
      BY <1>5, <1>6, <2>1, <3>2 DEF from
    <3>4. QED
      BY <2>2, <2>4, <3>1, <3>3
  <2>6. Len(newest.parts) > room /\ room \in Nat /\ room >= 1
    <3>1. room \in Nat /\ room >= 1
      BY LimitAssumption
    <3>2. Size(newest) > room
      BY <2>5, <3>1, LimitAssumption
    <3>3. QED
      BY <1>6, <2>1, <3>1, <3>2 DEF Size
  <2>61. Len(newest.parts) - room + 1 \in 1 .. Len(newest.parts)
    <3>1. PICK len \in Nat : len = Len(newest.parts)
      BY <1>6, <2>1
    <3>2. PICK r \in Nat : r = room
      BY <2>6
    <3>3. len > r /\ r >= 1
      BY <2>6, <3>1, <3>2
    <3>4. len - r + 1 \in 1 .. len
      BY ONLY <3>3, r \in Nat, len \in Nat
    <3>5. QED
      BY ONLY <3>1, <3>2, <3>4
  <2>7. PICK tail \in Seq(Nat) :
          tail = SubSeq(newest.parts, Len(newest.parts) - room + 1, Len(newest.parts))
    BY <1>6, <2>1, <2>61, EndOf
  <2>8. Len(tail) = room
    <3>1. Len(tail) = Len(newest.parts) - (Len(newest.parts) - room + 1) + 1
      BY <1>6, <2>1, <2>61, <2>7, EndOf
    <3>2. QED
      BY <1>6, <2>1, <2>6, <3>1
  <2>9. end = [kind |-> newest.kind, parts |-> tail] /\ end \in Segments
    BY <1>6, <2>1, <2>7 DEF Segment, Segments
  <2>10. d.body = <<end>>
    BY <1>3, <1>5, <1>9
  <2>11. PICK x \in Segments : x = end
    BY <2>9
  <2>12. Size(x) = room
    BY <2>6, <2>8, <2>9, <2>11 DEF Size
  <2>13. <<x>> \in Seq(Segments) /\ Len(<<x>>) = 1 /\ <<x>>[1] = x
    OBVIOUS
  <2>14. SizeOf(<<x>>) = room
    BY <2>12, <2>13, SizeOfSums
  <2>15. SizeOf(d.body) < ShownLimit
    BY <2>6, <2>10, <2>11, <2>14, LimitAssumption
  <2>16. d.body # <<>> /\ Last(d.body) = x
    BY <2>10, <2>11, <2>13 DEF Last
  <2>17. Len(newest.parts) - room \in 0 .. Len(newest.parts)
    BY <1>6, <2>1, <2>6
  <2>18. x.kind = newest.kind /\ x.parts = tail
    BY <2>9, <2>11
  <2>19. Renders(d, body)
    <3> HIDE DEF room, end
    <3>1. \E n \in 0 .. Len(newest.parts) : x.parts = SubSeq(newest.parts, n + 1, Len(newest.parts))
      BY <2>7, <2>17, <2>18
    <3>2. QED
      BY <2>15, <2>16, <2>18, <3>1 DEF Renders, newest
  <2>20. QED
    BY <1>1, <1>2, <1>4, <2>19
<1>10. QED
  BY <1>5, <1>7, <1>8, <1>9
-----------------------------------------------------------------------------
(* What a transcript tells, as it grows.                                   *)

ShownIn(ps) == UNION {ToSet(ps[s].parts) : s \in DOMAIN ps}

Ordered(ps) ==
    \A s, t \in DOMAIN ps : \A k \in DOMAIN ps[s].parts, l \in DOMAIN ps[t].parts :
      s < t \/ (s = t /\ k < l) => ps[s].parts[k] < ps[t].parts[l]

Tells(segment, x) == \E k \in DOMAIN segment.parts : segment.parts[k] = x

LEMMA ShownOf ==
  ASSUME NEW ps, NEW x
  PROVE  x \in ShownIn(ps) <=> \E s \in DOMAIN ps : Tells(ps[s], x)
BY DEF ShownIn, ToSet, Tells

LEMMA SegmentIs ==
  ASSUME NEW kind \in Kinds, NEW parts \in Seq(Nat)
  PROVE  /\ Segment(kind, parts) \in Segments
         /\ Segment(kind, parts).kind = kind /\ Segment(kind, parts).parts = parts
BY DEF Segment, Segments

LEMMA OnePiece ==
  ASSUME NEW p \in Nat
  PROVE  /\ <<p>> \in Seq(Nat) /\ DOMAIN <<p>> = {1} /\ <<p>>[1] = p
         /\ <<>> \in Seq(Nat) /\ DOMAIN <<>> = {}
OBVIOUS

\* A segment without pieces.
LEMMA EmptyIsAdded ==
  ASSUME NEW ps \in Seq(Segments), NEW kind \in Kinds,
         NEW qs, qs = Append(ps, Segment(kind, <<>>))
  PROVE  /\ qs \in Seq(Segments) /\ Len(qs) = Len(ps) + 1
         /\ qs # <<>> /\ Last(qs).kind = kind /\ Last(qs).parts = <<>>
         /\ \A i \in DOMAIN ps : qs[i] = ps[i]
         /\ ShownIn(qs) = ShownIn(ps)
         /\ Ordered(ps) => Ordered(qs)
<1>0. <<>> \in Seq(Nat)
  BY OnePiece
<1>1. PICK seg \in Segments : seg = Segment(kind, <<>>)
  BY <1>0, SegmentIs
<1>2. seg.kind = kind /\ seg.parts = <<>>
  BY <1>0, <1>1, SegmentIs
<1>3. PICK n \in Nat : n = Len(ps)
  OBVIOUS
<1>4. /\ qs \in Seq(Segments) /\ Len(qs) = n + 1 /\ DOMAIN qs = 1 .. n + 1 /\ DOMAIN ps = 1 .. n
      /\ qs[n + 1] = seg /\ \A i \in 1 .. n : qs[i] = ps[i]
  <2>1. qs = Append(ps, seg)
    BY <1>1
  <2>2. /\ qs \in Seq(Segments) /\ Len(qs) = n + 1
        /\ qs[n + 1] = seg /\ \A i \in 1 .. n : qs[i] = ps[i]
    BY <1>3, <2>1, AppendProperties
  <2>3. DOMAIN qs = 1 .. n + 1 /\ DOMAIN ps = 1 .. n
    BY <1>3, <2>2
  <2>4. QED
    BY <2>2, <2>3
<1>5. \A i \in DOMAIN qs : i \in 1 .. n \/ i = n + 1
  BY <1>3, <1>4
<1>6. DOMAIN qs[n + 1].parts = {}
  BY <1>2, <1>4
<1>7. ShownIn(qs) = ShownIn(ps)
  <2>1. ASSUME NEW x
        PROVE  x \in ShownIn(qs) <=> x \in ShownIn(ps)
    <3>1. ~ Tells(qs[n + 1], x)
      BY <1>6 DEF Tells
    <3>2. \A i \in 1 .. n : i \in DOMAIN qs /\ (Tells(qs[i], x) <=> Tells(ps[i], x))
      BY <1>3, <1>4
    <3>3. (\E i \in DOMAIN qs : Tells(qs[i], x)) <=> \E i \in DOMAIN ps : Tells(ps[i], x)
      BY <1>4, <1>5, <3>1, <3>2
    <3>4. QED
      BY <3>3, ShownOf
  <2>2. QED
    BY <2>1
<1>8. ASSUME Ordered(ps)
      PROVE  Ordered(qs)
  BY <1>3, <1>4, <1>5, <1>6, <1>8 DEF Ordered
<1>9. qs # <<>> /\ Last(qs) = seg
  BY <1>3, <1>4 DEF Last
<1>10. QED
  BY <1>2, <1>3, <1>4, <1>7, <1>8, <1>9

\* A segment with the newest piece.
LEMMA PieceIsAdded ==
  ASSUME NEW ps \in Seq(Segments), NEW kind \in Kinds, NEW p \in Nat,
         NEW qs, qs = Append(ps, Segment(kind, <<p>>)),
         Ordered(ps), \A x \in ShownIn(ps) : x \in Nat /\ x < p
  PROVE  /\ qs \in Seq(Segments) /\ Len(qs) = Len(ps) + 1
         /\ ShownIn(qs) = ShownIn(ps) \cup {p}
         /\ Ordered(qs)
<1>0. <<p>> \in Seq(Nat)
  BY OnePiece
<1>1. PICK seg \in Segments : seg = Segment(kind, <<p>>)
  BY <1>0, SegmentIs
<1>11. seg.parts = <<p>>
  BY <1>0, <1>1, SegmentIs
<1>2. seg.parts = <<p>> /\ DOMAIN seg.parts = {1} /\ seg.parts[1] = p
  BY <1>11, OnePiece
<1>3. PICK n \in Nat : n = Len(ps)
  OBVIOUS
<1>4. /\ qs \in Seq(Segments) /\ Len(qs) = n + 1 /\ DOMAIN qs = 1 .. n + 1 /\ DOMAIN ps = 1 .. n
      /\ qs[n + 1] = seg /\ \A i \in 1 .. n : qs[i] = ps[i]
  <2>1. qs = Append(ps, seg)
    BY <1>1
  <2>2. /\ qs \in Seq(Segments) /\ Len(qs) = n + 1
        /\ qs[n + 1] = seg /\ \A i \in 1 .. n : qs[i] = ps[i]
    BY <1>3, <2>1, AppendProperties
  <2>3. DOMAIN qs = 1 .. n + 1 /\ DOMAIN ps = 1 .. n
    BY <1>3, <2>2
  <2>4. QED
    BY <2>2, <2>3
<1>5. \A i \in DOMAIN qs : i \in 1 .. n \/ i = n + 1
  BY <1>3, <1>4
<1>6. n + 1 \in DOMAIN qs /\ DOMAIN qs[n + 1].parts = {1} /\ qs[n + 1].parts[1] = p
  BY <1>2, <1>3, <1>4
<1>7. ShownIn(qs) = ShownIn(ps) \cup {p}
  <2>1. ASSUME NEW x
        PROVE  x \in ShownIn(qs) <=> x \in ShownIn(ps) \/ x = p
    <3>1. Tells(qs[n + 1], x) <=> x = p
      BY <1>6 DEF Tells
    <3>2. \A i \in 1 .. n : i \in DOMAIN qs /\ (Tells(qs[i], x) <=> Tells(ps[i], x))
      BY <1>3, <1>4
    <3>3. (\E i \in DOMAIN qs : Tells(qs[i], x)) <=> x = p \/ \E i \in DOMAIN ps : Tells(ps[i], x)
      BY <1>4, <1>5, <1>6, <3>1, <3>2
    <3>4. QED
      BY <3>3, ShownOf
  <2>2. QED
    BY <2>1
<1>8. Ordered(qs)
  <2> SUFFICES ASSUME NEW s \in DOMAIN qs, NEW t \in DOMAIN qs,
                      NEW k \in DOMAIN qs[s].parts, NEW l \in DOMAIN qs[t].parts,
                      s < t \/ (s = t /\ k < l)
               PROVE  qs[s].parts[k] < qs[t].parts[l]
    BY DEF Ordered
  <2>1. CASE t \in 1 .. n
    <3>1. s \in 1 .. n
      BY <1>3, <1>4, <2>1
    <3>2. QED
      BY <1>4, <2>1, <3>1 DEF Ordered
  <2>2. CASE t = n + 1
    <3>1. l = 1 /\ qs[t].parts[l] = p
      BY <1>6, <2>2
    <3>2. CASE s = n + 1
      <4>1. k = 1
        BY <1>6, <3>2
      <4>2. QED
        BY <2>2, <3>1, <3>2, <4>1
    <3>3. CASE s \in 1 .. n
      <4>1. qs[s].parts[k] \in ShownIn(ps)
        <5>1. Tells(ps[s], qs[s].parts[k])
          BY <1>4, <3>3 DEF Tells
        <5>2. QED
          BY <1>4, <3>3, <5>1, ShownOf
      <4>2. QED
        BY <3>1, <4>1
    <3>4. QED
      BY <1>5, <3>2, <3>3
  <2>3. QED
    BY <1>5, <2>1, <2>2
<1>9. QED
  BY <1>3, <1>4, <1>7, <1>8

\* The newest piece in a segment after which there are none.
AppendsAt(ps, o, p, parts, seg, qs) ==
    /\ o \in DOMAIN ps /\ parts = ps[o].parts /\ seg.parts = Append(parts, p)
    /\ qs = [ps EXCEPT ![o] = seg]
    /\ \A s \in o + 1 .. Len(ps) : ps[s].parts = <<>>

LEMMA PieceIsAppended ==
  ASSUME NEW ps \in Seq(Segments), NEW o, NEW p \in Nat, NEW parts \in Seq(Nat),
         NEW seg \in Segments, NEW qs, AppendsAt(ps, o, p, parts, seg, qs),
         Ordered(ps), \A x \in ShownIn(ps) : x \in Nat /\ x < p
  PROVE  /\ qs \in Seq(Segments) /\ Len(qs) = Len(ps)
         /\ \A s \in o + 1 .. Len(ps) : qs[s] = ps[s]
         /\ ShownIn(qs) = ShownIn(ps) \cup {p}
         /\ Ordered(qs)
<1>1. PICK n \in Nat : n = Len(ps) /\ DOMAIN ps = 1 .. n
  BY LenProperties
<1>2. o \in 1 .. n /\ qs = [ps EXCEPT ![o] = seg]
  BY <1>1 DEF AppendsAt
<1>21. \A s \in o + 1 .. n : ps[s].parts = <<>>
  BY <1>1 DEF AppendsAt
<1>3. parts = ps[o].parts
  BY DEF AppendsAt
<1>4. PICK more \in Seq(Nat) : more = Append(parts, p)
  BY AppendProperties
<1>5. PICK m \in Nat : m = Len(parts) /\ DOMAIN parts = 1 .. m
  BY LenProperties
<1>6. /\ DOMAIN parts = 1 .. m /\ DOMAIN more = 1 .. m + 1 /\ more[m + 1] = p
      /\ \A i \in 1 .. m : more[i] = parts[i]
  <2>1. Len(more) = m + 1 /\ more[m + 1] = p /\ \A i \in 1 .. m : more[i] = parts[i]
    BY <1>4, <1>5, AppendProperties
  <2>2. DOMAIN more = 1 .. m + 1
    BY <2>1, LenProperties
  <2>3. QED
    BY <1>5, <2>1, <2>2
<1>7. seg.parts = more
  BY <1>4 DEF AppendsAt
<1>10. qs \in Seq(Segments) /\ Len(qs) = n /\ DOMAIN qs = 1 .. n
  <2>1. qs \in Seq(Segments) /\ Len(qs) = n
    BY <1>1, <1>2, ExceptSeq
  <2>2. QED
    BY <2>1, LenProperties
<1>11. qs[o].parts = more /\ \A i \in 1 .. n : i # o => qs[i] = ps[i]
  BY <1>1, <1>2, <1>7, ExceptSeq
<1>12. ShownIn(qs) = ShownIn(ps) \cup {p}
  <2>1. ASSUME NEW x
        PROVE  x \in ShownIn(qs) <=> x \in ShownIn(ps) \/ x = p
    <3>1. Tells(qs[o], x) <=> Tells(ps[o], x) \/ x = p
      <4>1. (\E k \in 1 .. m + 1 : more[k] = x) <=> (\E k \in 1 .. m : parts[k] = x) \/ x = p
        <5>1. \A k \in 1 .. m + 1 : k \in 1 .. m \/ k = m + 1
          BY <1>5
        <5>2. m + 1 \in 1 .. m + 1 /\ \A k \in 1 .. m : k \in 1 .. m + 1
          BY <1>5
        <5>3. QED
          BY <1>6, <5>1, <5>2
      <4>2. QED
        BY <1>3, <1>6, <1>11, <4>1 DEF Tells
    <3>2. \A i \in 1 .. n : i # o => (Tells(qs[i], x) <=> Tells(ps[i], x))
      BY <1>11
    <3>3. (\E i \in 1 .. n : Tells(qs[i], x)) <=> x = p \/ \E i \in 1 .. n : Tells(ps[i], x)
      BY <1>2, <3>1, <3>2
    <3>4. QED
      BY <1>1, <1>2, <1>10, <3>3, ShownOf
  <2>2. QED
    BY <2>1
<1>13. Ordered(qs)
  <2> SUFFICES ASSUME NEW s \in 1 .. n, NEW t \in 1 .. n,
                      NEW k \in DOMAIN qs[s].parts, NEW l \in DOMAIN qs[t].parts,
                      s < t \/ (s = t /\ k < l)
               PROVE  qs[s].parts[k] < qs[t].parts[l]
    BY <1>10 DEF Ordered
  <2>1. t <= o
    <3>1. CASE t > o
      <4>1. ps[t].parts = <<>> /\ qs[t] = ps[t]
        BY <1>2, <1>11, <1>21, <3>1
      <4>2. QED
        BY <4>1
    <3>2. QED
      BY <1>2, <3>1
  <2>2. CASE t # o
    <3>1. s # o
      BY <1>2, <2>1, <2>2
    <3>2. qs[s] = ps[s] /\ qs[t] = ps[t]
      BY <1>11, <2>2, <3>1
    <3>3. QED
      BY <1>1, <3>2 DEF Ordered
  <2>3. CASE t = o
    <3>0. DOMAIN qs[o].parts = 1 .. m + 1
      BY <1>6, <1>11, Zenon
    <3>01. l \in 1 .. m + 1
      BY <2>3, <3>0, Zenon
    <3>1. l \in 1 .. m \/ l = m + 1
      BY <1>5, <3>01
    <3>02. s = o => k \in 1 .. m + 1
      BY <3>0, Zenon
    <3>03. s = o => k < l
      BY <1>1, <2>3
    <3>2. s # o \/ (s = o /\ k \in 1 .. m + 1 /\ k < l)
      BY <3>02, <3>03
    <3>3. CASE l = m + 1
      <4>1. qs[t].parts[l] = p
        BY <1>6, <1>11, <2>3, <3>3
      <4>2. qs[s].parts[k] \in ShownIn(ps)
        <5>1. CASE s # o
          <6>1. Tells(ps[s], qs[s].parts[k])
            BY <1>11, <5>1 DEF Tells
          <6>2. QED
            BY <1>1, <6>1, ShownOf
        <5>2. CASE s = o
          <6>1. k \in 1 .. m
            BY <3>2, <3>3, <5>2
          <6>2. qs[s].parts[k] = ps[o].parts[k] /\ k \in DOMAIN ps[o].parts
            BY <1>3, <1>6, <1>11, <5>2, <6>1
          <6>3. Tells(ps[o], qs[s].parts[k])
            BY <6>2 DEF Tells
          <6>4. QED
            BY <1>1, <1>2, <6>3, ShownOf
        <5>3. QED
          BY <5>1, <5>2
      <4>3. QED
        BY <4>1, <4>2
    <3>4. CASE l \in 1 .. m
      <4>1. qs[t].parts[l] = ps[o].parts[l] /\ l \in DOMAIN ps[o].parts
        BY <1>3, <1>6, <1>11, <2>3, <3>4
      <4>2. CASE s # o
        <5>1. qs[s] = ps[s] /\ s < o
          BY <1>11, <2>3, <4>2
        <5>2. QED
          BY <1>1, <2>3, <4>1, <5>1 DEF Ordered
      <4>3. CASE s = o
        <5>1. k \in 1 .. m /\ k < l
          BY <3>2, <3>4, <4>3
        <5>2. qs[s].parts[k] = ps[o].parts[k] /\ k \in DOMAIN ps[o].parts
          BY <1>3, <1>6, <1>11, <4>3, <5>1
        <5>3. QED
          BY <1>1, <2>3, <4>1, <4>3, <5>1, <5>2 DEF Ordered
      <4>4. QED
        BY <4>2, <4>3
    <3>5. QED
      BY <3>1, <3>3, <3>4
  <2>4. QED
    BY <2>2, <2>3
<1>14. \A s \in o + 1 .. Len(ps) : qs[s] = ps[s]
  BY <1>1, <1>2, <1>11
<1>15. Len(qs) = Len(ps)
  BY <1>1, <1>10, Zenon
<1>16. qs \in Seq(Segments)
  BY <1>10, Zenon
<1>17. QED
  BY <1>12, <1>13, <1>14, <1>15, <1>16, Zenon
-----------------------------------------------------------------------------
(* The status message of a run.                                            *)

RunTypes ==
    /\ segments \in Seq(Segments)
    /\ openAt \in 0 .. Len(segments)
    /\ taskStack \in Seq(TaskId)
    /\ spoken \in Seq(BOOLEAN)

\* The block that is open has the newest piece, if any has.
OpenIsNewest == openAt > 0 => \A s \in openAt + 1 .. Len(segments) : segments[s].parts = <<>>

\* What the transcript shows is what was said, in order; it is what is said while the stack
\* of Tasks is empty.
PiecesAreTold ==
    /\ Ordered(segments)
    /\ ShownIn(segments) \subseteq DOMAIN spoken
    /\ TasksApart => \A i \in DOMAIN spoken : ~ spoken[i] => i \in ShownIn(segments)
    /\ ~ disturbed => \A i \in DOMAIN spoken : i \in ShownIn(segments) <=> ~ spoken[i]

\* The stack has the Tasks without a result, unless a result closed other Tasks; and never
\* one that has a result, if ids are apart.
StackIsUnanswered ==
    /\ TasksApart => /\ \A i, j \in DOMAIN taskStack : taskStack[i] = taskStack[j] => i = j
                     /\ \A i \in DOMAIN taskStack : taskStack[i] \in unanswered
    /\ ~ disturbed => ToSet(taskStack) = unanswered \cap TaskId

TranscriptInv == RunTypes /\ OpenIsNewest /\ PiecesAreTold /\ StackIsUnanswered

\* The end of a run is shown in full, and an error ends its transcript.
EndIsShown ==
    /\ runEnd # "running" =>
         displayed = Render(segments, IF runEnd = "failed" THEN "complete" ELSE runEnd)
    /\ runEnd \in {"failed", "cancelled", "raised", "full"} =>
         segments # <<>> /\ Last(segments).kind = "error"

StatusInv == TranscriptInv /\ EndIsShown
-----------------------------------------------------------------------------
LEMMA InitStatusInv == StatusInit => StatusInv
<1> SUFFICES ASSUME StatusInit
             PROVE  StatusInv
  OBVIOUS
<1>1. segments = <<>> /\ openAt = 0 /\ taskStack = <<>> /\ spoken = <<>> /\ unanswered = {}
      /\ runEnd = "running"
  BY DEF StatusInit
<1>2. <<>> \in Seq(Segments) /\ <<>> \in Seq(TaskId) /\ <<>> \in Seq(BOOLEAN) /\ Len(<<>>) = 0
      /\ DOMAIN <<>> = {}
  OBVIOUS
<1>3. RunTypes
  BY <1>1, <1>2 DEF RunTypes
<1>4. OpenIsNewest
  BY <1>1 DEF OpenIsNewest
<1>5. ShownIn(segments) = {} /\ Ordered(segments)
  BY <1>1, <1>2 DEF ShownIn, Ordered
<1>6. PiecesAreTold
  BY <1>1, <1>2, <1>5 DEF PiecesAreTold
<1>7. StackIsUnanswered
  BY <1>1, <1>2 DEF StackIsUnanswered, ToSet
<1>8. EndIsShown
  BY <1>1 DEF EndIsShown
<1>9. QED
  BY <1>3, <1>4, <1>6, <1>7, <1>8 DEF StatusInv, TranscriptInv

\* A Task is unanswered if and only if the stack of Tasks has one.
LEMMA StackTells ==
  ASSUME RunTypes, StackIsUnanswered
  PROVE  /\ TasksApart /\ InSubagent => unanswered \cap TaskId # {}
         /\ ~ disturbed => (InSubagent <=> unanswered \cap TaskId # {})
<1>1. taskStack \in Seq(TaskId)
  BY DEF RunTypes
<1>2. taskStack # <<>> => 1 \in DOMAIN taskStack /\ taskStack[1] \in TaskId
  BY <1>1
<1>3. taskStack = <<>> => DOMAIN taskStack = {}
  OBVIOUS
<1>4. QED
  BY <1>2, <1>3 DEF StackIsUnanswered, InSubagent, ToSet

\* A piece is in the transcript unless it is said in a Task.
LEMMA PieceIsSaid ==
  ASSUME RunTypes, PiecesAreTold, StackIsUnanswered, Say, disturbed' = disturbed,
         Ordered(segments'),
         InSubagent => ShownIn(segments') = ShownIn(segments),
         ~ InSubagent => ShownIn(segments') = ShownIn(segments) \cup {Piece}
  PROVE  PiecesAreTold' /\ spoken' \in Seq(BOOLEAN)
<1>1. PICK n \in Nat : n = Len(spoken) /\ DOMAIN spoken = 1 .. n /\ spoken \in Seq(BOOLEAN)
  BY DEF RunTypes
<1>2. PICK inTask \in BOOLEAN : inTask <=> unanswered \cap TaskId # {}
  OBVIOUS
<1>3. /\ spoken' \in Seq(BOOLEAN) /\ Len(spoken') = n + 1 /\ spoken'[n + 1] = inTask
      /\ \A i \in 1 .. n : spoken'[i] = spoken[i]
  <2>1. (unanswered \cap TaskId # {}) = inTask
    BY <1>2
  <2>2. spoken' = Append(spoken, inTask)
    BY <2>1 DEF Say
  <2>3. QED
    BY <1>1, <2>2, AppendProperties
<1>4. DOMAIN spoken' = 1 .. n + 1 /\ Piece = n + 1
  BY <1>1, <1>3, LenProperties DEF Piece
<1>5. \A i \in 1 .. n + 1 : i \in 1 .. n \/ i = n + 1
  BY <1>1
<1>6. n + 1 \notin ShownIn(segments) /\ ShownIn(segments) \subseteq 1 .. n
  BY <1>1 DEF PiecesAreTold
<1>7. ShownIn(segments') \subseteq 1 .. n + 1
  <2>1. n + 1 \in 1 .. n + 1 /\ 1 .. n \subseteq 1 .. n + 1
    BY <1>1
  <2>2. QED
    BY <1>4, <1>6, <2>1
<1>8. \A i \in 1 .. n : i \in ShownIn(segments') <=> i \in ShownIn(segments)
  BY <1>1, <1>4
<1>9. n + 1 \in ShownIn(segments') <=> ~ InSubagent
  BY <1>4, <1>6
<1>10. ASSUME TasksApart, NEW i \in 1 .. n + 1, ~ spoken'[i]
       PROVE  i \in ShownIn(segments')
  <2>1. CASE i \in 1 .. n
    BY <1>1, <1>3, <1>8, <1>10, <2>1 DEF PiecesAreTold
  <2>2. CASE i = n + 1
    <3>1. ~ inTask
      BY <1>3, <1>10, <2>2
    <3>2. ~ InSubagent
      BY <1>2, <1>10, <3>1, StackTells
    <3>3. QED
      BY <1>9, <2>2, <3>2
  <2>3. QED
    BY <1>5, <2>1, <2>2
<1>11. ASSUME ~ disturbed, NEW i \in 1 .. n + 1
       PROVE  i \in ShownIn(segments') <=> ~ spoken'[i]
  <2>1. CASE i \in 1 .. n
    BY <1>1, <1>3, <1>8, <1>11, <2>1 DEF PiecesAreTold
  <2>2. CASE i = n + 1
    <3>1. InSubagent <=> inTask
      BY <1>2, <1>11, StackTells
    <3>2. QED
      BY <1>3, <1>9, <2>2, <3>1
  <2>3. QED
    BY <1>5, <2>1, <2>2
<1>12. PiecesAreTold'
  BY <1>4, <1>7, <1>10, <1>11 DEF PiecesAreTold, TasksApart, Matches
<1>13. QED
  BY <1>3, <1>12

\* What is shown is less than the next piece.
LEMMA ShownIsBefore ==
  ASSUME RunTypes, PiecesAreTold
  PROVE  Piece \in Nat /\ \A x \in ShownIn(segments) : x \in Nat /\ x < Piece
<1>1. PICK n \in Nat : n = Len(spoken) /\ DOMAIN spoken = 1 .. n
  BY DEF RunTypes
<1>2. QED
  BY <1>1 DEF PiecesAreTold, Piece

LEMMA ChunkKeeps ==
  ASSUME TranscriptInv, NEW kind \in Kinds, Chunk(kind)
  PROVE  TranscriptInv'
<1>1. RunTypes /\ OpenIsNewest /\ PiecesAreTold /\ StackIsUnanswered
  BY DEF TranscriptInv
<1>2. openAt = 0 /\ openAt' = 0 /\ taskStack' = taskStack /\ unanswered' = unanswered
      /\ disturbed' = disturbed /\ Say
  BY DEF Chunk
<1>3. /\ segments' \in Seq(Segments) /\ Ordered(segments')
      /\ InSubagent => ShownIn(segments') = ShownIn(segments)
      /\ ~ InSubagent => ShownIn(segments') = ShownIn(segments) \cup {Piece}
  <2>1. CASE InSubagent
    BY <1>1, <2>1 DEF Chunk, RunTypes, PiecesAreTold
  <2>2. CASE ~ InSubagent
    <3>1. PICK ps \in Seq(Segments) : ps = segments
      BY <1>1 DEF RunTypes
    <3>2. PICK p \in Nat : p = Piece
      BY <1>1, ShownIsBefore
    <3>3. segments' = Append(ps, Segment(kind, <<p>>))
      BY <2>2, <3>1, <3>2 DEF Chunk
    <3>4. Ordered(ps) /\ \A x \in ShownIn(ps) : x \in Nat /\ x < p
      BY <1>1, <3>1, <3>2, ShownIsBefore DEF PiecesAreTold
    <3>5. PICK qs : qs = segments'
      OBVIOUS
    <3>6. qs \in Seq(Segments) /\ ShownIn(qs) = ShownIn(ps) \cup {p} /\ Ordered(qs)
      BY <3>3, <3>4, <3>5, PieceIsAdded
    <3>7. QED
      BY <2>2, <3>1, <3>2, <3>5, <3>6
  <2>3. QED
    BY <2>1, <2>2
<1>4. PiecesAreTold' /\ spoken' \in Seq(BOOLEAN)
  BY <1>1, <1>2, <1>3, PieceIsSaid
<1>5. RunTypes'
  BY <1>1, <1>2, <1>3, <1>4 DEF RunTypes
<1>6. OpenIsNewest'
  BY <1>2 DEF OpenIsNewest
<1>7. StackIsUnanswered'
  BY <1>1, <1>2 DEF StackIsUnanswered, TasksApart, Matches
<1>8. QED
  BY <1>4, <1>5, <1>6, <1>7 DEF TranscriptInv

LEMMA BlockStartKeeps ==
  ASSUME TranscriptInv, NEW kind \in Kinds, BlockStart(kind)
  PROVE  TranscriptInv'
<1>1. RunTypes /\ OpenIsNewest /\ PiecesAreTold /\ StackIsUnanswered
  BY DEF TranscriptInv
<1>2. taskStack' = taskStack /\ unanswered' = unanswered /\ spoken' = spoken /\ disturbed' = disturbed
  BY DEF BlockStart
<1>3. StackIsUnanswered'
  BY <1>1, <1>2 DEF StackIsUnanswered, TasksApart, Matches
<1>4. CASE InSubagent
  <2>1. segments' = segments /\ openAt' = openAt
    BY <1>4 DEF BlockStart
  <2>2. QED
    BY <1>1, <1>2, <1>3, <2>1 DEF TranscriptInv, RunTypes, OpenIsNewest, PiecesAreTold, TasksApart, Matches
<1>5. CASE ~ InSubagent
  <2>1. PICK ps \in Seq(Segments) : ps = segments
    BY <1>1 DEF RunTypes
  <2>2. PICK qs : qs = segments'
    OBVIOUS
  <2>3. qs = Append(ps, Segment(kind, <<>>)) /\ openAt' = Len(ps) + 1
    BY <1>5, <2>1, <2>2 DEF BlockStart
  <2>4. /\ qs \in Seq(Segments) /\ Len(qs) = Len(ps) + 1 /\ ShownIn(qs) = ShownIn(ps)
        /\ Ordered(ps) => Ordered(qs)
    BY <2>3, EmptyIsAdded
  <2>5. Len(ps) \in Nat
    OBVIOUS
  <2>6. openAt' \in 0 .. Len(segments') /\ openAt' = Len(segments')
    BY <2>2, <2>3, <2>4, <2>5
  <2>7. RunTypes'
    BY <1>1, <1>2, <2>2, <2>4, <2>6 DEF RunTypes
  <2>8. OpenIsNewest'
    BY <2>2, <2>4, <2>5, <2>6 DEF OpenIsNewest
  <2>9. ShownIn(segments') = ShownIn(segments) /\ Ordered(segments')
    BY <1>1, <2>1, <2>2, <2>4 DEF PiecesAreTold
  <2>10. PiecesAreTold'
    BY <1>1, <1>2, <2>9 DEF PiecesAreTold, TasksApart, Matches
  <2>11. QED
    BY <1>3, <2>7, <2>8, <2>10 DEF TranscriptInv
<1>6. QED
  BY <1>4, <1>5

LEMMA BlockDeltaKeeps ==
  ASSUME TranscriptInv, NEW kind \in Kinds, BlockDelta(kind)
  PROVE  TranscriptInv'
<1>1. RunTypes /\ OpenIsNewest /\ PiecesAreTold /\ StackIsUnanswered
  BY DEF TranscriptInv
<1>2. taskStack' = taskStack /\ unanswered' = unanswered /\ disturbed' = disturbed /\ Say
  BY DEF BlockDelta
<1>3. StackIsUnanswered'
  BY <1>1, <1>2 DEF StackIsUnanswered, TasksApart, Matches
<1>4. PICK ps \in Seq(Segments) : ps = segments
  BY <1>1 DEF RunTypes
<1>5. PICK p \in Nat : p = Piece
  BY <1>1, ShownIsBefore
<1>6. Ordered(ps) /\ \A x \in ShownIn(ps) : x \in Nat /\ x < p
  BY <1>1, <1>4, <1>5, ShownIsBefore DEF PiecesAreTold
<1>7. PICK qs : qs = segments'
  OBVIOUS
<1>8. PICK n \in Nat : n = Len(ps) /\ DOMAIN ps = 1 .. n
  BY LenProperties
<1>9. openAt \in 0 .. n
  BY <1>1, <1>4, <1>8 DEF RunTypes
<1>10. /\ qs \in Seq(Segments) /\ Ordered(qs) /\ openAt' \in 0 .. Len(qs)
       /\ InSubagent => ShownIn(qs) = ShownIn(ps)
       /\ ~ InSubagent => ShownIn(qs) = ShownIn(ps) \cup {p}
       /\ openAt' > 0 => \A s \in openAt' + 1 .. Len(qs) : qs[s].parts = <<>>
  <2>1. CASE InSubagent
    <3>1. qs = ps /\ openAt' = openAt
      BY <1>4, <1>7, <2>1 DEF BlockDelta
    <3>2. QED
      BY <1>1, <1>4, <1>6, <2>1, <3>1 DEF RunTypes, OpenIsNewest
  <2>2. CASE ~ InSubagent /\ openAt > 0
    <3>1. segments' = [segments EXCEPT ![openAt].parts = Append(@, Piece)] /\ openAt' = openAt
      BY <2>2 DEF BlockDelta
    <3>2. PICK o \in 1 .. n : o = openAt
      BY <1>9, <2>2
    <3>3. ps[o] \in Segments
      BY <1>8
    <3>4. PICK parts \in Seq(Nat) : parts = ps[o].parts
      BY <3>3 DEF Segments
    <3>5. PICK more \in Seq(Nat) : more = Append(parts, p)
      BY AppendProperties
    <3>6. PICK seg \in Segments : seg = [ps[o] EXCEPT !.parts = more]
      BY <3>3 DEF Segments
    <3>7. seg.parts = more
      BY <3>3, <3>6 DEF Segments
    <3>8. qs = [ps EXCEPT ![o] = [ps[o] EXCEPT !.parts = Append(ps[o].parts, p)]]
      BY <1>4, <1>5, <1>7, <3>1, <3>2
    <3>9. qs = [ps EXCEPT ![o] = seg]
      BY <3>4, <3>5, <3>6, <3>8
    <3>10. \A s \in o + 1 .. Len(ps) : ps[s].parts = <<>>
      BY <1>1, <1>4, <2>2, <3>2 DEF OpenIsNewest
    <3>11. AppendsAt(ps, o, p, parts, seg, qs)
      BY <1>8, <3>4, <3>5, <3>7, <3>9, <3>10 DEF AppendsAt
    <3>12. /\ qs \in Seq(Segments) /\ Len(qs) = Len(ps)
           /\ \A s \in o + 1 .. Len(ps) : qs[s] = ps[s]
           /\ ShownIn(qs) = ShownIn(ps) \cup {p} /\ Ordered(qs)
      BY <1>6, <3>11, PieceIsAppended
    <3>13. openAt' \in 0 .. Len(qs)
      BY <1>8, <1>9, <3>1, <3>12
    <3>14. \A s \in openAt' + 1 .. Len(qs) : qs[s].parts = <<>>
      BY <3>1, <3>2, <3>10, <3>12
    <3>15. QED
      BY <2>2, <3>12, <3>13, <3>14
  <2>3. CASE ~ InSubagent /\ ~ (openAt > 0)
    <3>1. qs = Append(ps, Segment(kind, <<p>>)) /\ openAt' = n + 1
      BY <1>4, <1>5, <1>7, <1>8, <2>3 DEF BlockDelta
    <3>2. /\ qs \in Seq(Segments) /\ Len(qs) = n + 1
          /\ ShownIn(qs) = ShownIn(ps) \cup {p} /\ Ordered(qs)
      BY <1>6, <1>8, <3>1, PieceIsAdded
    <3>3. QED
      BY <1>8, <2>3, <3>1, <3>2
  <2>4. QED
    BY <2>1, <2>2, <2>3
<1>11. PiecesAreTold' /\ spoken' \in Seq(BOOLEAN)
  BY <1>1, <1>2, <1>4, <1>5, <1>7, <1>10, PieceIsSaid
<1>12. RunTypes'
  BY <1>1, <1>2, <1>7, <1>10, <1>11 DEF RunTypes
<1>13. OpenIsNewest'
  BY <1>7, <1>10 DEF OpenIsNewest
<1>14. QED
  BY <1>3, <1>11, <1>12, <1>13 DEF TranscriptInv

LEMMA BlockStopKeeps ==
  ASSUME TranscriptInv, BlockStop
  PROVE  TranscriptInv'
<1>1. RunTypes /\ PiecesAreTold /\ StackIsUnanswered
  BY DEF TranscriptInv
<1>2. openAt' = 0 /\ segments' = segments /\ taskStack' = taskStack /\ unanswered' = unanswered
      /\ spoken' = spoken /\ disturbed' = disturbed
  BY DEF BlockStop
<1>3. RunTypes'
  <2>1. Len(segments) \in Nat
    BY <1>1 DEF RunTypes
  <2>2. QED
    BY <1>1, <1>2, <2>1 DEF RunTypes
<1>4. OpenIsNewest'
  BY <1>2 DEF OpenIsNewest
<1>5. PiecesAreTold' /\ StackIsUnanswered'
  BY <1>1, <1>2 DEF PiecesAreTold, StackIsUnanswered, TasksApart, Matches
<1>6. QED
  BY <1>3, <1>4, <1>5 DEF TranscriptInv

LEMMA SameTranscript ==
  ASSUME TranscriptInv, UNCHANGED <<segments, openAt, taskStack, unanswered, spoken, disturbed>>
  PROVE  TranscriptInv'
BY DEF TranscriptInv, RunTypes, OpenIsNewest, PiecesAreTold, StackIsUnanswered, TasksApart, Matches

LEMMA FaultKeeps ==
  ASSUME TranscriptInv, Fault
  PROVE  TranscriptInv' /\ segments' # <<>> /\ Last(segments').kind = "error"
<1>1. RunTypes /\ OpenIsNewest /\ PiecesAreTold /\ StackIsUnanswered
  BY DEF TranscriptInv
<1>2. openAt' = openAt /\ taskStack' = taskStack /\ unanswered' = unanswered
      /\ spoken' = spoken /\ disturbed' = disturbed
  BY DEF Fault
<1>3. PICK ps \in Seq(Segments) : ps = segments
  BY <1>1 DEF RunTypes
<1>4. PICK qs : qs = segments'
  OBVIOUS
<1>5. qs = Append(ps, Segment("error", <<>>))
  BY <1>3, <1>4 DEF Fault
<1>6. PICK n \in Nat : n = Len(ps) /\ DOMAIN ps = 1 .. n
  BY LenProperties
<1>7. /\ qs \in Seq(Segments) /\ Len(qs) = n + 1 /\ ShownIn(qs) = ShownIn(ps)
      /\ qs # <<>> /\ Last(qs).kind = "error" /\ Last(qs).parts = <<>>
      /\ \A i \in 1 .. n : qs[i] = ps[i]
      /\ Ordered(ps) => Ordered(qs)
  <2>1. PICK kind \in Kinds : kind = "error"
    BY DEF Kinds
  <2>2. qs = Append(ps, Segment(kind, <<>>))
    BY <1>5, <2>1
  <2>3. qs \in Seq(Segments) /\ Len(qs) = Len(ps) + 1
    BY <2>2, EmptyIsAdded
  <2>4. qs # <<>> /\ Last(qs).kind = kind /\ Last(qs).parts = <<>>
    <3>1. qs # <<>>
      BY <1>6, <2>3
    <3>2. PICK seg \in Segments : seg = Segment(kind, <<>>)
      BY OnePiece, SegmentIs
    <3>3. seg.kind = kind /\ seg.parts = <<>>
      BY <3>2, OnePiece, SegmentIs
    <3>4. qs = Append(ps, seg)
      BY <2>2, <3>2
    <3>5. Len(qs) = n + 1 /\ qs[n + 1] = seg
      BY <1>6, <3>4, AppendProperties
    <3>6. Last(qs) = seg
      BY <3>5 DEF Last
    <3>7. QED
      BY <3>1, <3>3, <3>6
  <2>5. \A i \in DOMAIN ps : qs[i] = ps[i]
    BY <2>2, EmptyIsAdded
  <2>6. ShownIn(qs) = ShownIn(ps) /\ (Ordered(ps) => Ordered(qs))
    BY <2>2, EmptyIsAdded
  <2>7. QED
    BY <1>6, <2>1, <2>3, <2>4, <2>5, <2>6
<1>8. RunTypes'
  BY <1>1, <1>2, <1>3, <1>4, <1>6, <1>7 DEF RunTypes
<1>9. OpenIsNewest'
  <2> SUFFICES ASSUME openAt > 0, NEW s \in openAt + 1 .. n + 1
               PROVE  qs[s].parts = <<>>
    BY <1>2, <1>4, <1>7 DEF OpenIsNewest
  <2>1. openAt \in 0 .. n
    BY <1>1, <1>3, <1>6 DEF RunTypes
  <2>2. CASE s = n + 1
    BY <1>6, <1>7, <2>2 DEF Last
  <2>3. CASE s # n + 1
    <3>1. s \in openAt + 1 .. n /\ s \in 1 .. n
      BY <1>6, <2>1, <2>3
    <3>2. ps[s].parts = <<>>
      BY <1>1, <1>3, <1>6, <3>1 DEF OpenIsNewest
    <3>3. QED
      BY <1>7, <3>1, <3>2
  <2>4. QED
    BY <2>2, <2>3
<1>10. ShownIn(segments') = ShownIn(segments) /\ Ordered(segments')
  BY <1>1, <1>3, <1>4, <1>7 DEF PiecesAreTold
<1>11. PiecesAreTold'
  BY <1>1, <1>2, <1>10 DEF PiecesAreTold, TasksApart, Matches
<1>12. StackIsUnanswered'
  BY <1>1, <1>2 DEF StackIsUnanswered, TasksApart, Matches
<1>13. QED
  BY <1>4, <1>7, <1>8, <1>9, <1>11, <1>12 DEF TranscriptInv

LEMMA CallKeeps ==
  ASSUME TranscriptInv, NEW id \in TaskId \cup ToolId, Call(id)
  PROVE  TranscriptInv'
<1>1. RunTypes /\ PiecesAreTold /\ StackIsUnanswered
  BY DEF TranscriptInv
<1>2. openAt = 0 /\ openAt' = 0 /\ unanswered' = unanswered \cup {id} /\ id \notin unanswered
      /\ spoken' = spoken /\ disturbed' = disturbed
  BY DEF Call
<1>3. /\ segments' \in Seq(Segments) /\ ShownIn(segments') = ShownIn(segments)
      /\ Ordered(segments')
  <2>1. CASE segments' = segments
    BY <1>1, <2>1 DEF RunTypes, PiecesAreTold
  <2>2. CASE \E kind \in {"subagent", "tool"} : segments' = Append(segments, Segment(kind, <<>>))
    <3>1. PICK kind \in {"subagent", "tool"} : segments' = Append(segments, Segment(kind, <<>>))
      BY <2>2
    <3>2. kind \in Kinds
      BY DEF Kinds
    <3>3. PICK ps \in Seq(Segments) : ps = segments
      BY <1>1 DEF RunTypes
    <3>4. PICK qs : qs = segments'
      OBVIOUS
    <3>5. qs = Append(ps, Segment(kind, <<>>))
      BY <3>1, <3>3, <3>4
    <3>6. qs \in Seq(Segments) /\ ShownIn(qs) = ShownIn(ps) /\ (Ordered(ps) => Ordered(qs))
      BY <3>2, <3>5, EmptyIsAdded
    <3>7. QED
      BY <1>1, <3>3, <3>4, <3>6 DEF PiecesAreTold
  <2>3. QED
    BY <2>1, <2>2 DEF Call
<1>4. OpenIsNewest'
  BY <1>2 DEF OpenIsNewest
<1>5. PiecesAreTold'
  BY <1>1, <1>2, <1>3 DEF PiecesAreTold, TasksApart, Matches
<1>6. PICK st \in Seq(TaskId) : st = taskStack
  BY <1>1 DEF RunTypes
<1>7. PICK n \in Nat : n = Len(st) /\ DOMAIN st = 1 .. n
  BY LenProperties
<1>8. taskStack' \in Seq(TaskId) /\ StackIsUnanswered'
  <2>1. CASE id \in TaskId
    <3>1. PICK new : new = taskStack'
      OBVIOUS
    <3>2. new = Append(st, id)
      BY <1>6, <2>1, <3>1 DEF Call
    <3>3. new \in Seq(TaskId) /\ Len(new) = n + 1 /\ new[n + 1] = id /\ \A i \in 1 .. n : new[i] = st[i]
      BY <1>7, <2>1, <3>2, AppendProperties
    <3>4. DOMAIN new = 1 .. n + 1
      BY <3>3, LenProperties
    <3>5. \A i \in 1 .. n + 1 : i \in 1 .. n \/ i = n + 1
      BY <1>7
    <3>6. ASSUME TasksApart
          PROVE  /\ \A i, j \in 1 .. n + 1 : new[i] = new[j] => i = j
                 /\ \A i \in 1 .. n + 1 : new[i] \in unanswered \cup {id}
      <4>1. /\ \A i, j \in 1 .. n : st[i] = st[j] => i = j
            /\ \A i \in 1 .. n : st[i] \in unanswered
        BY <1>1, <1>6, <1>7, <3>6 DEF StackIsUnanswered
      <4>2. \A i \in 1 .. n : st[i] # id
        BY <1>2, <4>1
      <4>3. QED
        BY <3>3, <3>5, <4>1, <4>2
    <3>7. ToSet(new) = ToSet(st) \cup {id}
      <4>1. \A x : x \in ToSet(new) <=> x \in ToSet(st) \/ x = id
        <5>1. n + 1 \in 1 .. n + 1 /\ \A i \in 1 .. n : i \in 1 .. n + 1
          BY <1>7
        <5>2. QED
          BY <1>7, <3>3, <3>4, <3>5, <5>1 DEF ToSet
      <4>2. QED
        BY <4>1
    <3>8. ~ disturbed => ToSet(new) = (unanswered \cup {id}) \cap TaskId
      BY <1>1, <1>6, <2>1, <3>7 DEF StackIsUnanswered
    <3>9. StackIsUnanswered'
      BY <1>2, <3>1, <3>4, <3>6, <3>8 DEF StackIsUnanswered, TasksApart, Matches
    <3>10. QED
      BY <3>1, <3>3, <3>9
  <2>2. CASE id \notin TaskId
    <3>1. taskStack' = taskStack
      BY <2>2 DEF Call
    <3>2. unanswered' \cap TaskId = unanswered \cap TaskId /\ unanswered \subseteq unanswered'
      BY <1>2, <2>2
    <3>3. StackIsUnanswered'
      BY <1>1, <1>2, <3>1, <3>2 DEF StackIsUnanswered, TasksApart, Matches
    <3>4. QED
      BY <1>6, <3>1, <3>3
  <2>3. QED
    BY <2>1, <2>2
<1>9. RunTypes'
  <2>1. Len(segments') \in Nat
    BY <1>3
  <2>2. QED
    BY <1>1, <1>2, <1>3, <1>8, <2>1 DEF RunTypes
<1>10. QED
  BY <1>4, <1>5, <1>8, <1>9 DEF TranscriptInv

\* What is popped is the newest Task that matches with all above it.
LEMMA PoppedIs ==
  ASSUME taskStack \in Seq(TaskId), NEW id
  PROVE  \E m \in 0 .. Len(taskStack) :
           /\ Popped(id) = SubSeq(taskStack, 1, m)
           /\ \/ \A i \in DOMAIN taskStack : ~ Matches(taskStack[i], id)
              \/ m < Len(taskStack) /\ Matches(taskStack[m + 1], id)
<1>1. PICK st \in Seq(TaskId) : st = taskStack
  OBVIOUS
<1>2. PICK n \in Nat : n = Len(st) /\ DOMAIN st = 1 .. n
  BY LenProperties
<1> DEFINE matching == {i \in DOMAIN taskStack : Matches(taskStack[i], id)}
           newest == CHOOSE i \in matching : \A j \in matching : j <= i
<1>3. Popped(id) = IF matching = {} THEN taskStack ELSE SubSeq(taskStack, 1, newest - 1)
  BY DEF Popped
<1>4. CASE matching = {}
  <2>1. Popped(id) = SubSeq(st, 1, n)
    BY <1>1, <1>2, <1>3, <1>4, SubSeqFull
  <2>2. n \in 0 .. n
    BY <1>2
  <2>3. \A i \in DOMAIN taskStack : ~ Matches(taskStack[i], id)
    BY <1>4
  <2>4. QED
    BY <1>1, <1>2, <2>1, <2>2, <2>3
<1>5. CASE matching # {}
  <2>1. matching \subseteq 0 .. n
    BY <1>1, <1>2
  <2> HIDE DEF matching
  <2>2. \E i \in matching : \A j \in matching : j <= i
    BY <1>2, <1>5, <2>1, GreatestNumber
  <2>3. newest \in matching
    BY <2>2
  <2> HIDE DEF newest
  <2>4. newest \in 1 .. n /\ Matches(taskStack[newest], id)
    BY <1>1, <1>2, <2>3 DEF matching
  <2>5. newest - 1 \in 0 .. n /\ newest - 1 < n /\ (newest - 1) + 1 = newest
    BY <1>2, <2>4
  <2>6. Popped(id) = SubSeq(taskStack, 1, newest - 1)
    BY <1>3, <1>5
  <2>7. QED
    BY <1>1, <1>2, <2>4, <2>5, <2>6
<1>6. QED
  BY <1>4, <1>5

LEMMA ResultKeeps ==
  ASSUME TranscriptInv, NEW id \in TaskId \cup ToolId, Result(id)
  PROVE  TranscriptInv'
<1>1. RunTypes /\ OpenIsNewest /\ PiecesAreTold /\ StackIsUnanswered
  BY DEF TranscriptInv
<1>2. /\ segments' = segments /\ openAt' = openAt /\ spoken' = spoken
      /\ unanswered' = unanswered \ {id} /\ taskStack' = Popped(id)
      /\ ~ disturbed' => ~ disturbed
      /\ ~ disturbed' => ToSet(taskStack) \ ToSet(taskStack') = {id} \cap ToSet(taskStack)
  BY DEF Result
<1>3. PICK st \in Seq(TaskId) : st = taskStack
  BY <1>1 DEF RunTypes
<1>4. PICK n \in Nat : n = Len(st) /\ DOMAIN st = 1 .. n
  BY LenProperties
<1>5. PICK m \in 0 .. n :
        /\ Popped(id) = SubSeq(st, 1, m)
        /\ \/ \A i \in 1 .. n : ~ Matches(st[i], id)
           \/ m < n /\ Matches(st[m + 1], id)
  BY <1>3, <1>4, PoppedIs
<1>6. PICK new : new = taskStack'
  OBVIOUS
<1>7. /\ new \in Seq(TaskId) /\ DOMAIN new = 1 .. m /\ \A i \in 1 .. m : new[i] = st[i]
  <2>1. new = SubSeq(st, 1, m)
    BY <1>2, <1>5, <1>6
  <2>2. m \in Int /\ 1 \in Int /\ \A i \in 1 .. m : st[i] \in TaskId
    BY <1>4
  <2>3. /\ new \in Seq(TaskId) /\ Len(new) = IF 1 <= m THEN m - 1 + 1 ELSE 0
        /\ \A i \in 1 .. m - 1 + 1 : new[i] = st[1 + i - 1]
    BY <2>1, <2>2, SubSeqProperties
  <2>4. Len(new) = m
    BY <1>4, <2>3
  <2>5. DOMAIN new = 1 .. m
    BY <2>3, <2>4, LenProperties
  <2>6. ASSUME NEW i \in 1 .. m
        PROVE  new[i] = st[i]
    <3>1. i \in 1 .. m - 1 + 1 /\ 1 + i - 1 = i
      BY <1>4
    <3>2. QED
      BY <2>3, <3>1
  <2>7. QED
    BY <2>3, <2>5, <2>6
<1>8. 1 .. m \subseteq 1 .. n
  BY <1>4
<1>9. ToSet(new) \subseteq ToSet(st)
  BY <1>4, <1>7, <1>8 DEF ToSet
<1>10. ASSUME TasksApart
       PROVE  /\ \A i, j \in 1 .. m : new[i] = new[j] => i = j
              /\ \A i \in 1 .. m : new[i] \in unanswered \ {id}
  <2>1. /\ \A i, j \in 1 .. n : st[i] = st[j] => i = j
        /\ \A i \in 1 .. n : st[i] \in unanswered
    BY <1>1, <1>3, <1>4, <1>10 DEF StackIsUnanswered
  <2>2. \A i \in 1 .. n : st[i] \in TaskId
    BY <1>4
  <2>3. ASSUME NEW i \in 1 .. m
        PROVE  st[i] # id
    <3>1. CASE \A k \in 1 .. n : ~ Matches(st[k], id)
      BY <1>8, <3>1 DEF Matches
    <3>2. CASE m < n /\ Matches(st[m + 1], id)
      <4> SUFFICES ASSUME st[i] = id
                   PROVE  FALSE
        OBVIOUS
      <4>1. m + 1 \in 1 .. n /\ i \in 1 .. n /\ i # m + 1
        BY <1>4, <3>2
      <4>2. id \in TaskId /\ st[m + 1] \in TaskId
        BY <2>2, <4>1
      <4>3. st[m + 1] = id
        BY <1>10, <3>2, <4>2 DEF TasksApart
      <4>4. QED
        BY <2>1, <4>1, <4>3
    <3>3. QED
      BY <1>5, <3>1, <3>2
  <2>4. QED
    BY <1>7, <1>8, <2>1, <2>3
<1>11. ASSUME ~ disturbed'
       PROVE  ToSet(new) = (unanswered \ {id}) \cap TaskId
  <2>1. ToSet(st) = unanswered \cap TaskId
    BY <1>1, <1>2, <1>3, <1>11 DEF StackIsUnanswered
  <2>2. ToSet(st) \ ToSet(new) = {id} \cap ToSet(st)
    BY <1>2, <1>3, <1>6, <1>11
  <2>3. QED
    BY <1>9, <2>1, <2>2
<1>12. StackIsUnanswered'
  BY <1>2, <1>6, <1>7, <1>10, <1>11 DEF StackIsUnanswered, TasksApart, Matches
<1>13. RunTypes'
  BY <1>1, <1>2, <1>6, <1>7 DEF RunTypes
<1>14. OpenIsNewest'
  BY <1>1, <1>2 DEF OpenIsNewest
<1>15. PiecesAreTold'
  BY <1>1, <1>2 DEF PiecesAreTold, TasksApart, Matches
<1>16. QED
  BY <1>12, <1>13, <1>14, <1>15 DEF TranscriptInv

\* A forced update shows the transcript as it is now.
LEMMA UpdateShows ==
  ASSUME NEW status, UpdateMessage(status, TRUE)
  PROVE  displayed' = Render(segments', status)
<1>1. Edit(status)
  BY DEF UpdateMessage
<1>2. CASE Render(segments', status) = displayed
  BY <1>1, <1>2 DEF Edit
<1>3. CASE Render(segments', status) # displayed
  BY <1>1, <1>3 DEF Edit
<1>4. QED
  BY <1>2, <1>3

\* The end of a run.
LEMMA EndShows ==
  ASSUME NEW status, UpdateMessage(status, TRUE),
         status = IF runEnd' = "failed" THEN "complete" ELSE runEnd',
         runEnd' \in {"failed", "cancelled", "raised", "full"} =>
           segments' # <<>> /\ Last(segments').kind = "error"
  PROVE  EndIsShown'
<1>1. displayed' = Render(segments', status)
  BY UpdateShows
<1>2. QED
  BY <1>1 DEF EndIsShown

LEMMA ExitKeeps ==
  ASSUME TranscriptInv, NEW fails \in BOOLEAN, ExitEvent(fails)
  PROVE  StatusInv'
<1>1. UpdateMessage("complete", TRUE) /\ runEnd' = (IF fails THEN "failed" ELSE "complete")
  BY DEF ExitEvent
<1>2. CASE fails
  <2>1. Fault /\ runEnd' = "failed"
    BY <1>1, <1>2 DEF ExitEvent
  <2>2. TranscriptInv' /\ segments' # <<>> /\ Last(segments').kind = "error"
    BY <2>1, FaultKeeps
  <2>3. EndIsShown'
    BY <1>1, <2>1, <2>2, EndShows
  <2>4. QED
    BY <2>2, <2>3 DEF StatusInv
<1>3. CASE ~ fails
  <2>1. runEnd' = "complete"
    BY <1>1, <1>3
  <2>2. EndIsShown'
    <3>1. "complete" = IF runEnd' = "failed" THEN "complete" ELSE runEnd'
      BY <2>1
    <3>2. ~ (runEnd' \in {"failed", "cancelled", "raised", "full"})
      BY <2>1
    <3>3. QED
      BY <1>1, <3>1, <3>2, EndShows
  <2>3. TranscriptInv'
    <3>1. CASE segments = <<>> /\ spoken = <<>>
      <4>1. Chunk("text")
        BY <1>3, <3>1 DEF ExitEvent
      <4>2. "text" \in Kinds
        BY DEF Kinds
      <4>3. QED
        BY <4>1, <4>2, ChunkKeeps
    <3>2. CASE ~ (segments = <<>> /\ spoken = <<>>)
      <4>1. UNCHANGED <<segments, openAt, taskStack, unanswered, spoken, disturbed>>
        BY <1>3, <3>2 DEF ExitEvent
      <4>2. QED
        BY <4>1, SameTranscript
    <3>3. QED
      BY <3>1, <3>2
  <2>4. QED
    BY <2>2, <2>3 DEF StatusInv
<1>4. QED
  BY <1>2, <1>3

LEMMA InterruptionKeeps ==
  ASSUME TranscriptInv, NEW how \in {"stopped", "cancelled", "raised", "full"}, RunInterrupted(how)
  PROVE  StatusInv'
<1>1. UpdateMessage(how, TRUE) /\ runEnd' = how
  BY DEF RunInterrupted
<1>2. how = IF runEnd' = "failed" THEN "complete" ELSE runEnd'
  BY <1>1
<1>3. CASE how = "stopped"
  <2>1. UNCHANGED <<segments, openAt, taskStack, unanswered, spoken, disturbed>>
    BY <1>3 DEF RunInterrupted
  <2>2. TranscriptInv'
    BY <2>1, SameTranscript
  <2>3. EndIsShown'
    BY <1>1, <1>2, <1>3, EndShows
  <2>4. QED
    BY <2>2, <2>3 DEF StatusInv
<1>4. CASE how # "stopped"
  <2>1. Fault
    BY <1>4 DEF RunInterrupted
  <2>2. TranscriptInv' /\ segments' # <<>> /\ Last(segments').kind = "error"
    BY <2>1, FaultKeeps
  <2>3. EndIsShown'
    BY <1>1, <1>2, <2>2, EndShows
  <2>4. QED
    BY <2>2, <2>3 DEF StatusInv
<1>5. QED
  BY <1>3, <1>4

\* While it runs, nothing is promised of what is displayed.
LEMMA NotEnded ==
  ASSUME runEnd = "running", runEnd' = runEnd
  PROVE  EndIsShown'
BY DEF EndIsShown

LEMMA NextStatusInv ==
  ASSUME StatusInv, [StatusNext]_statusVars
  PROVE  StatusInv'
<1>1. TranscriptInv /\ EndIsShown
  BY DEF StatusInv
<1>2. ASSUME NEW kind \in Said, SayEvent(kind)
      PROVE  StatusInv'
  <2>1. Chunk(kind) \/ BlockStart(kind) \/ BlockDelta(kind)
    BY <1>2 DEF SayEvent
  <2>2. kind \in Kinds
    BY DEF Kinds
  <2>3. TranscriptInv'
    BY <1>1, <2>1, <2>2, ChunkKeeps, BlockStartKeeps, BlockDeltaKeeps
  <2>4. runEnd = "running" /\ runEnd' = runEnd
    BY <1>2 DEF SayEvent, Running, ShowEvent
  <2>5. QED
    BY <2>3, <2>4, NotEnded DEF StatusInv
<1>3. ASSUME StopEvent
      PROVE  StatusInv'
  <2>1. BlockStop /\ runEnd = "running" /\ runEnd' = runEnd
    BY <1>3 DEF StopEvent, Running
  <2>2. QED
    BY <1>1, <2>1, BlockStopKeeps, NotEnded DEF StatusInv
<1>4. ASSUME ErrorEvent
      PROVE  StatusInv'
  <2>1. Fault /\ runEnd = "running" /\ runEnd' = runEnd
    BY <1>4 DEF ErrorEvent, Running
  <2>2. QED
    BY <1>1, <2>1, FaultKeeps, NotEnded DEF StatusInv
<1>5. ASSUME NEW id \in TaskId \cup ToolId, CallEvent(id)
      PROVE  StatusInv'
  <2>1. Call(id) /\ runEnd = "running" /\ runEnd' = runEnd
    BY <1>5 DEF CallEvent, Running, ShowEvent
  <2>2. QED
    BY <1>1, <2>1, CallKeeps, NotEnded DEF StatusInv
<1>6. ASSUME NEW id \in TaskId \cup ToolId, ResultEvent(id)
      PROVE  StatusInv'
  <2>1. Result(id) /\ runEnd = "running" /\ runEnd' = runEnd
    BY <1>6 DEF ResultEvent, Running, ShowEvent
  <2>2. QED
    BY <1>1, <2>1, ResultKeeps, NotEnded DEF StatusInv
<1>7. ASSUME NEW fails \in BOOLEAN, ExitEvent(fails)
      PROVE  StatusInv'
  BY <1>1, <1>7, ExitKeeps
<1>8. ASSUME NEW how \in {"stopped", "cancelled", "raised", "full"}, RunInterrupted(how)
      PROVE  StatusInv'
  BY <1>1, <1>8, InterruptionKeeps
<1>9. CASE UNCHANGED statusVars
  <2>1. TranscriptInv'
    BY <1>1, <1>9, SameTranscript DEF statusVars
  <2>2. EndIsShown'
    BY <1>1, <1>9 DEF EndIsShown, statusVars
  <2>3. QED
    BY <2>1, <2>2 DEF StatusInv
<1>10. QED
  BY <1>2, <1>3, <1>4, <1>5, <1>6, <1>7, <1>8, <1>9 DEF StatusNext

\* The transcript of a run (TranscriptBuffer.apply) and the message that shows it
\* (ThrottledTranscriptEditor.update) at every point of the pipeline: the transcript has its
\* pieces in order, the open block has the newest of them, the stack of Tasks has those
\* without a result, and what was handed over at the end is the end of the transcript.
THEOREM StatusInductive == StatusSpec => []StatusInv
<1>1. StatusInit => StatusInv
  BY InitStatusInv
<1>2. StatusInv /\ [StatusNext]_statusVars => StatusInv'
  BY NextStatusInv
<1>3. QED
  BY <1>1, <1>2, PTL DEF StatusSpec

LEMMA ShownIsTold ==
  ASSUME StatusInv
  PROVE  TranscriptTellsAll
<1>1. PiecesAreTold /\ RunTypes
  BY DEF StatusInv, TranscriptInv
<1>2. Shown = ShownIn(segments)
  BY DEF Shown, ShownIn
<1>3. \A s, t \in DOMAIN segments :
        \A k \in DOMAIN segments[s].parts, l \in DOMAIN segments[t].parts :
          s < t \/ (s = t /\ k < l) => segments[s].parts[k] < segments[t].parts[l]
  BY <1>1 DEF PiecesAreTold, Ordered
<1>4. TasksApart => SpokenOutsideTasks \subseteq Shown
  BY <1>1, <1>2 DEF PiecesAreTold, SpokenOutsideTasks
<1>5. ~ disturbed => Shown = SpokenOutsideTasks
  BY <1>1, <1>2 DEF PiecesAreTold, SpokenOutsideTasks
<1>6. QED
  BY <1>3, <1>4, <1>5 DEF TranscriptTellsAll

LEMMA EndIsSeen ==
  ASSUME StatusInv
  PROVE  ChatShowsTheEnd
<1> SUFFICES ASSUME runEnd # "running"
             PROVE  ChatShowsTheEnd
  BY DEF ChatShowsTheEnd
<1>1. PICK ps \in Seq(Segments) : ps = segments
  BY DEF StatusInv, TranscriptInv, RunTypes
<1>2. PICK status : status = IF runEnd = "failed" THEN "complete" ELSE runEnd
  OBVIOUS
<1>3. displayed = Render(ps, status)
  BY <1>1, <1>2 DEF StatusInv, EndIsShown
<1>4. displayed.status = status /\ Renders(displayed, DrawnSegments(ps))
  BY <1>3, RenderShows
<1>5. ASSUME runEnd \in {"failed", "cancelled", "raised", "full"}
      PROVE  Last(displayed.body).kind = "error"
  <2>1. ps # <<>> /\ Last(ps).kind = "error"
    BY <1>1, <1>5 DEF StatusInv, EndIsShown
  <2>2. Visible(ps[Len(ps)])
    BY <2>1 DEF Visible, Last
  <2>3. DrawnSegments(ps) # <<>> /\ Last(DrawnSegments(ps)).kind = Last(ps).kind
    BY <2>1, <2>2, DrawnSegmentsAre
  <2>4. QED
    BY <1>4, <2>1, <2>3 DEF Renders
<1>6. DrawnSegments(segments) # <<>> =>
        LET newest == Last(DrawnSegments(segments)) IN
        /\ displayed.body # <<>>
        /\ Last(displayed.body).kind = newest.kind
        /\ \E n \in 0 .. Len(newest.parts) :
             Last(displayed.body).parts = SubSeq(newest.parts, n + 1, Len(newest.parts))
  BY <1>1, <1>4 DEF Renders
<1>7. SizeOf(displayed.body) < ShownLimit
  BY <1>4 DEF Renders
<1>8. QED
  BY <1>2, <1>4, <1>5, <1>6, <1>7 DEF ChatShowsTheEnd

\* The user of a chat is shown all that the main agent says, in its order, where no Task's id
\* begins with another's; and when the run has ended, the end of its transcript within the
\* limit of a message, the error of a failed run with it (TranscriptBuffer.apply,
\* render_segments, ThrottledTranscriptEditor.update).
THEOREM UserSeesTheRunCorrect == StatusSpec => []UserSeesTheRun
<1>1. StatusInv => UserSeesTheRun
  BY ShownIsTold, EndIsSeen DEF UserSeesTheRun
<1>2. QED
  BY <1>1, StatusInductive, PTL
-----------------------------------------------------------------------------
(* The file of the session store.                                          *)

\* Types and carriers hold at the start.
LEMMA InitCarried == Init => TypeOK /\ UnsavedIsCarried
<1> SUFFICES ASSUME Init PROVE TypeOK /\ UnsavedIsCarried
  OBVIOUS
<1>1. thread \in [Writer -> ThreadState]
  BY DEF Init, ThreadState
<1>2. claimed \in [Writer -> 0 .. gen] /\ snap \in [Writer -> 0 .. version]
  BY DEF Init
<1>3. TypeOK
  <2>1. gen \in 0 .. MaxSaves
    BY PersistenceAssumption DEF Init
  <2>2. clearedAt \subseteq 1 .. version /\ dirty \in BOOLEAN
    BY DEF Init
  <2> QED
    BY <1>1, <1>2, <2>1, <2>2 DEF Init, TypeOK
<1>4. UnsavedIsCarried
  BY DEF Init, UnsavedIsCarried
<1> QED
  BY <1>3, <1>4

\* A step that moves a thread leaves it in a known place.
LEMMA GoesType ==
  ASSUME thread \in [Writer -> ThreadState], NEW w \in Writer, NEW s \in ThreadState, Goes(w, s)
  PROVE  thread' \in [Writer -> ThreadState] /\ \A u \in Writer \ {w} : thread'[u] = thread[u]
  BY DEF Goes

\* A thread that is past its wait may go anywhere: the timer's is another.
LEMMA WriterMoves ==
  ASSUME PersistenceAssumption, TypeOK, NEW w \in Writer, NEW s \in ThreadState, Goes(w, s),
         thread[w] \notin {"armed", "fired"}, timer' = timer
  PROVE  /\ thread' \in [Writer -> ThreadState]
         /\ timer' # 0 => thread'[timer'] \in {"armed", "fired"}
<1>1. thread \in [Writer -> ThreadState] /\ (timer # 0 => thread[timer] \in {"armed", "fired"})
  BY DEF TypeOK
<1>2. thread' \in [Writer -> ThreadState] /\ \A u \in Writer \ {w} : thread'[u] = thread[u]
  BY <1>1, GoesType
<1>3. timer # 0 => timer \in Writer
  BY DEF TypeOK, PersistenceAssumption, Writer, Timer
<1>4. QED
  BY ONLY <1>1, <1>2, <1>3, thread[w] \notin {"armed", "fired"}, timer' = timer, w \in Writer

\* The types of a step that neither saves nor claims.
LEMMA TypesStay ==
  ASSUME TypeOK, UNCHANGED <<storeVars, timerVars, claimed>>, dirty' \in BOOLEAN,
         thread' \in [Writer -> ThreadState],
         timer' # 0 => thread'[timer'] \in {"armed", "fired"},
         snap' \in [Writer -> 0 .. version],
         file' \in 0 .. version, written' \in 0 .. version, failed' \in 0 .. version
  PROVE  TypeOK'
<1>1. /\ version' = version /\ clearedAt' = clearedAt /\ wipes' = wipes /\ flushes' = flushes
      /\ gen' = gen /\ timer' = timer /\ claimed' = claimed
  BY DEF storeVars, timerVars
<1>2. snap' \in [Writer -> 0 .. version']
  BY <1>1
<1>3. file' \in 0 .. version' /\ written' \in 0 .. version' /\ failed' \in 0 .. version'
  BY <1>1
<1>4. /\ version' \in Nat /\ clearedAt' \subseteq 1 .. version' /\ wipes' \in Nat
      /\ flushes' \in Nat /\ gen' \in 0 .. MaxSaves /\ timer' \in {0, gen'}
  BY <1>1 DEF TypeOK
<1>5. claimed' \in [Writer -> 0 .. gen']
  BY <1>1 DEF TypeOK
<1>6. (timer # 0 => thread[timer] \in {"armed", "fired"})'
  OBVIOUS
<1>7. QED
  BY <1>2, <1>3, <1>4, <1>5, <1>6 DEF TypeOK

\* A step keeps the types, and the timer's thread waiting for it or on its way.
LEMMA NextType == TypeOK /\ [Next]_vars => TypeOK'
<1> SUFFICES ASSUME TypeOK, [Next]_vars PROVE TypeOK'
  OBVIOUS
<1> USE PersistenceAssumption DEF TypeOK, storeVars, timerVars, fileVars
<1>0. /\ Timer \subseteq Writer /\ Loop \in Writer /\ Loop \notin Timer
      /\ Timer = 1 .. MaxSaves
      /\ timer # 0 => timer \in Timer
  BY DEF Writer, Timer
<1>a. /\ {"idle", "armed", "fired", "claimed", "writing"} \subseteq ThreadState
      /\ {"written", "clean", "clearing", "done"} \subseteq ThreadState
  BY DEF ThreadState
<1>b. ASSUME NEW w \in Writer, End(w), thread[w] \notin {"armed", "fired"}
      PROVE  /\ thread' \in [Writer -> ThreadState]
             /\ timer # 0 => thread'[timer] \in {"armed", "fired"}
  BY <1>0, <1>a, <1>b DEF End, Goes
<1>1. CASE Save
  <2>0. Cancelled(timer) \in [Writer -> ThreadState]
    BY <1>0, <1>a DEF Cancelled
  <2>1. thread' \in [Writer -> ThreadState] /\ thread'[gen + 1] = "armed"
    <3>1. gen + 1 \in Writer
      BY <1>0, <1>1 DEF Save
    <3> QED
      BY <1>a, <1>1, <2>0, <3>1 DEF Save
  <2>2. claimed' \in [Writer -> 0 .. gen'] /\ snap' \in [Writer -> 0 .. version']
    BY <1>1 DEF Save
  <2> QED
    BY <2>1, <2>2, <1>1 DEF Save
<1>2. CASE FlushClaims
  <2>1. thread' \in [Writer -> ThreadState]
    BY <1>0, <1>a, <1>2 DEF FlushClaims, Cancelled
  <2> QED
    BY <2>1, <1>2 DEF FlushClaims
<1>3. CASE ClearStore
  <2>1. thread' \in [Writer -> ThreadState] /\ \A u \in Writer \ {Loop} : thread'[u] = thread[u]
    <3>1. Goes(Loop, "clearing")
      BY <1>3 DEF ClearStore
    <3> QED
      BY <1>0, <1>a, <3>1, GoesType
  <2>2. snap' \in [Writer -> 0 .. version'] /\ clearedAt' \subseteq 1 .. version'
    <3>0. 0 .. version \subseteq 0 .. version' /\ version' \in 0 .. version'
      BY <1>3 DEF ClearStore
    <3>1. snap' \in [Writer -> 0 .. version']
      BY <1>0, <1>3, <3>0 DEF ClearStore
    <3>2. clearedAt' \subseteq 1 .. version'
      BY <1>3 DEF ClearStore
    <3> QED
      BY <3>1, <3>2
  <2> QED
    <3>1. timer' # 0 => thread'[timer'] \in {"armed", "fired"}
      BY <1>0, <2>1, <1>3 DEF ClearStore
    <3>2. file' \in 0 .. version' /\ written' \in 0 .. version' /\ failed' \in 0 .. version'
      BY <1>3 DEF ClearStore
    <3>3. version' \in Nat /\ wipes' \in Nat /\ flushes' \in Nat
      BY <1>3 DEF ClearStore
    <3>4. dirty' \in BOOLEAN
      BY <1>3 DEF ClearStore
    <3>5. gen' \in 0 .. MaxSaves /\ timer' \in {0, gen'} /\ claimed' \in [Writer -> 0 .. gen']
      BY <1>3 DEF ClearStore
    <3>6. (timer # 0 => thread[timer] \in {"armed", "fired"})'
      BY <3>1
    <3> QED
      BY ONLY <2>1, <2>2, <3>2, <3>3, <3>5, <3>6, <3>4 DEF TypeOK
<1>4. CASE ClearWrites
  <2>1. thread' \in [Writer -> ThreadState] /\ \A u \in Writer \ {Loop} : thread'[u] = thread[u]
    <3>1. Goes(Loop, "idle")
      BY <1>4 DEF ClearWrites
    <3> QED
      BY <1>0, <1>a, <3>1, GoesType
  <2> QED
    BY <1>0, <2>1, <1>4 DEF ClearWrites, Later
<1>5. ASSUME NEW t \in Timer, Fire(t) PROVE TypeOK'
  BY <1>0, <1>a, <1>5 DEF Fire, Goes
<1>6. ASSUME NEW t \in Timer, TimerClaims(t) PROVE TypeOK'
  <2>1. /\ thread' \in [Writer -> ThreadState]
        /\ timer' # 0 => thread'[timer'] \in {"armed", "fired"}
    BY <1>0, <1>a, <1>6 DEF TimerClaims, Goes
  <2>2. gen' = gen /\ timer' \in {0, timer}
    BY <1>6 DEF TimerClaims
  <2>3. claimed' = claimed \/ claimed' = [claimed EXCEPT ![t] = gen]
    BY <1>6 DEF TimerClaims
  <2>4. claimed' \in [Writer -> 0 .. gen'] /\ timer' \in {0, gen'}
    <3>1. claimed \in [Writer -> 0 .. gen] /\ gen \in 0 .. gen /\ timer \in {0, gen}
      OBVIOUS
    <3>2. QED
      BY ONLY <2>2, <2>3, <3>1
  <2>5. version' = version /\ clearedAt' = clearedAt /\ wipes' = wipes /\ flushes' = flushes
        /\ dirty' = dirty /\ snap' = snap /\ file' = file /\ written' = written
        /\ failed' = failed
    BY <1>6 DEF TimerClaims
  <2>6. snap' \in [Writer -> 0 .. version'] /\ clearedAt' \subseteq 1 .. version'
    BY <2>5
  <2>7. /\ version' \in Nat /\ wipes' \in Nat /\ flushes' \in Nat /\ dirty' \in BOOLEAN
        /\ gen' \in 0 .. MaxSaves
    BY <2>2, <2>5
  <2>8. file' \in 0 .. version' /\ written' \in 0 .. version' /\ failed' \in 0 .. version'
    BY <2>5
  <2>9. (timer # 0 => thread[timer] \in {"armed", "fired"})'
    BY <2>1
  <2> QED
    BY ONLY <2>1, <2>4, <2>6, <2>7, <2>8, <2>9 DEF TypeOK
<1>c. /\ \A w \in Writer : snap[w] \in 0 .. version
      /\ snap \in [Writer -> 0 .. version] /\ version \in 0 .. version /\ dirty \in BOOLEAN
      /\ file \in 0 .. version /\ written \in 0 .. version /\ failed \in 0 .. version
  OBVIOUS
<1>d. ASSUME NEW w \in Writer, End(w)
      PROVE  \E s \in ThreadState : Goes(w, s)
  BY <1>a, <1>d DEF End
<1>e. ASSUME NEW m \in 0 .. version, NEW n \in 0 .. version
      PROVE  Later(m, n) \in 0 .. version
  BY DEF Later
<1> HIDE DEF TypeOK
<1>7. ASSUME NEW w \in Writer, Snapshot(w) PROVE TypeOK'
  <2>1. Goes(w, "writing") /\ thread[w] \notin {"armed", "fired"} /\ timer' = timer
    BY <1>7 DEF Snapshot
  <2>2. /\ thread' \in [Writer -> ThreadState]
        /\ timer' # 0 => thread'[timer'] \in {"armed", "fired"}
    BY <1>a, <2>1, WriterMoves
  <2>3. snap' \in [Writer -> 0 .. version]
    BY <1>7, <1>c DEF Snapshot
  <2>4. /\ dirty' \in BOOLEAN /\ file' \in 0 .. version /\ written' \in 0 .. version
        /\ failed' \in 0 .. version /\ UNCHANGED <<storeVars, timerVars, claimed>>
    BY <1>7, <1>c DEF Snapshot
  <2>5. QED
    BY <2>2, <2>3, <2>4, TypesStay
<1>8. ASSUME NEW w \in Writer, Write(w) PROVE TypeOK'
  <2>1. Goes(w, "written") /\ thread[w] \notin {"armed", "fired"} /\ timer' = timer
    BY <1>8 DEF Write
  <2>2. /\ thread' \in [Writer -> ThreadState]
        /\ timer' # 0 => thread'[timer'] \in {"armed", "fired"}
    BY <1>a, <2>1, WriterMoves
  <2>3. snap' \in [Writer -> 0 .. version] /\ dirty' \in BOOLEAN
    BY <1>8, <1>c DEF Write
  <2>4. /\ file' \in 0 .. version /\ written' \in 0 .. version /\ failed' \in 0 .. version
        /\ UNCHANGED <<storeVars, timerVars, claimed>>
    BY <1>8, <1>c, <1>e DEF Write
  <2>5. QED
    BY <2>2, <2>3, <2>4, TypesStay
<1>9. ASSUME NEW w \in Writer, WriteFails(w) PROVE TypeOK'
  <2>1. End(w) /\ thread[w] \notin {"armed", "fired"} /\ timer' = timer
    BY <1>9 DEF WriteFails
  <2>2. /\ thread' \in [Writer -> ThreadState]
        /\ timer' # 0 => thread'[timer'] \in {"armed", "fired"}
    BY <1>d, <2>1, WriterMoves
  <2>3. snap' \in [Writer -> 0 .. version] /\ dirty' \in BOOLEAN
    BY <1>9, <1>c DEF WriteFails
  <2>4. /\ file' \in 0 .. version /\ written' \in 0 .. version /\ failed' \in 0 .. version
        /\ UNCHANGED <<storeVars, timerVars, claimed>>
    BY <1>9, <1>c, <1>e DEF WriteFails
  <2>5. QED
    BY <2>2, <2>3, <2>4, TypesStay
<1>10. ASSUME NEW w \in Writer, ChecksCurrent(w) PROVE TypeOK'
  <2>1. Goes(w, "clean") \/ End(w)
    BY <1>10 DEF ChecksCurrent
  <2>2. thread[w] \notin {"armed", "fired"} /\ timer' = timer
    BY <1>10 DEF ChecksCurrent
  <2>3. /\ thread' \in [Writer -> ThreadState]
        /\ timer' # 0 => thread'[timer'] \in {"armed", "fired"}
    BY <1>a, <1>d, <2>1, <2>2, WriterMoves
  <2>4. /\ snap' \in [Writer -> 0 .. version] /\ dirty' \in BOOLEAN
        /\ file' \in 0 .. version /\ written' \in 0 .. version /\ failed' \in 0 .. version
        /\ UNCHANGED <<storeVars, timerVars, claimed>>
    BY <1>10, <1>c DEF ChecksCurrent
  <2>5. QED
    BY <2>3, <2>4, TypesStay
<1>11. ASSUME NEW w \in Writer, MarksClean(w) PROVE TypeOK'
  <2>1. End(w) /\ thread[w] \notin {"armed", "fired"} /\ timer' = timer
    BY <1>11 DEF MarksClean
  <2>2. /\ thread' \in [Writer -> ThreadState]
        /\ timer' # 0 => thread'[timer'] \in {"armed", "fired"}
    BY <1>d, <2>1, WriterMoves
  <2>3. /\ snap' \in [Writer -> 0 .. version] /\ dirty' \in BOOLEAN
        /\ file' \in 0 .. version /\ written' \in 0 .. version /\ failed' \in 0 .. version
        /\ UNCHANGED <<storeVars, timerVars, claimed>>
    BY <1>11, <1>c DEF MarksClean
  <2>4. QED
    BY <2>2, <2>3, TypesStay
<1>12. CASE UNCHANGED vars
  BY <1>12 DEF vars, TypeOK
<1> QED
  BY <1>1, <1>2, <1>3, <1>4, <1>5, <1>6, <1>7, <1>8, <1>9, <1>10, <1>11, <1>12 DEF Next, WriterStep

\* A carrier is handed from the timer to a writer, and dropped only when its version
\* is in the file, or could not be written.
LEMMA NextCarried == TypeOK /\ UnsavedIsCarried /\ [Next]_vars => UnsavedIsCarried'
<1> SUFFICES ASSUME TypeOK, UnsavedIsCarried, [Next]_vars PROVE UnsavedIsCarried'
  OBVIOUS
<1> USE PersistenceAssumption
    DEF TypeOK, UnsavedIsCarried, Writer, Timer, ThreadState, storeVars, timerVars, fileVars
<1>1. CASE Save
  BY <1>1 DEF Save
<1>2. CASE FlushClaims
  <2>1. thread'[Loop] = "claimed"
    BY <1>2 DEF FlushClaims, Cancelled
  <2> QED
    BY <2>1
<1>3. CASE ClearStore
  <2>1. thread'[Loop] = "clearing" /\ snap'[Loop] = version'
    BY <1>3 DEF ClearStore, Goes
  <2> QED
    BY <2>1
<1>4. CASE ClearWrites
  BY <1>4 DEF ClearWrites, Goes, Later
<1>5. ASSUME NEW t \in Timer, Fire(t) PROVE UnsavedIsCarried'
  BY <1>5 DEF Fire, Goes
<1>6. ASSUME NEW t \in Timer, TimerClaims(t) PROVE UnsavedIsCarried'
  BY <1>6 DEF TimerClaims, Goes
<1>7. ASSUME NEW w \in Writer, Snapshot(w) PROVE UnsavedIsCarried'
  BY <1>7 DEF Snapshot, Goes
<1>8. ASSUME NEW w \in Writer, Write(w) PROVE UnsavedIsCarried'
  BY <1>8 DEF Write, Goes, Later
<1>9. ASSUME NEW w \in Writer, WriteFails(w) PROVE UnsavedIsCarried'
  BY <1>9 DEF WriteFails, End, Goes, Later
<1>10. ASSUME NEW w \in Writer, ChecksCurrent(w) PROVE UnsavedIsCarried'
  BY <1>10 DEF ChecksCurrent, End, Goes
<1>11. ASSUME NEW w \in Writer, MarksClean(w) PROVE UnsavedIsCarried'
  BY <1>11 DEF MarksClean, End, Goes
<1>12. CASE UNCHANGED vars
  BY <1>12 DEF vars
<1> QED
  BY <1>1, <1>2, <1>3, <1>4, <1>5, <1>6, <1>7, <1>8, <1>9, <1>10, <1>11, <1>12 DEF Next, WriterStep

\* Every variable keeps its type, and the timer in _save_timer is one that has not run.
THEOREM PersistenceTypes == Spec => []TypeOK
  BY InitCarried, NextType, PTL DEF Spec

\* No interleaving of timers, flush and clear_all forgets a change: it is in the file,
\* its write has failed, or somebody carries it.
THEOREM UnsavedIsCarriedCorrect == Spec => []UnsavedIsCarried
<1>1. TypeOK /\ UnsavedIsCarried /\ [Next]_vars => (TypeOK /\ UnsavedIsCarried)'
  BY NextType, NextCarried
<1> QED
  BY InitCarried, <1>1, PTL DEF Spec

\* An old timer's thread cannot consume a newer save.
THEOREM TimerTakenByItsOwnCorrect == Spec => TimerTakenByItsOwn
<1> DEFINE Takes == timer # 0 /\ timer' = 0 =>
                      \E w \in {timer, Loop} : thread[w] # "claimed" /\ thread'[w] = "claimed"
<1>1. TypeOK /\ [Next]_vars => [Takes]_vars
  <2> SUFFICES ASSUME TypeOK, Next, timer # 0, timer' = 0 PROVE Takes
    BY DEF vars
  <2> USE PersistenceAssumption DEF TypeOK, Writer, Timer, storeVars, timerVars, fileVars
  <2>1. CASE FlushClaims
    BY <2>1 DEF FlushClaims, Cancelled
  <2>2. ASSUME NEW t \in Timer, TimerClaims(t) PROVE Takes
    BY <2>2 DEF TimerClaims, Goes
  <2> QED
    BY <2>1, <2>2 DEF Next, WriterStep, Save, Fire, ClearStore, ClearWrites, Snapshot, Write,
                      WriteFails, ChecksCurrent, MarksClean
<1>2. TimerTakenByItsOwn <=> [][Takes]_vars
  BY DEF TimerTakenByItsOwn
<1> QED
  BY PersistenceTypes, <1>1, <1>2, PTL DEF Spec
=============================================================================
