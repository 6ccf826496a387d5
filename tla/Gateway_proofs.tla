--------------------------- MODULE Gateway_proofs ---------------------------
(***************************************************************************)
(* Proofs about components that MCGateway puts side by side: the agent of  *)
(* the command line (AgentLoop), the requests of the gateway               *)
(* (MessagesGateway), the outbox of the messaging side (MessageLimiter),   *)
(* what the models are shown of a conversation (ContextHistory), and the   *)
(* response that is made of a message (ResponsesStream).  They share no    *)
(* state, and neither do their proofs.                                     *)
(***************************************************************************)
EXTENDS MessageLimiter, AgentLoop, MessagesGateway, ContextHistory, ResponsesStream,
        PrefixInduction, FunctionTheorems, FiniteSetTheorems, SequenceTheorems, TLAPS

-----------------------------------------------------------------------------
(* The agent: its exchanges, and what it tells of a turn.                  *)

\* The exchanges that are kept and sent, and what is told between two turns.
AgentMessage == [role : {"user", "assistant", "directive", "tool", "notice"}, calls : Nat]

Exchange(s) == s \in Seq(AgentMessage) /\ Answered(s)

Knowledge == [plan : {"", "confirms", "step", "word"}, files : BOOLEAN]

AInv ==
    /\ Exchange(history) /\ Exchange(messages)
    /\ told = "finished" => agentAt = "prompt"
    /\ known \in Knowledge
    /\ TurnsEndCandidly

LEMMA NothingIsAnswered == Exchange(<<>>)
<1>1. <<>> \in Seq(AgentMessage) /\ DOMAIN <<>> = {}
  OBVIOUS
<1> QED
  BY <1>1 DEF Exchange, Answered

\* What follows an exchange does not undo its answers.
LEMMA AnsweredAppend ==
  ASSUME NEW s, Exchange(s), NEW role \in {"user", "assistant", "directive", "notice"}
  PROVE  Exchange(Append(s, Message(role, 0)))
<1> DEFINE t == Append(s, Message(role, 0))
<1>1. /\ t \in Seq(AgentMessage) /\ Len(t) = Len(s) + 1
      /\ \A i \in 1 .. Len(s) : t[i] = s[i]
      /\ t[Len(s) + 1] = Message(role, 0)
      /\ Message(role, 0).role = role /\ Message(role, 0).calls = 0
  BY DEF Exchange, Message, AgentMessage
<1>2. DOMAIN s = 1 .. Len(s) /\ DOMAIN t = 1 .. Len(s) + 1 /\ Len(s) \in Nat
  BY <1>1 DEF Exchange
<1> HIDE DEF t
<1>3. ASSUME NEW i \in DOMAIN t, t[i].role = "assistant", NEW j \in (i + 1) .. (i + t[i].calls)
      PROVE  j \in DOMAIN t /\ t[j].role = "tool"
  <2>1. CASE i = Len(s) + 1
    BY <2>1, <1>1, <1>3
  <2>2. CASE i \in 1 .. Len(s)
    <3>1. i \in DOMAIN s /\ s[i] = t[i]
      BY <2>2, <1>1, <1>2
    <3>2. j \in DOMAIN s /\ s[j].role = "tool"
      BY <3>1, <1>3 DEF Exchange, Answered
    <3> QED
      BY <3>2, <1>1, <1>2
  <2> QED
    BY <1>2, <2>1, <2>2
<1>4. ASSUME NEW i \in DOMAIN t, t[i].role = "tool"
      PROVE  \E a \in 1 .. (i - 1) : t[a].role = "assistant" /\ i - a <= t[a].calls
  <2>1. i \in DOMAIN s /\ s[i] = t[i]
    BY <1>1, <1>2, <1>4
  <2>2. PICK a \in 1 .. (i - 1) : s[a].role = "assistant" /\ i - a <= s[a].calls
    BY <2>1, <1>4 DEF Exchange, Answered
  <2>3. a \in 1 .. Len(s)
    BY <2>1, <2>2, <1>2
  <2> QED
    BY <2>2, <2>3, <1>1
<1>5. Answered(t)
  BY <1>3, <1>4 DEF Answered
<1> QED
  BY <1>1, <1>5 DEF Exchange, t

\* A message with calls, and a result for each of them.
LEMMA AnsweredResults ==
  ASSUME NEW s, Exchange(s), NEW calls \in Nat
  PROVE  Exchange(s \o (<<Message("assistant", calls)>>
                          \o [i \in 1 .. calls |-> Message("tool", 0)]))
<1> DEFINE m == Message("assistant", calls)
           r == [i \in 1 .. calls |-> Message("tool", 0)]
           t == s \o (<<m>> \o r)
<1>1. m \in AgentMessage /\ m.role = "assistant" /\ m.calls = calls
  BY DEF Message, AgentMessage
<1>2. r \in Seq(AgentMessage) /\ Len(r) = calls
      /\ \A i \in 1 .. calls : r[i].role = "tool" /\ r[i].calls = 0
  BY DEF Message, AgentMessage
<1>3. s \in Seq(AgentMessage) /\ DOMAIN s = 1 .. Len(s) /\ Len(s) \in Nat
  BY DEF Exchange
<1> HIDE DEF m, r
<1>4. /\ <<m>> \o r \in Seq(AgentMessage) /\ Len(<<m>> \o r) = calls + 1
      /\ (<<m>> \o r)[1] = m
      /\ \A i \in 2 .. calls + 1 : (<<m>> \o r)[i] = r[i - 1]
  BY <1>1, <1>2
<1>5. /\ t \in Seq(AgentMessage) /\ Len(t) = Len(s) + calls + 1
      /\ \A i \in 1 .. Len(s) : t[i] = s[i]
      /\ \A i \in 1 .. calls + 1 : t[Len(s) + i] = (<<m>> \o r)[i]
  <2> DEFINE q == <<m>> \o r
  <2>1. q \in Seq(AgentMessage) /\ Len(q) = calls + 1
    BY <1>4
  <2> HIDE DEF q
  <2> SUFFICES /\ s \o q \in Seq(AgentMessage) /\ Len(s \o q) = Len(s) + calls + 1
               /\ \A i \in 1 .. Len(s) : (s \o q)[i] = s[i]
               /\ \A i \in 1 .. calls + 1 : (s \o q)[Len(s) + i] = q[i]
    BY DEF q
  <2> QED
    BY <2>1, <1>3
<1>6. DOMAIN t = 1 .. Len(s) + calls + 1
  BY <1>5
<1> HIDE DEF t
<1>7. t[Len(s) + 1] = m
  BY <1>4, <1>5
<1>8. \A k \in Len(s) + 2 .. Len(s) + calls + 1 : t[k].role = "tool"
  <2> SUFFICES ASSUME NEW k \in Len(s) + 2 .. Len(s) + calls + 1 PROVE t[k].role = "tool"
    OBVIOUS
  <2>1. PICK d \in 2 .. calls + 1 : k = Len(s) + d
    <3>1. k - Len(s) \in 2 .. calls + 1 /\ k = Len(s) + (k - Len(s))
      BY <1>3
    <3> QED
      BY <3>1
  <2>2. t[Len(s) + d] = (<<m>> \o r)[d]
    <3>1. d \in 1 .. calls + 1
      OBVIOUS
    <3> QED
      BY <3>1, <1>5, Zenon
  <2>3. (<<m>> \o r)[d] = r[d - 1] /\ d - 1 \in 1 .. calls
    BY <1>4
  <2>4. t[Len(s) + d].role = "tool"
    BY <2>2, <2>3, <1>2
  <2> QED
    BY <2>1, <2>4, Zenon
<1>9. ASSUME NEW i \in DOMAIN t, t[i].role = "assistant", NEW j \in (i + 1) .. (i + t[i].calls)
      PROVE  j \in DOMAIN t /\ t[j].role = "tool"
  <2>1. CASE i \in 1 .. Len(s)
    <3>1. i \in DOMAIN s /\ s[i] = t[i]
      BY <2>1, <1>3, <1>5
    <3>2. j \in DOMAIN s /\ s[j].role = "tool"
      BY <3>1, <1>9 DEF Exchange, Answered
    <3> QED
      BY <3>2, <1>3, <1>5, <1>6
  <2>2. CASE i = Len(s) + 1
    <3>1. j \in Len(s) + 2 .. Len(s) + calls + 1
      BY <2>2, <1>1, <1>3, <1>7, <1>9
    <3> QED
      BY <3>1, <1>3, <1>6, <1>8
  <2>3. CASE i \in Len(s) + 2 .. Len(s) + calls + 1
    BY <2>3, <1>8, <1>9
  <2> QED
    BY <2>1, <2>2, <2>3, <1>3, <1>6
<1>10. ASSUME NEW i \in DOMAIN t, t[i].role = "tool"
       PROVE  \E a \in 1 .. (i - 1) : t[a].role = "assistant" /\ i - a <= t[a].calls
  <2>1. CASE i \in 1 .. Len(s)
    <3>1. i \in DOMAIN s /\ s[i] = t[i]
      BY <2>1, <1>3, <1>5
    <3>2. PICK a \in 1 .. (i - 1) : s[a].role = "assistant" /\ i - a <= s[a].calls
      BY <3>1, <1>10 DEF Exchange, Answered
    <3>3. a \in 1 .. Len(s)
      BY <2>1, <1>3
    <3> QED
      BY <3>2, <3>3, <1>5
  <2>2. CASE i = Len(s) + 1
    BY <2>2, <1>1, <1>7, <1>10
  <2>3. CASE i \in Len(s) + 2 .. Len(s) + calls + 1
    <3>1. Len(s) + 1 \in 1 .. (i - 1) /\ i - (Len(s) + 1) <= calls
      BY <2>3, <1>3
    <3> QED
      BY <3>1, <1>1, <1>7
  <2> QED
    BY <2>1, <2>2, <2>3, <1>3, <1>6
<1>11. Answered(t)
  BY <1>9, <1>10 DEF Answered
<1> QED
  BY <1>5, <1>11 DEF Exchange, t, m, r

LEMMA ResultsAreAnswers ==
  ASSUME NEW s, Exchange(s), NEW calls \in Nat, NEW failed \in BOOLEAN
  PROVE  Exchange(s \o Results(calls, failed))
<1> DEFINE m == Message("assistant", calls)
           r == [i \in 1 .. calls |-> Message("tool", 0)]
           q == <<m>> \o r
           n == Message("notice", 0)
<1>1. q \in Seq(AgentMessage) /\ n \in AgentMessage /\ s \in Seq(AgentMessage)
  <2>1. r \in Seq(AgentMessage) /\ <<m>> \in Seq(AgentMessage)
    BY DEF Message, AgentMessage
  <2> QED
    BY <2>1 DEF Message, AgentMessage, Exchange
<1>2. Exchange(s \o q)
  BY AnsweredResults
<1>3. Results(calls, failed) = q \o (IF failed THEN <<n>> ELSE <<>>)
  BY DEF Results
<1> HIDE DEF q, n
<1>4. s \o (q \o <<>>) = s \o q
  BY <1>1
<1>5. s \o (q \o <<n>>) = Append(s \o q, n)
  BY <1>1
<1>6. Exchange(Append(s \o q, n))
  BY <1>2, AnsweredAppend DEF n
<1> QED
  BY <1>2, <1>3, <1>4, <1>5, <1>6

LEMMA InitAInv == AgentInit => AInv
<1>1. Exchange(<<>>)
  BY NothingIsAnswered
<1>2. NothingKnown \in Knowledge
  BY DEF NothingKnown, Knowledge
<1> QED
  BY <1>1, <1>2 DEF AgentInit, AInv, TurnsEndCandidly

LEMMA FilesAreSeen == AInv /\ (SeeFile \/ UNCHANGED known) => known' \in Knowledge
BY DEF AInv, SeeFile, Knowledge

LEMMA NextTurnKeeps ==
  ASSUME AInv, NEW exchange, Exchange(exchange), NextTurn(exchange), agentAt # "prompt"
  PROVE  /\ Exchange(history') /\ Exchange(messages')
         /\ told' # "finished"
<1>1. Exchange(<<>>)
  BY NothingIsAnswered
<1>2. CASE turnsUsed + 1 < MaxTurns
  BY <1>2 DEF NextTurn, AInv, AskExecutor
<1>3. CASE ~ (turnsUsed + 1 < MaxTurns)
  BY <1>1, <1>3 DEF NextTurn, EndWholeTurn, EndTurn
<1> QED
  BY <1>2, <1>3

LEMMA PlannerKeeps ==
  ASSUME AInv, agentAt \in {"plan", "replan"}, NEW reply \in {"", "confirms", "step", "word"},
         PlannerAnswers(reply)
  PROVE  AInv'
<1>1. Exchange(<<>>)
  BY NothingIsAnswered
<1>2. CASE agentAt = "plan"
  BY <1>2 DEF PlannerAnswers, Planned, AskExecutor, AInv, TurnsEndCandidly
<1>3. CASE agentAt = "replan"
  <2>1. Replanned(reply) /\ UNCHANGED signaled
    BY <1>3 DEF PlannerAnswers
  <2>2. known' = known \/ known' = [known EXCEPT !.plan = reply]
    BY <2>1 DEF Replanned
  <2>3. known' \in Knowledge
    BY <2>2 DEF AInv, Knowledge
  <2>4. CASE Outcome(reply) = "complete"
    <3>1. EndWholeTurn(messages, TRUE)
      BY <2>1, <2>4 DEF Replanned
    <3>2. signaled \/ reply = "word"
      BY <2>4 DEF Outcome
    <3>3. reply = "word" => known'.plan = "word"
      BY <2>1 DEF Replanned, AInv, Knowledge
    <3> QED
      BY <1>1, <2>1, <2>3, <3>1, <3>2, <3>3 DEF EndWholeTurn, EndTurn, AInv, TurnsEndCandidly
  <2>5. CASE Outcome(reply) # "complete"
    <3>1. NextTurn(Append(messages, Message("directive", 0)))
      BY <2>1, <2>5 DEF Replanned
    <3>2. Exchange(Append(messages, Message("directive", 0)))
      BY AnsweredAppend DEF AInv
    <3> QED
      BY <1>3, <2>1, <2>3, <3>1, <3>2, NextTurnKeeps DEF AInv, TurnsEndCandidly
  <2> QED
    BY <2>4, <2>5
<1> QED
  BY <1>2, <1>3

LEMMA NextAInv == AInv /\ [AgentNext]_agentVars => AInv'
<1> SUFFICES ASSUME AInv, [AgentNext]_agentVars PROVE AInv'
  OBVIOUS
<1>1. Exchange(<<>>)
  BY NothingIsAnswered
<1>2. CASE UNCHANGED agentVars
  BY <1>2 DEF agentVars, AInv, TurnsEndCandidly
<1>3. CASE Prompt
  <2>1. Exchange(Append(history, Message("user", 0)))
    BY AnsweredAppend DEF AInv
  <2> QED
    BY <1>3, <2>1 DEF Prompt, AInv, TurnsEndCandidly
<1>4. CASE Clear
  BY <1>1, <1>4 DEF Clear, AInv, TurnsEndCandidly, NothingKnown, Knowledge
<1>5. CASE PostAgain
  BY <1>5 DEF PostAgain, AInv, TurnsEndCandidly
<1>6. CASE PlannerFails
  <2>1. CASE consults < Retries
    BY <1>6, <2>1 DEF PlannerFails, AInv, TurnsEndCandidly
  <2>2. CASE ~ (consults < Retries)
    BY <1>6, <2>2, PlannerKeeps DEF PlannerFails
  <2> QED
    BY <2>1, <2>2
<1>7. CASE PlannerReplies
  <2>1. PICK reply \in {"confirms", "step", "word"} : PlannerAnswers(reply)
    BY <1>7 DEF PlannerReplies
  <2> QED
    BY <1>7, <2>1, PlannerKeeps DEF PlannerReplies
<1>8. CASE \E complete \in BOOLEAN : ExecutorStalls(complete)
  <2>1. Exchange(Append(messages, Message("assistant", 0)))
    BY AnsweredAppend DEF AInv
  <2> QED
    BY <1>8, <2>1 DEF ExecutorStalls, AskPlanner, AInv, TurnsEndCandidly
<1>9. ASSUME NEW calls \in 1 .. MaxToolCalls, NEW failed \in BOOLEAN, NEW seesFile \in BOOLEAN,
             ExecutorCalls(calls, failed, seesFile)
      PROVE  AInv'
  <2>1. Exchange(messages \o Results(calls, failed))
    BY AgentAssumption, ResultsAreAnswers DEF AInv
  <2>2. NextTurn(messages \o Results(calls, failed)) /\ agentAt # "prompt"
    BY <1>9 DEF ExecutorCalls
  <2>3. known' \in Knowledge
    BY <1>9, FilesAreSeen DEF ExecutorCalls
  <2> QED
    BY <2>1, <2>2, <2>3, NextTurnKeeps DEF AInv, TurnsEndCandidly
<1>10. CASE ExecutorFails
  BY <1>1, <1>10 DEF ExecutorFails, EndTurn, AInv, TurnsEndCandidly
<1>11. CASE \E seenFile \in BOOLEAN : ExecutorRaises(seenFile)
  BY <1>1, <1>11, FilesAreSeen DEF ExecutorRaises, EndTurn, AInv, TurnsEndCandidly
<1>12. CASE ExecutorSaysNothing
  BY <1>1, <1>12 DEF ExecutorSaysNothing, EndWholeTurn, EndTurn, AInv, TurnsEndCandidly
<1> QED
  BY <1>2, <1>3, <1>4, <1>5, <1>6, <1>7, <1>8, <1>9, <1>10, <1>11, <1>12 DEF AgentNext

\* What the user wrote is kept by every save that reads and writes the file.
LEMMA SaveKeeps ==
  ASSUME NEW f, NEW knowledge, NEW s \in Save(f, knowledge), f.users = "mine"
  PROVE  s.file.users = "mine" \/ s.lost = TRUE
<1>1. UsersText(f) = "mine"
  BY DEF UsersText
<1> QED
  BY <1>1 DEF Save, Saved

LEMMA SavesKeep ==
  ASSUME contextFile.users = "mine", NEW learns \in BOOLEAN, NEW ends \in BOOLEAN,
         Saves(learns, ends)
  PROVE  contextFile'.users = "mine" \/ spoilt'
<1>0. PICK f, k : f = contextFile /\ k = known'
  OBVIOUS
<1>1. PICK first \in (IF learns THEN Save(f, k) ELSE {Saved(f, FALSE)}) :
        \E last \in (IF ends THEN Save(first.file, k) ELSE {Saved(first.file, FALSE)}) :
            contextFile' = last.file /\ spoilt' = (first.lost \/ last.lost)
  BY <1>0 DEF Saves
<1>2. PICK last \in (IF ends THEN Save(first.file, k) ELSE {Saved(first.file, FALSE)}) :
            contextFile' = last.file /\ spoilt' = (first.lost \/ last.lost)
  BY <1>1
<1>3. first.file.users = "mine" \/ first.lost = TRUE
  <2>1. CASE learns
    BY <1>0, <2>1, SaveKeeps
  <2>2. CASE ~learns
    BY <1>0, <2>2 DEF Saved
  <2> QED
    BY <2>1, <2>2
<1>4. CASE first.lost = TRUE
  BY <1>2, <1>4
<1>5. CASE first.file.users = "mine"
  <2>1. last.file.users = "mine" \/ last.lost = TRUE
    <3>1. CASE ends
      BY <1>5, <3>1, SaveKeeps
    <3>2. CASE ~ends
      BY <1>5, <3>2 DEF Saved
    <3> QED
      BY <3>1, <3>2
  <2> QED
    BY <1>2, <2>1
<1> QED
  BY <1>3, <1>4, <1>5

LEMMA UsersTextKept ==
  [AgentNext]_agentVars =>
    [contextFile.users = "mine" => contextFile'.users = "mine" \/ spoilt']_agentVars
<1> SUFFICES ASSUME AgentNext, contextFile.users = "mine"
             PROVE  contextFile'.users = "mine" \/ spoilt'
  OBVIOUS
<1>1. ASSUME NEW learns \in BOOLEAN, NEW ends \in BOOLEAN, Saves(learns, ends)
      PROVE  contextFile'.users = "mine" \/ spoilt'
  BY <1>1, SavesKeep
<1>2. ASSUME UNCHANGED savedVars
      PROVE  contextFile'.users = "mine" \/ spoilt'
  BY <1>2 DEF savedVars
<1>3. CASE Prompt \/ Clear \/ PostAgain \/ \E complete \in BOOLEAN : ExecutorStalls(complete)
  BY <1>2, <1>3 DEF Prompt, Clear, PostAgain, ExecutorStalls
<1>8. CASE ExecutorFails \/ ExecutorSaysNothing
  BY <1>1, <1>8 DEF ExecutorFails, ExecutorSaysNothing
<1>4. ASSUME NEW reply, PlannerAnswers(reply)
      PROVE  contextFile'.users = "mine" \/ spoilt'
  <2>1. CASE agentAt = "plan"
    BY <1>2, <1>4, <2>1 DEF PlannerAnswers, Planned
  <2>2. CASE agentAt # "plan"
    BY <1>1, <1>4, <2>2 DEF PlannerAnswers, Replanned
  <2> QED
    BY <2>1, <2>2
<1>5. CASE PlannerFails \/ PlannerReplies
  BY <1>2, <1>4, <1>5 DEF PlannerFails, PlannerReplies
<1>6. ASSUME NEW calls \in 1 .. MaxToolCalls, NEW failed \in BOOLEAN, NEW seesFile \in BOOLEAN,
             ExecutorCalls(calls, failed, seesFile)
      PROVE  contextFile'.users = "mine" \/ spoilt'
  BY <1>1, <1>6 DEF ExecutorCalls
<1>7. CASE \E seenFile \in BOOLEAN : ExecutorRaises(seenFile)
  BY <1>1, <1>7 DEF ExecutorRaises
<1> QED
  BY <1>3, <1>5, <1>6, <1>7, <1>8 DEF AgentNext

\* Exchanges are whole and ends are told candidly, for any number of prompts, turns,
\* retries and calls (run_turn, _run_executor_loop).
THEOREM AgentInductive == AgentSpec => []AInv
<1> QED
  BY InitAInv, NextAInv, PTL DEF AgentSpec

\* What the engine keeps between turns and says of them is so.
THEOREM TurnsAddUpCorrect == AgentSpec => TurnsAddUp
<1>1. AInv => ExchangesAreAnswered /\ TurnsEndCandidly
  BY DEF AInv, Exchange, ExchangesAreAnswered
<1> QED
  BY <1>1, AgentInductive, UsersTextKept, PTL DEF AgentSpec, TurnsAddUp, UsersTextIsKept

-----------------------------------------------------------------------------
(* The requests of the gateway, and the messages it folds.                 *)

GateEvent ==
    [kind : {"start", "error", "usage", "end", "open", "delta", "stop"}, block : Nat,
     type : {"message", "text", "tool", "other"}]

FoldedBlock == [type : {"message", "text", "tool", "other"}, parts : Nat]

DeltasAt(s, b) == {i \in DOMAIN s : s[i].kind = "delta" /\ s[i].block = b}

\* The blocks folded from the events s.
FoldOf(s, blocks) ==
    /\ DOMAIN blocks = Given!Blocks(s, "open") \cup Given!Blocks(s, "delta")
    /\ \A b \in DOMAIN blocks :
          /\ blocks[b] \in FoldedBlock
          /\ blocks[b].parts = Cardinality(DeltasAt(s, b))
          /\ IF b \in Given!Blocks(s, "open")
             THEN E("open", b, blocks[b].type) \in {s[i] : i \in DOMAIN s}
             ELSE blocks[b].type = "text"

GateTypes ==
    /\ gateAt \in {"idle", "fetching", "telling", "streaming"}
    /\ asked.stream \in BOOLEAN
    /\ stream \in Seq(GateEvent)
    /\ folded = [blocks |-> folded.blocks, stop |-> folded.stop]
    /\ folded.blocks = [b \in DOMAIN folded.blocks |-> folded.blocks[b]]
    /\ foldError \in BOOLEAN

FoldIsWhole ==
    ~ asked.stream => /\ FoldOf(stream, folded.blocks)
                      /\ foldError <=> Given!Has(stream, "error")

\* What a web tool's turn has told is a beginning of it.
ToolTurnBegun ==
    /\ gateAt \in {"telling", "fetching"} =>
          Len(stream) <= Len(ToolTurn) /\ \A k \in 1 .. Len(stream) : stream[k] = ToolTurn[k]
    /\ gateAt = "streaming" => asked.path # "webTool"

GInv == GateTypes /\ FoldIsWhole /\ ToolTurnBegun /\ AnswersInKind /\ WebTurnKeepsContract
-----------------------------------------------------------------------------
LEMMA AppendedBlocks ==
  ASSUME NEW s \in Seq(GateEvent), NEW e \in GateEvent, NEW kind
  PROVE  /\ Given!Blocks(Append(s, e), kind) =
              IF e.kind = kind THEN Given!Blocks(s, kind) \cup {e.block}
              ELSE Given!Blocks(s, kind)
         /\ Given!Has(Append(s, e), kind) <=> (Given!Has(s, kind) \/ e.kind = kind)
<1> DEFINE t == Append(s, e)
<1>1. /\ DOMAIN t = 1 .. Len(s) + 1 /\ DOMAIN s = 1 .. Len(s) /\ Len(s) \in Nat
      /\ \A i \in DOMAIN s : t[i] = s[i]
      /\ t[Len(s) + 1] = e
  OBVIOUS
<1> HIDE DEF t
<1>2. DOMAIN t = DOMAIN s \cup {Len(s) + 1}
  BY <1>1
<1>3. \A b : b \in Given!Blocks(t, kind) <=>
               b \in Given!Blocks(s, kind) \/ (e.kind = kind /\ b = e.block)
  BY <1>1, <1>2 DEF Given!Blocks
<1>4. Given!Has(t, kind) <=> (Given!Has(s, kind) \/ e.kind = kind)
  BY <1>1, <1>2 DEF Given!Has
<1> QED
  BY <1>3, <1>4 DEF t

LEMMA AppendedDeltas ==
  ASSUME NEW s \in Seq(GateEvent), NEW e \in GateEvent, NEW b
  PROVE  /\ Cardinality(DeltasAt(s, b)) \in Nat
         /\ Cardinality(DeltasAt(Append(s, e), b)) =
              IF e.kind = "delta" /\ e.block = b THEN Cardinality(DeltasAt(s, b)) + 1
              ELSE Cardinality(DeltasAt(s, b))
<1> DEFINE t == Append(s, e)
<1>1. /\ DOMAIN t = 1 .. Len(s) + 1 /\ DOMAIN s = 1 .. Len(s) /\ Len(s) \in Nat
      /\ \A i \in DOMAIN s : t[i] = s[i]
      /\ t[Len(s) + 1] = e
  OBVIOUS
<1> HIDE DEF t
<1>2. DOMAIN t = DOMAIN s \cup {Len(s) + 1} /\ Len(s) + 1 \notin DOMAIN s
  BY <1>1
<1>3. IsFiniteSet(DeltasAt(s, b))
  <2>1. IsFiniteSet(1 .. Len(s))
    <3>1. \A n \in Nat : IsFiniteSet(1 .. n)
      <4> TAKE n \in Nat
      <4>1. 1 \in Int /\ n \in Int
        OBVIOUS
      <4> QED
        BY <4>1, FS_Interval
    <3> QED
      BY <1>1, <3>1
  <2>2. DeltasAt(s, b) \subseteq 1 .. Len(s)
    BY <1>1 DEF DeltasAt
  <2> QED
    BY <2>1, <2>2, FS_Subset
<1>4. CASE e.kind = "delta" /\ e.block = b
  <2>1. Len(s) + 1 \notin DeltasAt(s, b)
    BY <1>2 DEF DeltasAt
  <2>2. \A k : k \in DeltasAt(t, b) <=> k \in DeltasAt(s, b) \/ k = Len(s) + 1
    BY <1>1, <1>2, <1>4, SMTT(30) DEF DeltasAt
  <2>3. DeltasAt(t, b) = DeltasAt(s, b) \cup {Len(s) + 1}
    BY <2>2
  <2> QED
    BY <1>3, <1>4, <2>1, <2>3, FS_AddElement, FS_CardinalityType DEF t
<1>5. CASE ~ (e.kind = "delta" /\ e.block = b)
  <2>1. DeltasAt(t, b) = DeltasAt(s, b)
    BY <1>1, <1>2, <1>5 DEF DeltasAt
  <2> QED
    BY <1>3, <1>5, <2>1, FS_CardinalityType DEF t
<1> QED
  BY <1>4, <1>5

\* An event is folded into the message, if no block is opened twice.
LEMMA FoldedOnce ==
  ASSUME NEW s \in Seq(GateEvent), NEW e \in GateEvent, NEW blocks,
         blocks = [b \in DOMAIN blocks |-> blocks[b]],
         FoldOf(s, blocks), e.kind = "open" => e.block \notin Given!Blocks(s, "open")
  PROVE  /\ e.kind = "open" => FoldOf(Append(s, e), Begun(blocks, e))
         /\ e.kind = "delta" => FoldOf(Append(s, e), Added(blocks, e.block))
         /\ e.kind \notin {"open", "delta"} => FoldOf(Append(s, e), blocks)
<1> DEFINE t == Append(s, e)
<1>1. {t[i] : i \in DOMAIN t} = {s[i] : i \in DOMAIN s} \cup {e}
  <2>1. /\ DOMAIN t = 1 .. Len(s) + 1 /\ DOMAIN s = 1 .. Len(s) /\ Len(s) \in Nat
        /\ \A i \in DOMAIN s : t[i] = s[i]
        /\ t[Len(s) + 1] = e
    OBVIOUS
  <2> HIDE DEF t
  <2>2. DOMAIN t = DOMAIN s \cup {Len(s) + 1}
    BY <2>1
  <2> QED
    BY <2>1, <2>2
<1>2. \A b : /\ Cardinality(DeltasAt(s, b)) \in Nat
             /\ Cardinality(DeltasAt(t, b)) =
                  IF e.kind = "delta" /\ e.block = b THEN Cardinality(DeltasAt(s, b)) + 1
                  ELSE Cardinality(DeltasAt(s, b))
  BY AppendedDeltas
<1>3. \A kind : Given!Blocks(t, kind) =
        IF e.kind = kind THEN Given!Blocks(s, kind) \cup {e.block} ELSE Given!Blocks(s, kind)
  BY AppendedBlocks
<1>4. \A b : b \notin Given!Blocks(s, "delta") => Cardinality(DeltasAt(s, b)) = 0
  <2> SUFFICES ASSUME NEW b, b \notin Given!Blocks(s, "delta")
               PROVE  Cardinality(DeltasAt(s, b)) = 0
    OBVIOUS
  <2>1. DeltasAt(s, b) = {}
    BY DEF Given!Blocks, DeltasAt
  <2> QED
    BY <2>1, FS_EmptySet
<1> HIDE DEF t
<1>5. CASE e.kind = "open"
  <2> DEFINE new == Begun(blocks, e)
  <2>1. DOMAIN new = DOMAIN blocks \cup {e.block}
        /\ \A b \in DOMAIN blocks : b # e.block => new[b] = blocks[b]
    BY DEF Begun
  <2>2. /\ new[e.block] \in FoldedBlock
        /\ new[e.block].parts = Cardinality(DeltasAt(s, e.block))
        /\ new[e.block].type = e.type
    <3>1. CASE e.block \in DOMAIN blocks
      <4>1. new[e.block] = [type |-> e.type, parts |-> blocks[e.block].parts]
        BY <3>1 DEF Begun
      <4>2. blocks[e.block].parts = Cardinality(DeltasAt(s, e.block))
        BY <3>1 DEF FoldOf
      <4> QED
        BY <4>1, <4>2, <1>2 DEF FoldedBlock, GateEvent
    <3>2. CASE e.block \notin DOMAIN blocks
      <4>1. new[e.block] = [type |-> e.type, parts |-> 0]
        BY <3>2 DEF Begun
      <4>2. Cardinality(DeltasAt(s, e.block)) = 0
        BY <3>2, <1>4 DEF FoldOf
      <4> QED
        BY <4>1, <4>2 DEF FoldedBlock, GateEvent
    <3> QED
      BY <3>1, <3>2
  <2>3. e = E("open", e.block, new[e.block].type)
    BY <1>5, <2>2 DEF E, GateEvent
  <2> HIDE DEF new
  <2>4. \A b \in DOMAIN new : new[b] \in FoldedBlock /\ new[b].parts = Cardinality(DeltasAt(t, b))
    BY <1>2, <1>5, <2>1, <2>2 DEF FoldOf
  <2>5. \A b \in DOMAIN new :
           IF b \in Given!Blocks(t, "open")
           THEN E("open", b, new[b].type) \in {t[i] : i \in DOMAIN t}
           ELSE new[b].type = "text"
    <3> SUFFICES ASSUME NEW b \in DOMAIN new
                 PROVE  IF b \in Given!Blocks(t, "open")
                        THEN E("open", b, new[b].type) \in {t[i] : i \in DOMAIN t}
                        ELSE new[b].type = "text"
      OBVIOUS
    <3>1. CASE b = e.block
      BY <3>1, <1>1, <1>3, <1>5, <2>3
    <3>2. CASE b # e.block
      BY <3>2, <1>1, <1>3, <1>5, <2>1 DEF FoldOf
    <3> QED
      BY <3>1, <3>2
  <2>6. FoldOf(t, new)
    BY <1>3, <1>5, <2>1, <2>4, <2>5 DEF FoldOf
  <2> QED
    BY <1>5, <2>6 DEF t, new
<1>6. CASE e.kind = "delta"
  <2> DEFINE new == Added(blocks, e.block)
  <2>1. DOMAIN new = DOMAIN blocks \cup {e.block}
        /\ \A b \in DOMAIN blocks : b # e.block => new[b] = blocks[b]
    BY DEF Added
  <2>2. /\ new[e.block] \in FoldedBlock
        /\ new[e.block].parts = Cardinality(DeltasAt(s, e.block)) + 1
        /\ new[e.block].type = IF e.block \in DOMAIN blocks THEN blocks[e.block].type ELSE "text"
    <3>1. CASE e.block \in DOMAIN blocks
      <4>1. new[e.block] = [blocks[e.block] EXCEPT !.parts = @ + 1]
        BY <3>1 DEF Added
      <4>2. /\ blocks[e.block] \in FoldedBlock
            /\ blocks[e.block].parts = Cardinality(DeltasAt(s, e.block))
        BY <3>1 DEF FoldOf
      <4> QED
        BY <3>1, <4>1, <4>2 DEF FoldedBlock
    <3>2. CASE e.block \notin DOMAIN blocks
      <4>1. new[e.block] = [type |-> "text", parts |-> 1]
        BY <3>2 DEF Added
      <4>2. Cardinality(DeltasAt(s, e.block)) = 0
        BY <3>2, <1>4 DEF FoldOf
      <4> QED
        BY <3>2, <4>1, <4>2 DEF FoldedBlock
    <3> QED
      BY <3>1, <3>2
  <2> HIDE DEF new
  <2>3. \A b \in DOMAIN new : new[b] \in FoldedBlock /\ new[b].parts = Cardinality(DeltasAt(t, b))
    BY <1>2, <1>6, <2>1, <2>2 DEF FoldOf
  <2>4. \A b \in DOMAIN new :
           IF b \in Given!Blocks(t, "open")
           THEN E("open", b, new[b].type) \in {t[i] : i \in DOMAIN t}
           ELSE new[b].type = "text"
    <3> SUFFICES ASSUME NEW b \in DOMAIN new
                 PROVE  IF b \in Given!Blocks(t, "open")
                        THEN E("open", b, new[b].type) \in {t[i] : i \in DOMAIN t}
                        ELSE new[b].type = "text"
      OBVIOUS
    <3>1. CASE b \in DOMAIN blocks
      <4>1. new[b].type = blocks[b].type
        BY <3>1, <2>1, <2>2
      <4> QED
        BY <3>1, <4>1, <1>1, <1>3, <1>6 DEF FoldOf
    <3>2. CASE b \notin DOMAIN blocks
      BY <3>2, <1>3, <1>6, <2>1, <2>2 DEF FoldOf
    <3> QED
      BY <3>1, <3>2
  <2>5. FoldOf(t, new)
    BY <1>3, <1>6, <2>1, <2>3, <2>4 DEF FoldOf
  <2> QED
    BY <1>6, <2>5 DEF t, new
<1>7. CASE e.kind \notin {"open", "delta"}
  BY <1>1, <1>2, <1>3, <1>7 DEF FoldOf, t
<1> QED
  BY <1>5, <1>6, <1>7 DEF t

\* What has been told stays a beginning of the contract.
LEMMA LegalSoFar ==
  ASSUME NEW s \in Seq(GateEvent), NEW e \in GateEvent, Given!Legal(s, e),
         \A k \in DOMAIN s : Given!Legal(SubSeq(s, 1, k - 1), s[k])
  PROVE  \A k \in DOMAIN Append(s, e) :
            Given!Legal(SubSeq(Append(s, e), 1, k - 1), Append(s, e)[k])
<1> DEFINE t == Append(s, e)
<1>1. /\ DOMAIN t = 1 .. Len(s) + 1 /\ DOMAIN s = 1 .. Len(s) /\ Len(s) \in Nat
      /\ \A i \in DOMAIN s : t[i] = s[i]
      /\ t[Len(s) + 1] = e /\ t \in Seq(GateEvent) /\ Len(t) = Len(s) + 1
  OBVIOUS
<1> HIDE DEF t
<1>2. ASSUME NEW k \in DOMAIN s PROVE Given!Legal(SubSeq(t, 1, k - 1), t[k])
  <2>1. SubSeq(t, 1, k - 1) = SubSeq(s, 1, k - 1)
    BY <1>1
  <2> QED
    BY <1>1, <2>1
<1>3. SubSeq(t, 1, (Len(s) + 1) - 1) = s
  <2>1. Len(SubSeq(t, 1, Len(s))) = Len(s) /\ SubSeq(t, 1, Len(s)) \in Seq(GateEvent)
        /\ \A i \in 1 .. Len(s) : SubSeq(t, 1, Len(s))[i] = s[i]
    BY <1>1
  <2>2. SubSeq(t, 1, Len(s)) = s
    BY <2>1, SeqEqual
  <2> QED
    BY <1>1, <2>2
<1>4. Given!Legal(SubSeq(t, 1, (Len(s) + 1) - 1), t[Len(s) + 1])
  BY <1>1, <1>3
<1> QED
  BY <1>1, <1>2, <1>4 DEF t

LEMMA TellKeeps ==
  ASSUME GInv, NEW e \in GateEvent, Tell(e), UNCHANGED asked,
         e.kind = "open" => e.block \notin Given!Blocks(stream, "open"),
         asked.path = "webTool" => Given!Legal(stream, e)
  PROVE  /\ stream' = Append(stream, e) /\ stream' \in Seq(GateEvent)
         /\ folded' = [blocks |-> folded'.blocks, stop |-> folded'.stop]
         /\ folded'.blocks = [b \in DOMAIN folded'.blocks |-> folded'.blocks[b]]
         /\ foldError' \in BOOLEAN
         /\ FoldIsWhole' /\ WebTurnKeepsContract'
<1>1. stream' = Append(stream, e) /\ stream \in Seq(GateEvent) /\ stream' \in Seq(GateEvent)
  BY DEF GInv, GateTypes, Tell
<1>2. WebTurnKeepsContract'
  BY <1>1, LegalSoFar DEF GInv, WebTurnKeepsContract
<1>3. CASE asked.stream
  BY <1>1, <1>2, <1>3 DEF Tell, GInv, GateTypes, FoldIsWhole
<1>4. CASE ~ asked.stream
  <2>1. /\ folded' = Fold(e)
        /\ foldError' = (foldError \/ e.kind = "error")
    BY <1>4 DEF Tell
  <2> DEFINE f == folded.blocks
  <2>2. /\ f = [b \in DOMAIN f |-> f[b]] /\ FoldOf(stream, f)
        /\ foldError <=> Given!Has(stream, "error")
        /\ folded = [blocks |-> f, stop |-> folded.stop]
    BY <1>4 DEF GInv, GateTypes, FoldIsWhole
  <2>3. /\ e.kind = "open" => FoldOf(stream', Begun(f, e))
        /\ e.kind = "delta" => FoldOf(stream', Added(f, e.block))
        /\ e.kind \notin {"open", "delta"} => FoldOf(stream', f)
    BY <1>1, <2>2, FoldedOnce
  <2>4. /\ Begun(f, e) = [b \in DOMAIN Begun(f, e) |-> Begun(f, e)[b]]
        /\ Added(f, e.block) = [b \in DOMAIN Added(f, e.block) |-> Added(f, e.block)[b]]
    BY <2>2 DEF Begun, Added
  <2>5. /\ e.kind = "open" => folded' = [blocks |-> Begun(f, e), stop |-> folded.stop]
        /\ e.kind = "delta" => folded' = [blocks |-> Added(f, e.block), stop |-> folded.stop]
        /\ e.kind = "usage" => folded' = [blocks |-> f, stop |-> "told"]
        /\ e.kind \notin {"open", "delta", "usage"} =>
             folded' = [blocks |-> f, stop |-> folded.stop]
    BY <2>1, <2>2 DEF Fold
  <2> HIDE DEF f
  <2>6. /\ folded' = [blocks |-> folded'.blocks, stop |-> folded'.stop]
        /\ folded'.blocks = [b \in DOMAIN folded'.blocks |-> folded'.blocks[b]]
        /\ FoldOf(stream', folded'.blocks)
    <3>1. CASE e.kind = "open"
      BY <3>1, <2>3, <2>4, <2>5
    <3>2. CASE e.kind = "delta"
      BY <3>2, <2>3, <2>4, <2>5
    <3>3. CASE e.kind = "usage"
      BY <3>3, <2>2, <2>3, <2>5
    <3>4. CASE e.kind \notin {"open", "delta", "usage"}
      BY <3>4, <2>2, <2>3, <2>5
    <3> QED
      BY <3>1, <3>2, <3>3, <3>4
  <2>7. foldError' <=> Given!Has(stream', "error")
    BY <1>1, <2>1, <2>2, AppendedBlocks
  <2>8. foldError' \in BOOLEAN
    BY <2>1 DEF GInv, GateTypes
  <2> QED
    BY <1>1, <1>2, <2>6, <2>7, <2>8 DEF FoldIsWhole
<1> QED
  BY <1>3, <1>4 DEF GInv, GateTypes

\* The turn of a web tool, event by event.
LEMMA ToolTurnIs ==
  /\ Len(ToolTurn) = 10
  /\ ToolTurn[1] = E("start", 0, "message")
  /\ ToolTurn[2] = E("open", 1, "other") /\ ToolTurn[3] = E("stop", 1, "other")
  /\ ToolTurn[4] = E("open", 2, "other") /\ ToolTurn[5] = E("stop", 2, "other")
  /\ ToolTurn[6] = E("open", 3, "text") /\ ToolTurn[7] = E("delta", 3, "text")
  /\ ToolTurn[8] = E("stop", 3, "text")
  /\ ToolTurn[9] = E("usage", 0, "message") /\ ToolTurn[10] = E("end", 0, "message")
BY DEF ToolTurn

LEMMA ToolTurnIsLegal ==
  ASSUME NEW s \in Seq(GateEvent), Len(s) < Len(ToolTurn),
         \A k \in 1 .. Len(s) : s[k] = ToolTurn[k]
  PROVE  /\ ToolTurn[Len(s) + 1] \in GateEvent
         /\ Given!Legal(s, ToolTurn[Len(s) + 1])
<1> DEFINE n == Len(s)
           e == ToolTurn[n + 1]
<1>1. n \in Nat /\ n < 10 /\ DOMAIN s = 1 .. n
  BY ToolTurnIs
<1>2. Len(s) = 0 <=> s = <<>>
  OBVIOUS
<1>3. /\ n \in {0, 1, 2, 3, 4, 5, 6, 7, 8, 9}
      /\ \A i \in DOMAIN s : i \in {1, 2, 3, 4, 5, 6, 7, 8, 9} /\ i <= n
      /\ \A i \in {1, 2, 3, 4, 5, 6, 7, 8, 9} : i \in DOMAIN s <=> i <= n
      /\ s = <<>> <=> n = 0
  <2>1. s = <<>> <=> n = 0
    BY <1>2
  <2> HIDE DEF n, e
  <2> QED
    BY <1>1, <2>1
<1>4. \A kind, block, type : /\ E(kind, block, type).kind = kind
                             /\ E(kind, block, type).block = block
                             /\ E(kind, block, type).type = type
  BY DEF E
<1>5. \A k \in DOMAIN s : s[k] = ToolTurn[k]
  BY <1>1
<1>6. \A k \in {0, 1, 2, 3, 4, 5, 6, 7, 8, 9} : n = k => e = ToolTurn[k + 1]
  OBVIOUS
<1> HIDE DEF n, e
<1>7. /\ 1 \in DOMAIN s => s[1].kind = "start"
      /\ 2 \in DOMAIN s => s[2].kind = "open" /\ s[2].block = 1 /\ s[2].type = "other"
      /\ 3 \in DOMAIN s => s[3].kind = "stop" /\ s[3].block = 1
      /\ 4 \in DOMAIN s => s[4].kind = "open" /\ s[4].block = 2 /\ s[4].type = "other"
      /\ 5 \in DOMAIN s => s[5].kind = "stop" /\ s[5].block = 2
      /\ 6 \in DOMAIN s => s[6].kind = "open" /\ s[6].block = 3 /\ s[6].type = "text"
      /\ 7 \in DOMAIN s => s[7].kind = "delta" /\ s[7].block = 3
      /\ 8 \in DOMAIN s => s[8].kind = "stop" /\ s[8].block = 3
      /\ 9 \in DOMAIN s => s[9].kind = "usage"
  <2>1. /\ 1 \in DOMAIN s => s[1] = E("start", 0, "message")
        /\ 2 \in DOMAIN s => s[2] = E("open", 1, "other")
        /\ 3 \in DOMAIN s => s[3] = E("stop", 1, "other")
        /\ 4 \in DOMAIN s => s[4] = E("open", 2, "other")
        /\ 5 \in DOMAIN s => s[5] = E("stop", 2, "other")
        /\ 6 \in DOMAIN s => s[6] = E("open", 3, "text")
        /\ 7 \in DOMAIN s => s[7] = E("delta", 3, "text")
        /\ 8 \in DOMAIN s => s[8] = E("stop", 3, "text")
        /\ 9 \in DOMAIN s => s[9] = E("usage", 0, "message")
    BY <1>5, ToolTurnIs, Zenon
  <2> QED
    BY <1>4, <2>1
<1>8. \A i \in DOMAIN s :
         /\ s[i].kind # "end"
         /\ s[i].kind = "open" => i \in {2, 4, 6}
         /\ s[i].kind = "stop" => i \in {3, 5, 8}
  <2> SUFFICES ASSUME NEW i \in DOMAIN s
               PROVE  /\ s[i].kind # "end"
                      /\ s[i].kind = "open" => i \in {2, 4, 6}
                      /\ s[i].kind = "stop" => i \in {3, 5, 8}
    OBVIOUS
  <2>1. i \in {1, 2, 3, 4, 5, 6, 7, 8, 9}
    BY <1>3
  <2> QED
    BY <1>7, <2>1
<1>9. ~ Given!Has(s, "end")
  BY <1>8 DEF Given!Has
<1>10. \A b : b \in Given!Blocks(s, "open") <=>
               (2 <= n /\ b = 1) \/ (4 <= n /\ b = 2) \/ (6 <= n /\ b = 3)
  <2>1. ASSUME NEW b \in Given!Blocks(s, "open")
        PROVE  (2 <= n /\ b = 1) \/ (4 <= n /\ b = 2) \/ (6 <= n /\ b = 3)
    <3>1. PICK i \in DOMAIN s : s[i].kind = "open" /\ b = s[i].block
      BY DEF Given!Blocks
    <3> QED
      BY <3>1, <1>3, <1>7, <1>8
  <2>2. ASSUME NEW b, (2 <= n /\ b = 1) \/ (4 <= n /\ b = 2) \/ (6 <= n /\ b = 3)
        PROVE  b \in Given!Blocks(s, "open")
    <3>1. \E i \in DOMAIN s : s[i].kind = "open" /\ b = s[i].block
      BY <2>2, <1>3, <1>7
    <3> QED
      BY <3>1 DEF Given!Blocks
  <2> QED
    BY <2>1, <2>2
<1>11. \A b : b \in Given!Blocks(s, "stop") <=>
               (3 <= n /\ b = 1) \/ (5 <= n /\ b = 2) \/ (8 <= n /\ b = 3)
  <2>1. ASSUME NEW b \in Given!Blocks(s, "stop")
        PROVE  (3 <= n /\ b = 1) \/ (5 <= n /\ b = 2) \/ (8 <= n /\ b = 3)
    <3>1. PICK i \in DOMAIN s : s[i].kind = "stop" /\ b = s[i].block
      BY DEF Given!Blocks
    <3> QED
      BY <3>1, <1>3, <1>7, <1>8
  <2>2. ASSUME NEW b, (3 <= n /\ b = 1) \/ (5 <= n /\ b = 2) \/ (8 <= n /\ b = 3)
        PROVE  b \in Given!Blocks(s, "stop")
    <3>1. \E i \in DOMAIN s : s[i].kind = "stop" /\ b = s[i].block
      BY <2>2, <1>3, <1>7
    <3> QED
      BY <3>1 DEF Given!Blocks
  <2> QED
    BY <2>1, <2>2
<1>12. \A b : b \in Given!OpenBlocks(s) <=>
               (n = 2 /\ b = 1) \/ (n = 4 /\ b = 2) \/ (n \in {6, 7} /\ b = 3)
  BY <1>1, <1>10, <1>11 DEF Given!OpenBlocks
<1>13. /\ n = 0 => e = E("start", 0, "message")
       /\ n = 1 => e = E("open", 1, "other")
       /\ n = 2 => e = E("stop", 1, "other")
       /\ n = 3 => e = E("open", 2, "other")
       /\ n = 4 => e = E("stop", 2, "other")
       /\ n = 5 => e = E("open", 3, "text")
       /\ n = 6 => e = E("delta", 3, "text")
       /\ n = 7 => e = E("stop", 3, "text")
       /\ n = 8 => e = E("usage", 0, "message")
       /\ n = 9 => e = E("end", 0, "message")
  BY <1>6, ToolTurnIs
<1>14. ASSUME NEW kind, NEW block, NEW type, e = E(kind, block, type)
       PROVE  e.kind = kind /\ e.block = block /\ e.type = type
  BY <1>14, <1>4
<1>15. e \in GateEvent /\ Given!Legal(s, e)
  <2>0. CASE n = 0
    <3>1. e = E("start", 0, "message")
      BY <2>0, <1>13
    <3>2. e.kind = "start" /\ e.block = 0 /\ e.type = "message"
      BY <3>1, <1>14
    <3>3. e \in GateEvent
      BY <3>1 DEF E, GateEvent
    <3> QED
      BY <2>0, <3>2, <3>3, <1>3, <1>7, <1>9 DEF Given!Legal
  <2>1. CASE n = 1
    <3>1. e = E("open", 1, "other")
      BY <2>1, <1>13
    <3>2. e.kind = "open" /\ e.block = 1 /\ e.type = "other"
      BY <3>1, <1>14
    <3>3. e \in GateEvent
      BY <3>1 DEF E, GateEvent
    <3>4. e.block \notin Given!Blocks(s, "open")
      BY <2>1, <3>2, <1>3, <1>7, <1>10, <1>12
    <3> QED
      BY <2>1, <3>2, <3>3, <3>4, <1>3, <1>7, <1>9 DEF Given!Legal
  <2>2. CASE n = 2
    <3>1. e = E("stop", 1, "other")
      BY <2>2, <1>13
    <3>2. e.kind = "stop" /\ e.block = 1 /\ e.type = "other"
      BY <3>1, <1>14
    <3>3. e \in GateEvent
      BY <3>1 DEF E, GateEvent
    <3>4. e.block \in Given!OpenBlocks(s)
      BY <2>2, <3>2, <1>3, <1>7, <1>10, <1>12
    <3> QED
      BY <2>2, <3>2, <3>3, <3>4, <1>3, <1>7, <1>9 DEF Given!Legal
  <2>3. CASE n = 3
    <3>1. e = E("open", 2, "other")
      BY <2>3, <1>13
    <3>2. e.kind = "open" /\ e.block = 2 /\ e.type = "other"
      BY <3>1, <1>14
    <3>3. e \in GateEvent
      BY <3>1 DEF E, GateEvent
    <3>4. e.block \notin Given!Blocks(s, "open")
      BY <2>3, <3>2, <1>3, <1>7, <1>10, <1>12
    <3> QED
      BY <2>3, <3>2, <3>3, <3>4, <1>3, <1>7, <1>9 DEF Given!Legal
  <2>4. CASE n = 4
    <3>1. e = E("stop", 2, "other")
      BY <2>4, <1>13
    <3>2. e.kind = "stop" /\ e.block = 2 /\ e.type = "other"
      BY <3>1, <1>14
    <3>3. e \in GateEvent
      BY <3>1 DEF E, GateEvent
    <3>4. e.block \in Given!OpenBlocks(s)
      BY <2>4, <3>2, <1>3, <1>7, <1>10, <1>12
    <3> QED
      BY <2>4, <3>2, <3>3, <3>4, <1>3, <1>7, <1>9 DEF Given!Legal
  <2>5. CASE n = 5
    <3>1. e = E("open", 3, "text")
      BY <2>5, <1>13
    <3>2. e.kind = "open" /\ e.block = 3 /\ e.type = "text"
      BY <3>1, <1>14
    <3>3. e \in GateEvent
      BY <3>1 DEF E, GateEvent
    <3>4. e.block \notin Given!Blocks(s, "open")
      BY <2>5, <3>2, <1>3, <1>7, <1>10, <1>12
    <3> QED
      BY <2>5, <3>2, <3>3, <3>4, <1>3, <1>7, <1>9 DEF Given!Legal
  <2>6. CASE n = 6
    <3>1. e = E("delta", 3, "text")
      BY <2>6, <1>13
    <3>2. e.kind = "delta" /\ e.block = 3 /\ e.type = "text"
      BY <3>1, <1>14
    <3>3. e \in GateEvent
      BY <3>1 DEF E, GateEvent
    <3>4. e.block \in Given!OpenBlocks(s) /\ 6 \in DOMAIN s
      BY <2>6, <3>2, <1>3, <1>7, <1>10, <1>12
    <3> QED
      BY <2>6, <3>2, <3>3, <3>4, <1>3, <1>7, <1>9 DEF Given!Legal
  <2>7. CASE n = 7
    <3>1. e = E("stop", 3, "text")
      BY <2>7, <1>13
    <3>2. e.kind = "stop" /\ e.block = 3 /\ e.type = "text"
      BY <3>1, <1>14
    <3>3. e \in GateEvent
      BY <3>1 DEF E, GateEvent
    <3>4. e.block \in Given!OpenBlocks(s)
      BY <2>7, <3>2, <1>3, <1>7, <1>10, <1>12
    <3> QED
      BY <2>7, <3>2, <3>3, <3>4, <1>3, <1>7, <1>9 DEF Given!Legal
  <2>8. CASE n = 8
    <3>1. e = E("usage", 0, "message")
      BY <2>8, <1>13
    <3>2. e.kind = "usage" /\ e.block = 0 /\ e.type = "message"
      BY <3>1, <1>14
    <3>3. e \in GateEvent
      BY <3>1 DEF E, GateEvent
    <3> QED
      BY <2>8, <3>2, <3>3, <1>3, <1>7, <1>9 DEF Given!Legal
  <2>9. CASE n = 9
    <3>1. e = E("end", 0, "message")
      BY <2>9, <1>13
    <3>2. e.kind = "end" /\ e.block = 0 /\ e.type = "message"
      BY <3>1, <1>14
    <3>3. e \in GateEvent
      BY <3>1 DEF E, GateEvent
    <3>4. Given!OpenBlocks(s) = {} /\ Given!Has(s, "open")
      BY <2>9, <3>2, <1>3, <1>7, <1>10, <1>12 DEF Given!Has
    <3> QED
      BY <2>9, <3>2, <3>3, <3>4, <1>3, <1>7, <1>9 DEF Given!Legal
  <2> QED
    BY <2>9, <2>8, <2>7, <2>6, <2>5, <2>4, <2>3, <2>2, <2>1, <2>0, <1>3
<1> QED
  BY <1>15 DEF e, n

LEMMA InitGInv == GateInit => GInv
<1> SUFFICES ASSUME GateInit PROVE GInv
  OBVIOUS
<1>1. <<>> \in Seq(GateEvent) /\ DOMAIN <<>> = {}
  OBVIOUS
<1>2. stream = <<>> /\ folded = [blocks |-> <<>>, stop |-> "none"] /\ foldError = FALSE
  BY DEF GateInit, NothingFolded
<1>3. GateTypes
  <2>1. <<>> = [b \in DOMAIN <<>> |-> <<>>[b]]
    OBVIOUS
  <2>2. gateAt = "idle" /\ asked.stream = FALSE /\ stream \in Seq(GateEvent)
    BY <1>1, <1>2 DEF GateInit
  <2>3. /\ folded = [blocks |-> folded.blocks, stop |-> folded.stop]
        /\ folded.blocks = [b \in DOMAIN folded.blocks |-> folded.blocks[b]]
    BY <1>2, <2>1
  <2>4. foldError \in BOOLEAN /\ asked.stream \in BOOLEAN
    BY <1>2, <2>2
  <2> QED
    BY <2>2, <2>3, <2>4 DEF GateTypes
<1>4. FoldIsWhole
  BY <1>1, <1>2 DEF FoldIsWhole, FoldOf, Given!Blocks, Given!Has
<1>5. ToolTurnBegun /\ AnswersInKind /\ WebTurnKeepsContract
  BY <1>1, <1>2 DEF GateInit, ToolTurnBegun, AnswersInKind, WebTurnKeepsContract
<1> QED
  BY <1>3, <1>4, <1>5 DEF GInv

LEMMA ReceiveKeeps == GInv /\ Receive => GInv'
<1> SUFFICES ASSUME GInv, Receive PROVE GInv'
  OBVIOUS
<1>1. <<>> \in Seq(GateEvent) /\ DOMAIN <<>> = {} /\ Len(<<>>) = 0
  OBVIOUS
<1>2. stream' = <<>> /\ folded' = [blocks |-> <<>>, stop |-> "none"] /\ foldError' = FALSE
  BY DEF Receive, NothingFolded
<1>3. PICK request \in Requests, settings \in Settings :
        LET path == Path(request, settings) IN
          /\ asked' = [path |-> path, stream |-> request.stream]
          /\ CASE path = "refused" -> Answer("error", NothingFolded)
               [] path = "local" ->
                     Answer("message", [blocks |-> <<[type |-> "text", parts |-> 1]>>,
                                        stop |-> "end_turn"])
               [] path = "webTool" -> gateAt' = "telling" /\ answer' = NoAnswer
               [] OTHER -> gateAt' = "streaming" /\ answer' = NoAnswer
  BY DEF Receive
<1> DEFINE path == Path(request, settings)
<1>4. asked' = [path |-> path, stream |-> request.stream] /\ request.stream \in BOOLEAN
  BY <1>3 DEF Requests
<1>5. \/ path = "refused" /\ Answer("error", NothingFolded)
      \/ path = "local" /\ Answer("message", [blocks |-> <<[type |-> "text", parts |-> 1]>>,
                                              stop |-> "end_turn"])
      \/ gateAt' \in {"telling", "streaming"}
  BY <1>3
<1> HIDE DEF path
<1>6. gateAt' \in {"idle", "telling", "streaming"}
  BY <1>5 DEF Answer
<1>7. GateTypes'
  <2>1. <<>> = [b \in DOMAIN <<>> |-> <<>>[b]]
    OBVIOUS
  <2>2. asked'.stream \in BOOLEAN
    BY <1>4
  <2> QED
    BY <1>1, <1>2, <1>6, <2>1, <2>2 DEF GateTypes
<1>8. FoldIsWhole'
  BY <1>1, <1>2 DEF FoldIsWhole, FoldOf, Given!Blocks, Given!Has
<1>9. ToolTurnBegun' /\ WebTurnKeepsContract'
  <2>1. gateAt' = "streaming" => asked'.path # "webTool"
    BY <1>3, <1>4 DEF Answer, path
  <2> QED
    BY <1>1, <1>2, <2>1, ToolTurnIs DEF ToolTurnBegun, WebTurnKeepsContract
<1>10. AnswersInKind'
  <2>1. gateAt' = "idle" => /\ answer'.kind \in {"error", "message"}
                            /\ answer'.kind = "message" => asked'.path = "local"
    BY <1>4, <1>5 DEF Answer
  <2> QED
    BY <1>2, <2>1 DEF AnswersInKind
<1> QED
  BY <1>7, <1>8, <1>9, <1>10 DEF GInv

\* A request in progress is answered, and nothing else changes.
LEMMA AnswerKeeps ==
  ASSUME GInv, NEW kind \in {"error", "cut", "stream", "message"}, NEW message,
         Answer(kind, message), UNCHANGED <<requests, asked, stream, folded, foldError>>,
         kind \in {"stream", "cut"} => asked.stream,
         kind = "message" => /\ ~ asked.stream /\ message.blocks = Content(folded.blocks, whole')
                             /\ (folded.blocks = <<>> => ~ foldError)
                             /\ whole' \in SUBSET {b \in DOMAIN folded.blocks :
                                                     folded.blocks[b].type = "tool"}
  PROVE  GInv'
<1>1. GateTypes' /\ gateAt' = "idle"
  BY DEF GInv, GateTypes, Answer
<1>2. FoldIsWhole' /\ ToolTurnBegun' /\ WebTurnKeepsContract'
  BY <1>1 DEF GInv, FoldIsWhole, ToolTurnBegun, WebTurnKeepsContract
<1>3. answer'.kind = kind /\ answer'.content = message.blocks
  BY DEF Answer
<1>4. CASE kind = "message"
  <2> DEFINE f == folded.blocks
             c == Content(f, whole')
  <2>1. /\ ~ asked.stream /\ answer'.content = c /\ FoldOf(stream, f)
        /\ f = [b \in DOMAIN f |-> f[b]]
        /\ f = <<>> => ~ Given!Has(stream, "error")
    BY <1>3, <1>4 DEF GInv, FoldIsWhole, GateTypes
  <2>2. \A b : Parts(b)' = Cardinality(DeltasAt(stream, b))
    BY DEF Parts, DeltasAt
  <2>3. DOMAIN c = DOMAIN f
    BY DEF Content
  <2>4. c = <<>> => ~ Given!Has(stream, "error")
    <3>1. c = <<>> => f = <<>>
      <4> SUFFICES ASSUME c = <<>> PROVE f = <<>>
        OBVIOUS
      <4>1. DOMAIN f = {} /\ <<>> = [b \in {} |-> <<>>[b]]
        BY <2>3
      <4>2. f = [b \in {} |-> f[b]]
        BY <2>1, <4>1
      <4>3. [b \in {} |-> f[b]] = [b \in {} |-> <<>>[b]]
        OBVIOUS
      <4> QED
        BY <4>1, <4>2, <4>3
    <3> QED
      BY <2>1, <3>1
  <2>5. \A b \in DOMAIN f :
           /\ c[b].type = f[b].type
           /\ c[b].parts = IF f[b].type = "text" \/ (f[b].type = "tool" /\ b \in whole')
                           THEN f[b].parts ELSE 0
    <3> SUFFICES ASSUME NEW b \in DOMAIN f
                 PROVE  /\ c[b].type = f[b].type
                        /\ c[b].parts = IF f[b].type = "text" \/ (f[b].type = "tool" /\ b \in whole')
                                        THEN f[b].parts ELSE 0
      OBVIOUS
    <3>1. c[b] = IF f[b].type = "text" \/ b \in whole' THEN f[b] ELSE [f[b] EXCEPT !.parts = 0]
      BY DEF Content
    <3>2. b \in whole' => f[b].type = "tool"
      BY <1>4
    <3>3. f[b] \in FoldedBlock
      BY <2>1 DEF FoldOf
    <3> QED
      BY <3>1, <3>2, <3>3 DEF FoldedBlock
  <2> HIDE DEF c, f
  <2>6. \A b \in DOMAIN c :
           /\ c[b].parts = IF c[b].type = "text" \/ (c[b].type = "tool" /\ b \in whole')
                           THEN Cardinality(DeltasAt(stream, b)) ELSE 0
           /\ IF b \in Given!Blocks(stream, "open")
              THEN E("open", b, c[b].type) \in {stream[i] : i \in DOMAIN stream}
              ELSE c[b].type = "text"
    BY <2>1, <2>3, <2>5 DEF FoldOf
  <2>7. DOMAIN c = Given!Blocks(stream, "open") \cup Given!Blocks(stream, "delta")
    BY <2>1, <2>3 DEF FoldOf
  <2>8. AnswersInKind'
    BY <1>1, <1>3, <1>4, <2>1, <2>2, <2>4, <2>6, <2>7 DEF AnswersInKind
  <2> QED
    BY <1>1, <1>2, <2>8 DEF GInv
<1>5. CASE kind # "message"
  BY <1>1, <1>2, <1>3, <1>5 DEF GInv, AnswersInKind
<1> QED
  BY <1>4, <1>5

LEMMA FinishKeeps ==
  ASSUME GInv, Finish(folded, foldError),
         UNCHANGED <<requests, asked, stream, folded, foldError>>
  PROVE  GInv'
<1>1. CASE asked.stream
  BY <1>1, AnswerKeeps DEF Finish
<1>2. CASE ~ asked.stream /\ foldError /\ folded.blocks = <<>>
  BY <1>2, AnswerKeeps DEF Finish
<1>3. CASE ~ asked.stream /\ ~ (foldError /\ folded.blocks = <<>>)
  <2> DEFINE m == [blocks |-> Content(folded.blocks, whole'),
                   stop |-> IF folded.stop = "none" THEN "end_turn" ELSE folded.stop]
  <2>1. Answer("message", m) /\ m.blocks = Content(folded.blocks, whole')
    BY <1>3 DEF Finish
  <2>2. whole' \in SUBSET {b \in DOMAIN folded.blocks : folded.blocks[b].type = "tool"}
    BY DEF Finish
  <2> HIDE DEF m
  <2> QED
    BY <1>3, <2>1, <2>2, AnswerKeeps
<1> QED
  BY <1>1, <1>2, <1>3

LEMMA NextGInv == GInv /\ [GateNext]_gateVars => GInv'
<1> SUFFICES ASSUME GInv, [GateNext]_gateVars PROVE GInv'
  OBVIOUS
<1>1. CASE UNCHANGED gateVars
  <2>1. \A b : Parts(b)' = Parts(b)
    BY <1>1 DEF gateVars, Parts
  <2> QED
    BY <1>1, <2>1 DEF gateVars, GInv, GateTypes, FoldIsWhole, ToolTurnBegun, AnswersInKind,
                  WebTurnKeepsContract
<1>2. CASE Receive
  BY <1>2, ReceiveKeeps
<1>3. CASE PreflightRaises
  BY <1>3, AnswerKeeps DEF PreflightRaises
<1>4. CASE ProviderSends
  <2>1. PICK e \in ProviderEvents : (Given!Legal(stream, e) \/ Strays(e)) /\ Tell(e)
    BY <1>4 DEF ProviderSends
  <2>2. e \in GateEvent
    BY GateAssumption DEF ProviderEvents, GateEvent
  <2>3. gateAt = "streaming" /\ UNCHANGED <<gateAt, requests, asked, answer>>
    BY <1>4 DEF ProviderSends
  <2>4. /\ asked.path # "webTool"
        /\ e.kind = "open" => e.block \notin Given!Blocks(stream, "open")
    BY <2>1, <2>3 DEF GInv, ToolTurnBegun, Strays, Given!Legal
  <2> QED
    BY <2>1, <2>2, <2>3, <2>4, TellKeeps DEF GInv, GateTypes, ToolTurnBegun, AnswersInKind
<1>5. CASE ProviderEnds
  BY <1>5, FinishKeeps DEF ProviderEnds
<1>6. CASE ProviderRaises
  <2>1. CASE asked.stream
    BY <1>6, <2>1, AnswerKeeps DEF ProviderRaises
  <2>2. CASE ~ asked.stream
    BY <1>6, <2>2, AnswerKeeps DEF ProviderRaises
  <2> QED
    BY <2>1, <2>2
<1>7. CASE ToolTells
  <2> DEFINE e == ToolTurn[Len(stream) + 1]
  <2>1. /\ gateAt = "telling" /\ Len(stream) < Len(ToolTurn) /\ Tell(e)
        /\ gateAt' \in {"telling", "fetching"} /\ UNCHANGED <<requests, asked, answer>>
    BY <1>7 DEF ToolTells
  <2>2. stream \in Seq(GateEvent) /\ \A k \in 1 .. Len(stream) : stream[k] = ToolTurn[k]
    BY <2>1 DEF GInv, GateTypes, ToolTurnBegun
  <2>3. e \in GateEvent /\ Given!Legal(stream, e)
    BY <2>1, <2>2, ToolTurnIsLegal
  <2> HIDE DEF e
  <2>4. stream' = Append(stream, e)
    BY <2>1 DEF Tell
  <2>5. ToolTurnBegun'
    <3>1. /\ Len(stream') = Len(stream) + 1 /\ Len(stream) \in Nat
          /\ \A k \in 1 .. Len(stream) : stream'[k] = stream[k]
          /\ stream'[Len(stream) + 1] = e
      BY <2>2, <2>3, <2>4
    <3>2. Len(stream') <= Len(ToolTurn)
      BY <3>1, <2>1, ToolTurnIs
    <3>3. ASSUME NEW k \in 1 .. Len(stream') PROVE stream'[k] = ToolTurn[k]
      <4>1. CASE k = Len(stream) + 1
        BY <4>1, <3>1 DEF e
      <4>2. CASE k \in 1 .. Len(stream)
        BY <4>2, <3>1, <2>2
      <4> QED
        BY <3>1, <4>1, <4>2
    <3> QED
      BY <2>1, <3>2, <3>3 DEF ToolTurnBegun
  <2>6. e.kind = "open" => e.block \notin Given!Blocks(stream, "open")
    BY <2>3 DEF Given!Legal
  <2> QED
    BY <2>1, <2>3, <2>5, <2>6, TellKeeps DEF GInv, GateTypes, AnswersInKind
<1>8. CASE ToolEnds
  BY <1>8, FinishKeeps DEF ToolEnds
<1>9. CASE ToolReturns
  BY <1>9 DEF ToolReturns, GInv, GateTypes, FoldIsWhole, ToolTurnBegun, AnswersInKind,
              WebTurnKeepsContract
<1> QED
  BY <1>1, <1>2, <1>3, <1>4, <1>5, <1>6, <1>7, <1>8, <1>9 DEF GateNext

\* Whatever is asked and however its stream goes, the folded message has what was told.
THEOREM GateInductive == GateSpec => []GInv
<1> QED
  BY InitGInv, NextGInv, PTL DEF GateSpec

\* A client is answered in the form it asked for and with all that was said.
THEOREM AnswersKeepTheirFormCorrect == GateSpec => []AnswersKeepTheirForm
<1>1. GInv => AnswersKeepTheirForm
  BY DEF GInv, AnswersKeepTheirForm
<1> QED
  BY <1>1, GateInductive, PTL

-----------------------------------------------------------------------------
(* The outbox: compaction forgets nobody, and updates of a key are shown   *)
(* in order as long as none is tried again.                                *)

Unretried == \A q \in Request : retries[q] = 0

\* A request that came to the queue.
Arrived(r) == status[r] \notin {"new", "starting"}

\* Only what was called waits for its task, and only what came to the queue is held
\* or was answered.
OnlyCalled ==
    /\ \A i \in DOMAIN called : status[called[i]] # "new"
    /\ \A i, j \in DOMAIN called : called[i] = called[j] => i = j
    /\ \A r \in Request : status[r] = "backoff" => retries[r] # 0
    /\ \A k \in Key : \A r \in futures[k] : KeyOf[r] = k /\ Arrived(r)
    /\ \A r \in heldFutures : KeyOf[r] = heldKey /\ Arrived(r)

\* One request was called before the other, and not overtaken by it.
Older(q, r) == Before(q, r) /\ <<q, r>> \notin overtaken

\* The tasks that have yet to run are in the order of their calls; what came to the
\* queue before them is older, or overtook them.
TasksInOrder ==
    /\ \A r \in Request : status[r] = "starting" <=> r \in NotStarted
    /\ \A i, j \in DOMAIN starting : i < j =>
          starting[i] # starting[j] /\ ~Before(starting[j], starting[i])
    /\ \A q, r \in Request :
          status[q] = "starting" /\ Arrived(r) /\ KeyOf[q] = KeyOf[r] => ~Older(q, r)

\* The function that waits under a key is the newest of those that came.
QueuedIsNewest ==
    \A k \in Key : \A r \in Request :
        func[k] # None /\ KeyOf[r] = k /\ Arrived(r) => ~Older(func[k], r)

\* The function that the worker holds is as new as whoever waits for it, and as
\* whatever was reported of its key.
HeldIsNewer ==
    worker \in {"holding", "sending"} =>
        /\ heldFunc # None
        /\ \A r \in Request :
              KeyOf[r] = heldKey /\ (r \in heldFutures \/ status[r] = "done") =>
                  ~Older(heldFunc, r)

DoneIsShown == \A r \in Request : status[r] = "done" => Newest(r)

\* The order of the updates, as a strengthening of LatestUnlessRetried.
UpdatesInOrder == Unretried => QueuedIsNewest /\ HeldIsNewer /\ DoneIsShown

LInv == TypeOK /\ WaitersAreKept /\ OnlyCalled /\ TasksInOrder /\ UpdatesInOrder

LEMMA NewestIs ==
  \A r : Newest(r) <=> shown[KeyOf[r]] # None /\ ~Older(shown[KeyOf[r]], r)
BY DEF Newest, Older
-----------------------------------------------------------------------------
LEMMA InitLInv == Init => LInv
<1> SUFFICES ASSUME Init PROVE LInv
  OBVIOUS
<1>1. /\ called = <<>> /\ starting = <<>> /\ queue = <<>>
      /\ <<>> \in Seq(Request) /\ <<>> \in Seq(Key)
  BY DEF Init
<1>2. TypeOK
  <2>1. queue \in Seq(Key) /\ (\A i, j \in DOMAIN queue : queue[i] = queue[j] => i = j)
    BY <1>1
  <2>2. InQueue = {}
    BY <1>1 DEF InQueue
  <2>3. /\ retries \in [Request -> 0 .. MaxRetries]
        /\ status \in [Request -> {"new", "starting", "waiting", "backoff", "done", "failed",
                                  "left"}]
        /\ func \in [Key -> Request \cup {None}] /\ futures \in [Key -> SUBSET Request]
        /\ shown \in [Key -> Request \cup {None}]
        /\ \A k \in Key : func[k] # None <=> k \in InQueue
    BY <2>2, LimiterAssumption DEF Init
  <2> QED
    BY <1>1, <2>1, <2>3 DEF Init, TypeOK
<1>3. WaitersAreKept /\ OnlyCalled /\ TasksInOrder
  BY <1>1 DEF Init, WaitersAreKept, OnlyCalled, TasksInOrder, NotStarted, Arrived
<1>4. UpdatesInOrder
  BY <1>1 DEF Init, UpdatesInOrder, QueuedIsNewest, HeldIsNewer, DoneIsShown
<1> QED
  BY <1>2, <1>3, <1>4 DEF LInv

\* What compaction does to the queue and the map.
LEMMA EnqueueType ==
  ASSUME TypeOK, NEW r \in Request, Enqueue(r)
  PROVE  /\ queue' \in Seq(Key) /\ \A i, j \in DOMAIN queue' : queue'[i] = queue'[j] => i = j
         /\ func' \in [Key -> Request \cup {None}] /\ futures' \in [Key -> SUBSET Request]
         /\ \A k \in Key : func'[k] # None <=> k \in InQueue'
         /\ InQueue' = InQueue \cup {KeyOf[r]}
<1> USE LimiterAssumption DEF TypeOK
<1>1. KeyOf[r] \in Key /\ r # None
  OBVIOUS
<1>2. func' \in [Key -> Request \cup {None}] /\ futures' \in [Key -> SUBSET Request]
  BY <1>1 DEF Enqueue
<1>3. CASE func[KeyOf[r]] = None
  <2>1. /\ queue' = Append(queue, KeyOf[r]) /\ queue' \in Seq(Key)
        /\ Len(queue') = Len(queue) + 1 /\ queue'[Len(queue) + 1] = KeyOf[r]
        /\ \A i \in 1 .. Len(queue) : queue'[i] = queue[i]
    BY <1>1, <1>3 DEF Enqueue
  <2>2. InQueue' = InQueue \cup {KeyOf[r]}
    <3>1. DOMAIN queue = 1 .. Len(queue) /\ DOMAIN queue' = 1 .. Len(queue) + 1 /\ Len(queue) \in Nat
      BY <2>1
    <3>2. ASSUME NEW k \in InQueue' PROVE k \in InQueue \cup {KeyOf[r]}
      <4>1. PICK i \in DOMAIN queue' : k = queue'[i]
        BY DEF InQueue
      <4>2. i \in 1 .. Len(queue) \/ i = Len(queue) + 1
        BY <3>1
      <4> QED
        BY <2>1, <3>1, <4>1, <4>2 DEF InQueue
    <3>3. ASSUME NEW k \in InQueue PROVE k \in InQueue'
      <4>1. PICK i \in DOMAIN queue : k = queue[i]
        BY DEF InQueue
      <4>2. i \in DOMAIN queue' /\ queue'[i] = k
        BY <2>1, <3>1, <4>1
      <4> QED
        BY <4>2 DEF InQueue
    <3>4. KeyOf[r] \in InQueue'
      <4>1. Len(queue) + 1 \in DOMAIN queue'
        BY <3>1
      <4> QED
        BY <2>1, <4>1 DEF InQueue
    <3> QED
      BY <3>2, <3>3, <3>4
  <2>3. \A i \in DOMAIN queue : queue[i] # KeyOf[r]
    BY <1>1, <1>3 DEF InQueue
  <2>4. \A i, j \in DOMAIN queue' : queue'[i] = queue'[j] => i = j
    BY <2>1, <2>3
  <2>5. \A k \in Key : func'[k] # None <=> k \in InQueue'
    BY <1>1, <2>2 DEF Enqueue
  <2> QED
    BY <1>2, <2>1, <2>2, <2>4, <2>5
<1>4. CASE func[KeyOf[r]] # None
  <2>1. queue' = queue /\ InQueue' = InQueue /\ KeyOf[r] \in InQueue
    BY <1>1, <1>4 DEF Enqueue, InQueue
  <2>2. \A k \in Key : func'[k] # None <=> k \in InQueue'
    BY <1>1, <2>1 DEF Enqueue
  <2> QED
    BY <1>2, <2>1, <2>2
<1> QED
  BY <1>3, <1>4

\* What the worker leaves when it takes the oldest key.
LEMMA TakeType ==
  ASSUME TypeOK, Take
  PROVE  /\ queue' \in Seq(Key) /\ \A i, j \in DOMAIN queue' : queue'[i] = queue'[j] => i = j
         /\ heldKey' = Head(queue) /\ heldKey' \in Key /\ func[heldKey'] # None
         /\ InQueue' = InQueue \ {heldKey'}
<1> USE DEF TypeOK
<1>1. queue # <<>> /\ heldKey' = Head(queue) /\ queue' = Tail(queue)
  BY DEF Take
<1>2. /\ Len(queue) \in Nat \ {0} /\ DOMAIN queue = 1 .. Len(queue)
      /\ Head(queue) = queue[1] /\ queue' \in Seq(Key) /\ heldKey' \in Key
      /\ DOMAIN queue' = 1 .. Len(queue) - 1
      /\ \A i \in 1 .. Len(queue) - 1 : queue'[i] = queue[i + 1]
  BY <1>1
<1>3. \A i, j \in DOMAIN queue' : queue'[i] = queue'[j] => i = j
  <2> SUFFICES ASSUME NEW i \in DOMAIN queue', NEW j \in DOMAIN queue', queue'[i] = queue'[j]
               PROVE  i = j
    OBVIOUS
  <2>1. i + 1 \in DOMAIN queue /\ j + 1 \in DOMAIN queue /\ queue[i + 1] = queue[j + 1]
    BY <1>2
  <2>2. i + 1 = j + 1
    BY <2>1
  <2> QED
    BY <1>2, <2>2
<1>4. heldKey' \in InQueue
  <2>1. 1 \in DOMAIN queue
    BY <1>2
  <2> QED
    BY <1>1, <1>2, <2>1 DEF InQueue
<1>5. ASSUME NEW k \in InQueue' PROVE k \in InQueue \ {heldKey'}
  <2>1. PICK i \in DOMAIN queue' : k = queue'[i]
    BY DEF InQueue
  <2>2. i + 1 \in DOMAIN queue /\ k = queue[i + 1] /\ i + 1 # 1 /\ 1 \in DOMAIN queue
    BY <1>2, <2>1
  <2> QED
    BY <1>1, <1>2, <2>2 DEF InQueue
<1>6. ASSUME NEW k \in InQueue, k # heldKey' PROVE k \in InQueue'
  <2>1. PICK i \in DOMAIN queue : k = queue[i]
    BY DEF InQueue
  <2>2. i # 1
    BY <1>1, <1>2, <1>6, <2>1
  <2>3. i - 1 \in DOMAIN queue' /\ queue'[i - 1] = k
    BY <1>2, <2>1, <2>2
  <2> QED
    BY <2>3 DEF InQueue
<1> QED
  BY <1>1, <1>2, <1>3, <1>4, <1>5, <1>6
-----------------------------------------------------------------------------
LEMMA NextType == TypeOK /\ [Next]_vars => TypeOK'
<1> SUFFICES ASSUME TypeOK, [Next]_vars PROVE TypeOK'
  OBVIOUS
<1> USE LimiterAssumption DEF TypeOK, callVars, requestVars, queueVars, workerVars
<1>1. ASSUME NEW r \in Request, Call(r) PROVE TypeOK'
  <2>1. overtaken' \in SUBSET (Request \X Request)
    BY <1>1 DEF Call, NotStarted
  <2> QED
    BY <1>1, EnqueueType, <2>1 DEF Call, callVars
<1>11. ASSUME NEW r \in Request, FireAndForget(r) PROVE TypeOK'
  BY <1>11 DEF FireAndForget, InQueue
<1>12. CASE Start
  <2>1. PICK r \in Request : r = Head(starting)
    BY <1>12 DEF Start
  <2>2. Enqueue(r) /\ starting' = Tail(starting) /\ status' = [status EXCEPT ![r] = "waiting"]
    BY <1>12, <2>1 DEF Start
  <2>3. starting' \in Seq(Request)
    BY <1>12, <2>2 DEF Start
  <2> QED
    BY <1>12, <2>2, <2>3, EnqueueType DEF Start
<1>2. ASSUME NEW r \in Request, Retry(r) PROVE TypeOK'
  BY <1>2, EnqueueType DEF Retry
<1>3. ASSUME NEW r \in Request, Leave(r) PROVE TypeOK'
  BY <1>3 DEF Leave, InQueue
<1>4. CASE Take
  <2>1. \A k \in Key : func'[k] # None <=> k \in InQueue'
    BY <1>4, TakeType DEF Take
  <2>2. /\ func' \in [Key -> Request \cup {None}] /\ futures' \in [Key -> SUBSET Request]
        /\ heldFunc' \in Request \cup {None} /\ heldFutures' \subseteq Request
    BY <1>4, TakeType DEF Take
  <2>3. heldKey' \in Key /\ heldKey' # None
    BY TakeType, <1>4
  <2> QED
    BY <1>4, TakeType, <2>1, <2>2, <2>3 DEF Take
<1>5. CASE Send
  BY <1>5 DEF Send, InQueue
<1>6. CASE Succeeds
  BY <1>6 DEF Succeeds, LetsGo, InQueue
<1>7. CASE Fails
  BY <1>7 DEF Fails, LetsGo, InQueue
<1>8. CASE Breaks
  <2>1. shown' \in [Key -> Request \cup {None}]
    BY <1>8 DEF Breaks
  <2>2. retries' \in [Request -> 0 .. MaxRetries] /\ UNCHANGED <<callVars, queueVars, shutdown>>
    BY <1>8 DEF Breaks
  <2>3. status' \in [Request -> {"new", "starting", "waiting", "backoff", "done", "failed",
                                "left"}]
    BY <1>8 DEF Breaks, Open
  <2> QED
    BY <1>8, <2>1, <2>2, <2>3 DEF Breaks, LetsGo, InQueue
<1>9. CASE Shutdown
  BY <1>9 DEF Shutdown, InQueue
<1>10. CASE UNCHANGED vars
  BY <1>10 DEF vars, InQueue
<1> QED
  BY <1>1, <1>2, <1>3, <1>4, <1>5, <1>6, <1>7, <1>8, <1>9, <1>10, <1>11, <1>12
     DEF Next, WorkerStep

LEMMA NextKept == TypeOK /\ TypeOK' /\ WaitersAreKept /\ [Next]_vars => WaitersAreKept'
<1> SUFFICES ASSUME TypeOK, TypeOK', WaitersAreKept, [Next]_vars,
                    NEW q \in Request, status'[q] = "waiting"
             PROVE  \/ KeyOf[q] \in InQueue' /\ q \in futures'[KeyOf[q]]
                    \/ worker' # "idle" /\ heldKey' = KeyOf[q] /\ q \in heldFutures'
  BY DEF WaitersAreKept
<1> DEFINE Goal == \/ KeyOf[q] \in InQueue' /\ q \in futures'[KeyOf[q]]
                   \/ worker' # "idle" /\ heldKey' = KeyOf[q] /\ q \in heldFutures'
<1> USE LimiterAssumption DEF callVars, requestVars, queueVars, workerVars
<1>0. KeyOf[q] \in Key
  OBVIOUS
<1>1. status[q] = "waiting" => \/ KeyOf[q] \in InQueue /\ q \in futures[KeyOf[q]]
                               \/ worker # "idle" /\ heldKey = KeyOf[q] /\ q \in heldFutures
  BY DEF WaitersAreKept
<1>2. ASSUME NEW r \in Request, Enqueue(r), status' = [status EXCEPT ![r] = "waiting"],
             UNCHANGED workerVars
      PROVE  Goal
  <2>1. /\ InQueue' = InQueue \cup {KeyOf[r]} /\ r \in futures'[KeyOf[r]]
        /\ q \in futures[KeyOf[q]] => q \in futures'[KeyOf[q]]
    <3>1. InQueue' = InQueue \cup {KeyOf[r]}
      BY <1>2, EnqueueType
    <3>2. KeyOf[r] \in Key /\ futures' = [futures EXCEPT ![KeyOf[r]] = @ \cup {r}]
      BY <1>2 DEF Enqueue
    <3>3. r \in futures'[KeyOf[r]] /\ (q \in futures[KeyOf[q]] => q \in futures'[KeyOf[q]])
      BY <1>0, <3>2 DEF TypeOK
    <3> QED
      BY <3>1, <3>3
  <2>2. CASE q = r
    BY <2>1, <2>2
  <2>3. CASE q # r
    BY <1>1, <1>2, <2>1, <2>3 DEF TypeOK
  <2> QED
    BY <2>2, <2>3
<1>3. ASSUME NEW r \in Request, Leave(r) PROVE Goal
  BY <1>1, <1>3 DEF Leave, TypeOK, InQueue
<1>4. CASE Take
  <2>1. status[q] = "waiting" /\ worker = "idle"
    BY <1>4 DEF Take
  <2>2. KeyOf[q] \in InQueue /\ q \in futures[KeyOf[q]]
    BY <1>1, <2>1
  <2>3. CASE KeyOf[q] = heldKey'
    BY <1>4, <2>2, <2>3, TakeType DEF Take
  <2>4. CASE KeyOf[q] # heldKey'
    <3>1. KeyOf[q] \in InQueue'
      BY <1>4, <2>2, <2>4, TakeType
    <3>2. futures'[KeyOf[q]] = futures[KeyOf[q]]
      BY <1>0, <1>4, <2>4 DEF Take, TypeOK
    <3> QED
      BY <2>2, <3>1, <3>2
  <2> QED
    BY <2>3, <2>4
<1>5. CASE Send
  BY <1>1, <1>5 DEF Send, InQueue
<1>6. CASE Succeeds
  BY <1>1, <1>6 DEF Succeeds, Open, InQueue
<1>7. CASE Fails
  BY <1>1, <1>7 DEF Fails, Open, InQueue
<1>8. CASE Breaks
  BY <1>1, <1>8 DEF Breaks, Open, InQueue
<1>9. CASE Shutdown
  BY <1>1, <1>9 DEF Shutdown, InQueue
<1>10. CASE UNCHANGED vars
  BY <1>1, <1>10 DEF vars, InQueue
<1>11. ASSUME NEW r \in Request, FireAndForget(r) PROVE Goal
  BY <1>1, <1>11 DEF FireAndForget, TypeOK, InQueue
<1>12. CASE Start
  <2>1. PICK r \in Request : r = Head(starting)
    BY <1>12 DEF Start, TypeOK
  <2> QED
    BY <1>2, <1>12, <2>1 DEF Start
<1> QED
  BY <1>2, <1>3, <1>4, <1>5, <1>6, <1>7, <1>8, <1>9, <1>10, <1>11, <1>12
     DEF Next, WorkerStep, Call, Retry

-----------------------------------------------------------------------------
LEMMA CalledAppend ==
  ASSUME TypeOK, OnlyCalled, NEW c \in Request, called' = Append(called, c), status[c] = "new"
  PROVE  /\ \A i, j \in DOMAIN called' : called'[i] = called'[j] => i = j
         /\ called \in Seq(Request)
         /\ \A i \in DOMAIN called' :
               called'[i] = c \/ (i \in DOMAIN called /\ called'[i] = called[i])
<1>1. called \in Seq(Request) /\ DOMAIN called = 1 .. Len(called) /\ Len(called) \in Nat
  BY DEF TypeOK
<1>2. DOMAIN called' = 1 .. Len(called) + 1 /\ called'[Len(called) + 1] = c
  BY <1>1
<1>3. \A i \in DOMAIN called : called[i] # c /\ called'[i] = called[i]
  BY <1>1 DEF OnlyCalled
<1>4. \A i, j \in DOMAIN called' : called'[i] = called'[j] => i = j
  BY <1>1, <1>2, <1>3 DEF OnlyCalled
<1> QED
  BY <1>1, <1>2, <1>4

LEMMA NextCalled == TypeOK /\ TypeOK' /\ OnlyCalled /\ [Next]_vars => OnlyCalled'
<1> SUFFICES ASSUME TypeOK, TypeOK', OnlyCalled, [Next]_vars PROVE OnlyCalled'
  OBVIOUS
<1> USE LimiterAssumption DEF callVars, requestVars, queueVars, workerVars, Arrived
<1>1. ASSUME NEW r \in Request, Enqueue(r), status' = [status EXCEPT ![r] = "waiting"],
             called' = called \/ (called' = Append(called, r) /\ status[r] = "new"),
             UNCHANGED <<retries, workerVars>>
      PROVE  OnlyCalled'
  <2>0. \A i, j \in DOMAIN called' : called'[i] = called'[j] => i = j
    BY <1>1, CalledAppend DEF OnlyCalled
  <2>1. \A i \in DOMAIN called' : called'[i] = r \/ (i \in DOMAIN called /\ called'[i] = called[i])
    BY <1>1, CalledAppend
  <2>2. \A i \in DOMAIN called' : status'[called'[i]] # "new"
    BY <1>1, <2>1 DEF TypeOK, OnlyCalled
  <2>3. \A k \in Key : \A q \in futures'[k] : KeyOf[q] = k /\ Arrived(q)'
    <3>1. KeyOf[r] \in Key /\ futures' = [futures EXCEPT ![KeyOf[r]] = @ \cup {r}]
      BY <1>1 DEF Enqueue
    <3>2. \A k \in Key : \A q \in futures'[k] : q \in futures[k] \/ (q = r /\ k = KeyOf[r])
      BY <3>1 DEF TypeOK
    <3> QED
      BY <1>1, <3>2 DEF TypeOK, OnlyCalled
  <2>4. \A q \in Request : status'[q] = "backoff" => retries'[q] # 0
    BY <1>1 DEF TypeOK, OnlyCalled
  <2>5. \A q \in heldFutures' : KeyOf[q] = heldKey' /\ Arrived(q)'
    BY <1>1 DEF TypeOK, OnlyCalled
  <2> QED
    BY <2>0, <2>2, <2>3, <2>4, <2>5 DEF OnlyCalled
<1>2. ASSUME NEW r \in Request, FireAndForget(r) PROVE OnlyCalled'
  <2>a. called' = Append(called, r) /\ status[r] = "new"
    BY <1>2 DEF FireAndForget
  <2>b. /\ \A i \in DOMAIN called' :
              called'[i] = r \/ (i \in DOMAIN called /\ called'[i] = called[i])
        /\ called \in Seq(Request)
    BY <2>a, CalledAppend
  <2>0. \A i, j \in DOMAIN called' : called'[i] = called'[j] => i = j
    BY <2>a, CalledAppend
  <2>c. status' = [status EXCEPT ![r] = "starting"]
    BY <1>2 DEF FireAndForget
  <2>1. \A i \in DOMAIN called' : status'[called'[i]] # "new"
    BY <2>b, <2>c DEF TypeOK, OnlyCalled
  <2> QED
    BY <1>2, <2>0, <2>1 DEF FireAndForget, TypeOK, OnlyCalled
<1>3. ASSUME NEW r \in Request, Leave(r) PROVE OnlyCalled'
  BY <1>3 DEF Leave, TypeOK, OnlyCalled
<1>4. CASE Take
  <2>1. heldKey' \in Key /\ heldFutures' = futures[heldKey']
    BY <1>4, TakeType DEF Take
  <2>2. \A k \in Key : \A q \in futures'[k] : KeyOf[q] = k /\ Arrived(q)'
    BY <1>4, <2>1 DEF Take, TypeOK, OnlyCalled
  <2> QED
    BY <1>4, <2>1, <2>2 DEF Take, OnlyCalled
<1>5. CASE Send
  BY <1>5 DEF Send, OnlyCalled
<1>6. CASE Succeeds
  BY <1>6 DEF Succeeds, LetsGo, TypeOK, OnlyCalled
<1>7. CASE Fails
  BY <1>7 DEF Fails, LetsGo, TypeOK, OnlyCalled
<1>8. CASE Breaks
  <2> DEFINE again == {r \in Open : r \notin Awaited /\ retries[r] < MaxRetries}
  <2>0. again \subseteq Open /\ Open \subseteq Request
    BY DEF Open, TypeOK
  <2>a. /\ status' = [q \in Request |-> IF q \in again THEN "backoff"
                                       ELSE IF q \in Open THEN "failed" ELSE status[q]]
        /\ retries' = [q \in Request |-> IF q \in again THEN retries[q] + 1 ELSE retries[q]]
    BY <1>8 DEF Breaks
  <2> HIDE DEF again
  <2>1. \A q \in Request : /\ status'[q] \notin {"new", "starting"} \/ status'[q] = status[q]
                           /\ status[q] # "new" => status'[q] # "new"
                           /\ Arrived(q) => Arrived(q)'
                           /\ q \in again => retries'[q] = retries[q] + 1
                           /\ q \notin again => retries'[q] = retries[q]
                           /\ q \notin again => status'[q] # "backoff" \/ status[q] = "backoff"
    BY <2>a
  <2>2. \A q \in Request : status'[q] = "backoff" => retries'[q] # 0
    <3> SUFFICES ASSUME NEW q \in Request, status'[q] = "backoff" PROVE retries'[q] # 0
      OBVIOUS
    <3>1. retries[q] \in Nat
      BY DEF TypeOK
    <3>2. CASE q \in again
      BY <2>1, <3>1, <3>2
    <3>3. CASE q \notin again
      BY <2>1, <3>3 DEF OnlyCalled
    <3> QED
      BY <3>2, <3>3
  <2>3. called \in Seq(Request) /\ \A i \in DOMAIN called : called[i] \in Request
    BY DEF TypeOK
  <2>4. \A i \in DOMAIN called' : status'[called'[i]] # "new"
    BY <1>8, <2>1, <2>3 DEF Breaks, OnlyCalled
  <2>5. \A k \in Key : \A q \in futures'[k] : KeyOf[q] = k /\ Arrived(q)'
    BY <1>8, <2>1 DEF Breaks, OnlyCalled, TypeOK
  <2>6. heldFutures' = {}
    BY <1>8 DEF Breaks, LetsGo
  <2> QED
    BY <1>8, <2>2, <2>4, <2>5, <2>6 DEF OnlyCalled, Breaks
<1>9. CASE Shutdown
  BY <1>9 DEF Shutdown, OnlyCalled
<1>10. CASE UNCHANGED vars
  BY <1>10 DEF vars, OnlyCalled
<1>11. ASSUME NEW r \in Request, Call(r) PROVE OnlyCalled'
  BY <1>1, <1>11 DEF Call
<1>12. ASSUME NEW r \in Request, Retry(r) PROVE OnlyCalled'
  BY <1>1, <1>12 DEF Retry
<1>13. CASE Start
  <2>1. PICK r \in Request : r = Head(starting)
    BY <1>13 DEF Start, TypeOK
  <2> QED
    BY <1>1, <1>13, <2>1 DEF Start
<1> QED
  BY <1>2, <1>3, <1>4, <1>5, <1>6, <1>7, <1>8, <1>9, <1>10, <1>11, <1>12, <1>13
     DEF Next, WorkerStep

-----------------------------------------------------------------------------
\* A call is after all the others, and changes nothing between them.
LEMMA BeforeAppend ==
  ASSUME called \in Seq(Request), NEW c \in Request, called' = Append(called, c),
         NEW p, NEW q
  PROVE  /\ q # c /\ Before(p, q)' => Before(p, q)
         /\ (\A i \in DOMAIN called : called[i] # c) => ~Before(c, q)'
<1>1. /\ DOMAIN called = 1 .. Len(called) /\ Len(called) \in Nat
      /\ DOMAIN called' = 1 .. Len(called) + 1
      /\ called'[Len(called) + 1] = c
      /\ \A i \in DOMAIN called : called'[i] = called[i]
  OBVIOUS
<1>2. ASSUME q # c, Before(p, q)' PROVE Before(p, q)
  <2>1. PICK i \in DOMAIN called', j \in DOMAIN called' : i < j /\ called'[i] = p /\ called'[j] = q
    BY <1>2 DEF Before
  <2>2. j # Len(called) + 1
    BY <1>1, <1>2, <2>1
  <2>3. i \in DOMAIN called /\ j \in DOMAIN called
    BY <1>1, <2>1, <2>2
  <2> QED
    BY <1>1, <2>1, <2>3 DEF Before
<1>3. ASSUME \A i \in DOMAIN called : called[i] # c, Before(c, q)' PROVE FALSE
  <2>1. PICK i \in DOMAIN called', j \in DOMAIN called' : i < j /\ called'[i] = c /\ called'[j] = q
    BY <1>3 DEF Before
  <2>2. i \in DOMAIN called
    BY <1>1, <2>1
  <2> QED
    BY <1>1, <1>3, <2>1, <2>2
<1> QED
  BY <1>2, <1>3

\* What a task that has yet to run is to the others stays while nothing is called.
LEMMA TasksStay ==
  ASSUME TypeOK, TasksInOrder, UNCHANGED callVars,
         \A r \in Request : /\ status'[r] = "starting" <=> status[r] = "starting"
                            /\ Arrived(r)' <=> Arrived(r)
  PROVE  TasksInOrder'
<1>1. NotStarted' = NotStarted /\ \A p, q : Before(p, q)' <=> Before(p, q)
  BY DEF callVars, NotStarted, Before
<1>2. \A p, q : Older(p, q)' <=> Older(p, q)
  BY <1>1 DEF callVars, Older
<1> QED
  BY <1>1, <1>2 DEF TasksInOrder, callVars

\* A task is created at the end of those that have yet to run.
LEMMA TasksGrow ==
  ASSUME TypeOK, OnlyCalled, TasksInOrder, NEW c \in Request, FireAndForget(c)
  PROVE  TasksInOrder'
<1> USE DEF TypeOK, FireAndForget
<1>1. /\ called \in Seq(Request) /\ starting \in Seq(Request) /\ Len(starting) \in Nat
      /\ \A i \in DOMAIN called : called[i] # c
      /\ DOMAIN starting = 1 .. Len(starting) /\ DOMAIN starting' = 1 .. Len(starting) + 1
      /\ starting'[Len(starting) + 1] = c
      /\ \A i \in DOMAIN starting : starting'[i] = starting[i] /\ starting[i] \in Request
  BY DEF OnlyCalled
<1>2. \A p, q : (q # c /\ Before(p, q)' => Before(p, q)) /\ ~Before(c, q)'
  BY <1>1, BeforeAppend
<1>3. NotStarted' = NotStarted \cup {c} /\ c \notin NotStarted
  <2>1. \A x : x \in NotStarted' <=> x = c \/ x \in NotStarted
    <3>1. Len(starting) + 1 \in DOMAIN starting'
      BY <1>1
    <3>2. \A x \in NotStarted' : x = c \/ x \in NotStarted
      BY <1>1 DEF NotStarted
    <3>3. \A x \in NotStarted : x \in NotStarted'
      BY <1>1 DEF NotStarted
    <3>4. c \in NotStarted'
      BY <1>1, <3>1 DEF NotStarted
    <3> QED
      BY <3>4, <3>3, <3>2
  <2> QED
    BY <2>1 DEF TasksInOrder
<1>4. \A r \in Request : status'[r] = "starting" <=> r \in NotStarted'
  BY <1>3 DEF TasksInOrder
<1>5. ASSUME NEW i \in DOMAIN starting', NEW j \in DOMAIN starting', i < j
      PROVE  starting'[i] # starting'[j] /\ ~Before(starting[j], starting[i])'
  <2>1. i \in DOMAIN starting /\ starting[i] \in NotStarted /\ starting[i] # c
    BY <1>1, <1>3, <1>5 DEF NotStarted
  <2>2. CASE j = Len(starting) + 1
    BY <1>1, <1>2, <2>1, <2>2
  <2>3. CASE j # Len(starting) + 1
    <3>1. j \in DOMAIN starting
      BY <1>1, <2>3
    <3> QED
      BY <1>1, <1>2, <1>5, <2>1, <3>1 DEF TasksInOrder
  <2> QED
    BY <2>2, <2>3
<1>6. ASSUME NEW q \in Request, NEW r \in Request, status'[q] = "starting", Arrived(r)',
             KeyOf[q] = KeyOf[r]
      PROVE  ~Older(q, r)'
  <2>1. r # c /\ Arrived(r)
    BY <1>6 DEF Arrived
  <2>2. CASE q = c
    BY <1>2, <2>2 DEF Older
  <2>3. CASE q # c
    BY <1>2, <1>6, <2>1, <2>3 DEF Older, TasksInOrder
  <2> QED
    BY <2>2, <2>3
<1> QED
  BY <1>4, <1>5, <1>6 DEF TasksInOrder

\* The first task runs: those after it were called after it.
LEMMA TasksShrink ==
  ASSUME TypeOK, TasksInOrder, Start
  PROVE  TasksInOrder'
<1> USE DEF TypeOK, Start
<1>1. PICK c \in Request : c = Head(starting)
  OBVIOUS
<1>2. /\ starting \in Seq(Request) /\ Len(starting) \in Nat \ {0}
      /\ DOMAIN starting = 1 .. Len(starting) /\ DOMAIN starting' = 1 .. Len(starting) - 1
      /\ c = starting[1] /\ starting' = Tail(starting)
      /\ \A i \in DOMAIN starting' : starting'[i] = starting[i + 1]
      /\ status' = [status EXCEPT ![c] = "waiting"]
  BY <1>1
<1>3. \A p, q : (Before(p, q)' <=> Before(p, q)) /\ (Older(p, q)' <=> Older(p, q))
  BY DEF callVars, Before, Older
<1>4. \A x : x \in NotStarted' <=> x \in NotStarted /\ x # c
  <2>1. ASSUME NEW x \in NotStarted' PROVE x \in NotStarted /\ x # c
    <3>1. PICK i \in DOMAIN starting' : x = starting'[i]
      BY DEF NotStarted
    <3>2. x = starting[i + 1] /\ i + 1 \in DOMAIN starting /\ 1 \in DOMAIN starting /\ 1 < i + 1
      BY <1>2, <3>1
    <3>3. starting[1] # starting[i + 1]
      BY <3>2 DEF TasksInOrder
    <3> QED
      BY <1>2, <3>2, <3>3 DEF NotStarted
  <2>2. ASSUME NEW x \in NotStarted, x # c PROVE x \in NotStarted'
    <3>1. PICK i \in DOMAIN starting : x = starting[i]
      BY DEF NotStarted
    <3>2. i # 1
      BY <1>2, <2>2, <3>1
    <3>3. i - 1 \in DOMAIN starting'
      BY <1>2, <3>2
    <3>4. starting'[i - 1] = x
      BY <1>2, <3>1, <3>3
    <3> QED
      BY <3>3, <3>4 DEF NotStarted
  <2> QED
    BY <2>1, <2>2
<1>5. \A r \in Request : status'[r] = "starting" <=> r \in NotStarted'
  BY <1>2, <1>4 DEF TasksInOrder
<1>6. \A i, j \in DOMAIN starting' : i < j =>
         starting'[i] # starting'[j] /\ ~Before(starting'[j], starting'[i])
  <2> SUFFICES ASSUME NEW i \in DOMAIN starting', NEW j \in DOMAIN starting', i < j
               PROVE  starting'[i] # starting'[j] /\ ~Before(starting'[j], starting'[i])
    OBVIOUS
  <2>1. i + 1 \in DOMAIN starting /\ j + 1 \in DOMAIN starting /\ i + 1 < j + 1
    BY <1>2
  <2> QED
    BY <1>2, <2>1 DEF TasksInOrder
<1>7. ASSUME NEW q \in Request, NEW r \in Request, status'[q] = "starting", Arrived(r)',
             KeyOf[q] = KeyOf[r]
      PROVE  ~Older(q, r)
  <2>1. q \in NotStarted /\ q # c /\ status[q] = "starting"
    BY <1>4, <1>5, <1>7 DEF TasksInOrder
  <2>2. CASE r = c
    <3>1. PICK i \in DOMAIN starting : q = starting[i]
      BY <2>1 DEF NotStarted
    <3>2. 1 \in DOMAIN starting /\ 1 < i
      BY <1>2, <2>1, <3>1
    <3> QED
      BY <1>2, <2>2, <3>1, <3>2 DEF TasksInOrder, Older
  <2>3. CASE r # c
    <3>1. Arrived(r)
      BY <1>2, <1>7, <2>3 DEF Arrived
    <3> QED
      BY <1>7, <2>1, <3>1 DEF TasksInOrder
  <2> QED
    BY <2>2, <2>3
<1>8. \A i, j \in DOMAIN starting' : i < j => ~Before(starting[j], starting[i])'
  BY <1>3, <1>6
<1>9. \A q, r \in Request :
         status'[q] = "starting" /\ Arrived(r)' /\ KeyOf[q] = KeyOf[r] => ~Older(q, r)'
  BY <1>3, <1>7
<1> QED
  BY <1>5, <1>6, <1>8, <1>9 DEF TasksInOrder

LEMMA NextTasks == TypeOK /\ OnlyCalled /\ TasksInOrder /\ [Next]_vars => TasksInOrder'
<1> SUFFICES ASSUME TypeOK, OnlyCalled, TasksInOrder, [Next]_vars PROVE TasksInOrder'
  OBVIOUS
<1> USE DEF requestVars
<1>1. ASSUME NEW c \in Request, Call(c) PROVE TasksInOrder'
  <2>1. /\ called \in Seq(Request) /\ called' = Append(called, c) /\ starting' = starting
        /\ overtaken' = overtaken \cup ({q \in NotStarted : KeyOf[q] = KeyOf[c]} \X {c})
        /\ status[c] = "new" /\ status' = [status EXCEPT ![c] = "waiting"]
    BY <1>1 DEF Call, TypeOK
  <2>2. \A i \in DOMAIN called : called[i] # c
    BY <2>1 DEF OnlyCalled
  <2>3. \A p, q : q # c /\ Before(p, q)' => Before(p, q)
    BY <2>1, BeforeAppend
  <2>4. NotStarted' = NotStarted /\ NotStarted \subseteq Request /\ c \notin NotStarted
    <3>1. NotStarted' = NotStarted /\ NotStarted \subseteq Request
      BY <2>1 DEF NotStarted, TypeOK
    <3>2. c \notin NotStarted
      BY <2>1 DEF TasksInOrder
    <3> QED
      BY <3>1, <3>2
  <2>5. \A i \in DOMAIN starting : starting[i] # c
    BY <2>4 DEF NotStarted
  <2>6. \A i, j \in DOMAIN starting' : i < j =>
           starting'[i] # starting'[j] /\ ~Before(starting[j], starting[i])'
    BY <2>1, <2>3, <2>5 DEF TasksInOrder
  <2>7. \A r \in Request : status'[r] = "starting" <=> r \in NotStarted'
    BY <2>1, <2>4 DEF TasksInOrder, TypeOK
  <2>8. ASSUME NEW q \in Request, NEW r \in Request, status'[q] = "starting", Arrived(r)',
               KeyOf[q] = KeyOf[r]
        PROVE  ~Older(q, r)'
    <3>1. q \in NotStarted /\ status[q] = "starting"
      BY <2>4, <2>7, <2>8 DEF TasksInOrder
    <3>2. CASE r = c
      <4>1. <<q, r>> \in overtaken'
        BY <2>1, <2>8, <3>1, <3>2
      <4> QED
        BY <4>1 DEF Older
    <3>3. CASE r # c
      <4>1. Arrived(r)
        BY <2>1, <2>8, <3>3 DEF Arrived
      <4>2. ~Older(q, r)
        BY <2>8, <3>1, <4>1 DEF TasksInOrder
      <4> QED
        BY <2>1, <2>3, <3>3, <4>2 DEF Older
    <3> QED
      BY <3>2, <3>3
  <2> QED
    BY <2>6, <2>7, <2>8 DEF TasksInOrder
<1>2. ASSUME NEW c \in Request, FireAndForget(c) PROVE TasksInOrder'
  BY <1>2, TasksGrow
<1>3. CASE Start
  BY <1>3, TasksShrink
<1>4. ASSUME NEW c \in Request, Retry(c) \/ Leave(c) PROVE TasksInOrder'
  <2>1. /\ UNCHANGED callVars /\ status[c] \in {"backoff", "waiting"}
        /\ \E x \in {"waiting", "left"} : status' = [status EXCEPT ![c] = x]
    BY <1>4 DEF Retry, Leave
  <2>2. \A r \in Request : /\ status'[r] = "starting" <=> status[r] = "starting"
                           /\ Arrived(r)' <=> Arrived(r)
    BY <2>1 DEF Arrived, TypeOK
  <2> QED
    BY <2>1, <2>2, TasksStay
<1>5. CASE Succeeds \/ Fails \/ Breaks
  <2>1. UNCHANGED callVars
    BY <1>5 DEF Succeeds, Fails, Breaks
  <2>2. \A r \in Request : status'[r] = status[r] \/
           (status[r] = "waiting" /\ status'[r] \in {"done", "failed", "backoff"})
    BY <1>5 DEF Succeeds, Fails, Breaks, Open, TypeOK
  <2>3. \A r \in Request : /\ status'[r] = "starting" <=> status[r] = "starting"
                           /\ Arrived(r)' <=> Arrived(r)
    BY <2>2 DEF Arrived
  <2> QED
    BY <2>1, <2>3, TasksStay
<1>6. CASE Take \/ Send \/ Shutdown \/ UNCHANGED vars
  <2>1. UNCHANGED <<callVars, status>>
    BY <1>6 DEF Take, Send, Shutdown, vars
  <2> QED
    BY <2>1, TasksStay DEF Arrived
<1> QED
  BY <1>1, <1>2, <1>3, <1>4, <1>5, <1>6 DEF Next, WorkerStep

LEMMA NextInOrder ==
  ASSUME TypeOK, TypeOK', OnlyCalled, TasksInOrder, UpdatesInOrder, [Next]_vars
  PROVE  UpdatesInOrder'
<1> SUFFICES ASSUME Unretried'
             PROVE  QueuedIsNewest' /\ HeldIsNewer' /\ DoneIsShown'
  BY DEF UpdatesInOrder
<1> DEFINE Goal == QueuedIsNewest' /\ HeldIsNewer' /\ DoneIsShown'
<1> USE LimiterAssumption DEF callVars, requestVars, queueVars, workerVars
<1>0. KeyOf \in [Request -> Key]
  OBVIOUS
<1>9. ASSUME UNCHANGED callVars PROVE \A p, q : Older(p, q)' <=> Older(p, q)
  BY <1>9 DEF Older, Before
<1>1. ASSUME NEW c \in Request, Call(c) \/ FireAndForget(c) PROVE Goal
  <2>1. /\ called \in Seq(Request) /\ called' = Append(called, c) /\ status[c] = "new"
        /\ \E x \in {"waiting", "starting"} : status' = [status EXCEPT ![c] = x]
        /\ overtaken \subseteq overtaken'
        /\ UNCHANGED <<retries, workerVars, shown>>
    BY <1>1 DEF Call, FireAndForget, TypeOK
  <2>2. \A i \in DOMAIN called : called[i] # c
    BY <2>1 DEF OnlyCalled
  <2>3. \A p, q : q # c /\ Older(p, q)' => Older(p, q)
    BY <2>1, BeforeAppend DEF Older
  <2>4. \A q : ~Older(c, q)'
    BY <2>1, <2>2, BeforeAppend DEF Older
  <2>5. QueuedIsNewest /\ HeldIsNewer /\ DoneIsShown
    BY <2>1 DEF UpdatesInOrder, Unretried
  <2>9. \A q \in Request : q # c => (Arrived(q)' <=> Arrived(q)) /\ status'[q] = status[q]
    BY <2>1 DEF Arrived, TypeOK
  <2>6. QueuedIsNewest'
    <3> SUFFICES ASSUME NEW k \in Key, NEW q \in Request, func'[k] # None, KeyOf[q] = k,
                        Arrived(q)'
                 PROVE  ~Older(func[k], q)'
      BY DEF QueuedIsNewest
    <3>1. CASE q = c
      <4>1. Call(c)
        BY <1>1, <3>1 DEF FireAndForget, Arrived, TypeOK
      <4>2. func'[k] = c
        BY <3>1, <4>1 DEF Call, Enqueue, TypeOK
      <4> QED
        BY <2>4, <4>2
    <3>2. CASE q # c
      <4>1. func'[k] = c \/ func'[k] = func[k]
        BY <1>1 DEF Call, FireAndForget, Enqueue, TypeOK
      <4> QED
        BY <2>3, <2>4, <2>5, <2>9, <3>2, <4>1 DEF QueuedIsNewest
    <3> QED
      BY <3>1, <3>2
  <2>7. HeldIsNewer'
    <3>1. c \notin heldFutures
      BY <2>1 DEF OnlyCalled, Arrived
    <3> QED
      BY <2>1, <2>3, <2>5, <2>9, <3>1 DEF HeldIsNewer, TypeOK
  <2>8. DoneIsShown'
    <3> SUFFICES ASSUME NEW q \in Request, status'[q] = "done"
                 PROVE  shown'[KeyOf[q]] # None /\ ~Older(shown[KeyOf[q]], q)'
      BY NewestIs DEF DoneIsShown, Newest, Older, Before
    <3>1. q # c /\ status[q] = "done"
      BY <2>1 DEF TypeOK
    <3> QED
      BY <2>1, <2>3, <2>5, <3>1, NewestIs DEF DoneIsShown
  <2> QED
    BY <2>6, <2>7, <2>8
<1>2. ASSUME NEW c \in Request, Retry(c) PROVE Goal
  BY <1>2 DEF Retry, OnlyCalled, Unretried, TypeOK
<1>10. CASE Start
  <2>1. PICK c \in Request : c = Head(starting)
    BY <1>10 DEF Start, TypeOK
  <2>2. /\ Enqueue(c) /\ status' = [status EXCEPT ![c] = "waiting"]
        /\ UNCHANGED <<called, overtaken, retries, workerVars, shown>>
    BY <1>10, <2>1 DEF Start
  <2>3. status[c] = "starting"
    <3>1. starting \in Seq(Request) /\ 1 \in DOMAIN starting /\ c = starting[1]
      BY <1>10, <2>1 DEF Start, TypeOK
    <3>2. c \in NotStarted
      BY <3>1 DEF NotStarted
    <3> QED
      BY <3>2 DEF TasksInOrder
  <2>4. QueuedIsNewest /\ HeldIsNewer /\ DoneIsShown
    BY <2>2 DEF UpdatesInOrder, Unretried
  <2>5. \A p, q : Older(p, q)' <=> Older(p, q)
    BY <2>2 DEF Older, Before
  <2>6. QueuedIsNewest'
    <3> SUFFICES ASSUME NEW k \in Key, NEW q \in Request, func'[k] # None, KeyOf[q] = k,
                        Arrived(q)'
                 PROVE  ~Older(func[k], q)'
      BY DEF QueuedIsNewest
    <3>1. KeyOf[c] \in Key /\ func' = [func EXCEPT ![KeyOf[c]] = c]
      BY <2>2 DEF Enqueue
    <3>2. CASE k = KeyOf[c] /\ q = c
      <4>1. ~Before(c, c)
        <5>1. called \in Seq(Request)
          BY DEF TypeOK
        <5> QED
          BY <5>1 DEF Before, OnlyCalled
      <4> QED
        BY <2>5, <3>1, <3>2, <4>1 DEF Older, TypeOK
    <3>3. CASE k = KeyOf[c] /\ q # c
      <4>1. Arrived(q)
        BY <2>2, <3>3 DEF Arrived, TypeOK
      <4>2. ~Older(c, q)
        BY <2>3, <3>3, <4>1 DEF TasksInOrder
      <4> QED
        BY <2>5, <3>1, <3>3, <4>2 DEF TypeOK
    <3>4. CASE k # KeyOf[c]
      <4>1. q # c /\ func'[k] = func[k]
        BY <3>1, <3>4 DEF TypeOK
      <4>2. Arrived(q)
        BY <2>2, <4>1 DEF Arrived, TypeOK
      <4> QED
        BY <2>4, <2>5, <4>1, <4>2 DEF QueuedIsNewest
    <3> QED
      BY <3>2, <3>3, <3>4
  <2>7. HeldIsNewer'
    BY <2>2, <2>4, <2>5 DEF HeldIsNewer, TypeOK
  <2>8. DoneIsShown'
    BY <2>2, <2>4 DEF DoneIsShown, Newest, Before, TypeOK
  <2> QED
    BY <2>6, <2>7, <2>8
<1>3. ASSUME NEW c \in Request, Leave(c) PROVE Goal
  <2>1. UNCHANGED callVars /\ UNCHANGED <<func, workerVars, shown, retries>>
    BY <1>3 DEF Leave
  <2>2. \A q \in Request : (Arrived(q)' => Arrived(q)) /\ (status'[q] = "done" => status[q] = "done")
    BY <1>3 DEF Leave, Arrived, TypeOK
  <2>3. QueuedIsNewest /\ HeldIsNewer /\ DoneIsShown
    BY <2>1 DEF UpdatesInOrder, Unretried
  <2> QED
    BY <1>9, <2>1, <2>2, <2>3 DEF QueuedIsNewest, HeldIsNewer, DoneIsShown, Newest, Before
<1>4. CASE Take
  <2>1. /\ heldKey' \in Key /\ func[heldKey'] # None /\ heldFunc' = func[heldKey']
        /\ heldFutures' = futures[heldKey']
        /\ func' = [func EXCEPT ![heldKey'] = None]
        /\ UNCHANGED <<requestVars, shown>>
    BY <1>4, TakeType DEF Take
  <2>2. QueuedIsNewest /\ DoneIsShown
    BY <2>1 DEF UpdatesInOrder, Unretried
  <2>3. QueuedIsNewest'
    BY <1>9, <2>1, <2>2 DEF QueuedIsNewest, Arrived, TypeOK
  <2>4. HeldIsNewer'
    <3>1. \A q \in heldFutures' : KeyOf[q] = heldKey' /\ Arrived(q)
      BY <2>1 DEF OnlyCalled
    <3>2. \A q \in Request : status[q] = "done" => Arrived(q)
      BY DEF Arrived
    <3> QED
      BY <1>9, <2>1, <2>2, <3>1, <3>2 DEF QueuedIsNewest, HeldIsNewer, TypeOK
  <2>5. DoneIsShown'
    BY <2>1, <2>2 DEF DoneIsShown, Newest, Before
  <2> QED
    BY <2>3, <2>4, <2>5
<1>5. CASE Send
  BY <1>5, <1>9 DEF Send, UpdatesInOrder, Unretried, QueuedIsNewest, HeldIsNewer, DoneIsShown,
                    Newest, Before, Arrived
<1>6. CASE Succeeds \/ Fails \/ Breaks
  <2>1. /\ worker = "sending" /\ worker' = "idle" /\ UNCHANGED <<callVars, queueVars>>
        /\ heldKey \in Key
    BY <1>6 DEF Succeeds, Fails, Breaks, LetsGo, TypeOK
  <2>2. Unretried
    <3>1. CASE Breaks
      <4> DEFINE again == {r \in Open : r \notin Awaited /\ retries[r] < MaxRetries}
      <4>1. retries' = [r \in Request |-> IF r \in again THEN retries[r] + 1 ELSE retries[r]]
        BY <3>1 DEF Breaks
      <4> HIDE DEF again
      <4> QED
        BY <4>1 DEF Unretried, TypeOK
    <3> QED
      BY <1>6, <3>1 DEF Succeeds, Fails, Unretried
  <2>3. QueuedIsNewest /\ HeldIsNewer /\ DoneIsShown
    BY <2>2 DEF UpdatesInOrder
  <2>8. \A q \in Request : Arrived(q)' => Arrived(q)
    <3>1. \A q \in Request : status'[q] = status[q] \/ status[q] = "waiting"
      BY <1>6 DEF Succeeds, Fails, Breaks, Open, TypeOK
    <3> QED
      BY <3>1 DEF Arrived
  <2>4. QueuedIsNewest' /\ HeldIsNewer'
    BY <1>9, <2>1, <2>3, <2>8 DEF QueuedIsNewest, HeldIsNewer
  <2>5. \A q \in Request : status'[q] = "done" =>
           status[q] = "done" \/ (q \in Open /\ shown' = [shown EXCEPT ![heldKey] = heldFunc])
    BY <1>6 DEF Succeeds, Fails, Breaks, TypeOK
  <2>6. shown' = shown \/ shown' = [shown EXCEPT ![heldKey] = heldFunc]
    BY <1>6 DEF Succeeds, Fails, Breaks
  <2>7. DoneIsShown'
    <3> SUFFICES ASSUME NEW q \in Request, status'[q] = "done"
                 PROVE  shown'[KeyOf[q]] # None /\ ~Older(shown'[KeyOf[q]], q)
      BY <2>1 DEF DoneIsShown, Newest, Older, Before
    <3>1. CASE status[q] = "done"
      BY <1>0, <2>1, <2>3, <2>6, <3>1, NewestIs DEF DoneIsShown, HeldIsNewer, TypeOK
    <3>2. CASE q \in Open /\ shown' = [shown EXCEPT ![heldKey] = heldFunc]
      <4>1. q \in heldFutures /\ KeyOf[q] = heldKey
        BY <3>2 DEF Open, OnlyCalled
      <4> QED
        BY <2>1, <2>3, <3>2, <4>1 DEF HeldIsNewer, TypeOK
    <3> QED
      BY <2>5, <3>1, <3>2
  <2> QED
    BY <2>4, <2>7
<1>7. CASE Shutdown
  BY <1>7, <1>9 DEF Shutdown, UpdatesInOrder, Unretried, QueuedIsNewest, HeldIsNewer, DoneIsShown,
                    Newest, Before, Arrived
<1>8. CASE UNCHANGED vars
  BY <1>8, <1>9 DEF vars, UpdatesInOrder, Unretried, QueuedIsNewest, HeldIsNewer, DoneIsShown,
                    Newest, Before, Arrived
<1> QED
  BY <1>1, <1>2, <1>3, <1>4, <1>5, <1>6, <1>7, <1>8, <1>10 DEF Next, WorkerStep
-----------------------------------------------------------------------------
\* LInv holds in every state: types, who waits, who was called, and the order.
THEOREM LimiterInductive == Spec => []LInv
<1>1. LInv /\ [Next]_vars => LInv'
  BY NextType, NextKept, NextCalled, NextTasks, NextInOrder DEF LInv
<1> QED
  BY InitLInv, <1>1, PTL DEF Spec

\* Every variable keeps its type, and the queue and the map agree.
THEOREM LimiterTypes == Spec => []TypeOK
<1>1. LInv => TypeOK
  BY DEF LInv
<1> QED
  BY LimiterInductive, <1>1, PTL

\* Compaction forgets nobody who waits for an answer.
THEOREM WaitersAreKeptCorrect == Spec => []WaitersAreKept
<1>1. LInv => WaitersAreKept
  BY DEF LInv
<1> QED
  BY LimiterInductive, <1>1, PTL

\* Until a request is tried again, no reported update is undone by an older one.
THEOREM LatestUnlessRetriedCorrect == Spec => []LatestUnlessRetried
<1>1. LInv => LatestUnlessRetried
  BY DEF LInv, UpdatesInOrder, Unretried, DoneIsShown, LatestUnlessRetried
<1> QED
  BY LimiterInductive, <1>1, PTL

-----------------------------------------------------------------------------
(* The history that a model is shown, and the cache of its files.          *)

FileNames == File \cup {NoFile}
BlockKinds == {"text", "other", "read", "write", "result", "summary"}
BlockSet == [kind : BlockKinds, file : FileNames, size : Nat \ {0}, flat : BOOLEAN]
TurnSet == [role : {"user", "assistant"}, blocks : Seq(BlockSet), plain : BOOLEAN, at : Nat]
EntrySet == [file : FileNames, content : FileNames, updated : Nat]

\* Each file once, and no more of them than there is room for.
Caches ==
    {c \in Seq(EntrySet) : /\ Len(c) <= MaxFiles
                           /\ \A i, j \in DOMAIN c : i # j => c[i].file # c[j].file}

\* Each with its own content.
Truthful(cache) == \A i \in DOMAIN cache : cache[i].content = cache[i].file

Walks == [kept : Seq(BlockSet), cache : Caches, wanted : FileNames]
Accs == [walk : Walks, out : Seq(TurnSet)]

\* The assistant says something and makes calls.
Calls(m) ==
    /\ ~ m.plain /\ m.blocks # <<>> /\ m.blocks[1] = Text
    /\ \A k \in 2 .. Len(m.blocks) : m.blocks[k] \in FileCall

\* The user's text, with or without an attachment.
Says(m) == \/ m.blocks = <<Text>>
           \/ ~ m.plain /\ m.blocks = <<Attachment, Text>>

\* The results of the calls of the message before.
Replies(m, previous) ==
    /\ ~ m.plain /\ Len(m.blocks) + 1 = Len(previous.blocks)
    /\ \A k \in DOMAIN m.blocks :
         /\ m.blocks[k].kind = "result" /\ ~ m.blocks[k].flat
         /\ m.blocks[k].file =
              IF previous.blocks[k + 1].kind = "read" THEN previous.blocks[k + 1].file ELSE NoFile

\* The user and the assistant take turns; the user answers what is called, or speaks.
FollowsOn(m, n, previous) ==
    /\ m.at = n
    /\ m.role = "assistant" => n > 1 /\ previous.role = "user" /\ Calls(m)
    /\ m.role = "user" =>
         /\ n > 1 => previous.role = "assistant"
         /\ \/ Says(m) /\ (n > 1 => Len(previous.blocks) = 1)
            \/ n > 1 /\ Replies(m, previous)

ConversationShape ==
    \A n \in DOMAIN conversation : FollowsOn(conversation[n], n, conversation[n - 1])

ContextTypes ==
    /\ wire \in {"messages", "responses"}
    /\ conversation \in Seq(TurnSet)
    /\ fileCache \in Caches /\ turn \in Nat
    /\ coderShown \in Seq(TurnSet)
    /\ coderShown # <<>> => Last(coderShown).at \in DOMAIN conversation

ContextInv == ContextTypes /\ ConversationShape /\ ContextIsCurrent

-----------------------------------------------------------------------------
LEMMA RemovedOne ==
  ASSUME NEW S, NEW s \in Seq(S), NEW n \in 1 .. Len(s)
  PROVE  /\ RemoveAt(s, n) \in Seq(S) /\ Len(RemoveAt(s, n)) = Len(s) - 1
         /\ \A i \in 1 .. Len(s) - 1 : RemoveAt(s, n)[i] = s[IF i < n THEN i ELSE i + 1]
<1> DEFINE L == Len(s)
<1>1. L \in Nat /\ n \in 1 .. L /\ \A i \in 1 .. L : s[i] \in S
  OBVIOUS
<1> HIDE DEF L
<1>2. PICK before : before = SubSeq(s, 1, n - 1)
  OBVIOUS
<1>3. PICK after : after = SubSeq(s, n + 1, L)
  OBVIOUS
<1>4. /\ before \in Seq(S) /\ Len(before) = n - 1
      /\ \A i \in 1 .. n - 1 : before[i] = s[i]
  <2>1. 1 \in Int /\ n - 1 \in Int /\ \A i \in 1 .. n - 1 : s[i] \in S
    BY <1>1
  <2>2. /\ before \in Seq(S) /\ Len(before) = IF 1 <= n - 1 THEN (n - 1) - 1 + 1 ELSE 0
        /\ \A i \in 1 .. (n - 1) - 1 + 1 : before[i] = s[1 + i - 1]
    BY <1>2, <2>1, SubSeqProperties
  <2>3. QED
    BY <1>1, <2>2
<1>5. /\ after \in Seq(S) /\ Len(after) = L - n
      /\ \A i \in 1 .. L - n : after[i] = s[n + i]
  <2>1. n + 1 \in Int /\ L \in Int /\ \A i \in n + 1 .. L : s[i] \in S
    BY <1>1
  <2>2. /\ after \in Seq(S) /\ Len(after) = IF n + 1 <= L THEN L - (n + 1) + 1 ELSE 0
        /\ \A i \in 1 .. L - (n + 1) + 1 : after[i] = s[(n + 1) + i - 1]
    BY <1>3, <2>1, SubSeqProperties
  <2>3. QED
    BY <1>1, <2>2
<1>6. RemoveAt(s, n) = before \o after
  BY <1>2, <1>3 DEF RemoveAt, L
<1>7. /\ before \o after \in Seq(S) /\ Len(before \o after) = L - 1
      /\ \A i \in 1 .. L - 1 : (before \o after)[i] = IF i <= n - 1 THEN before[i] ELSE after[i - (n - 1)]
  <2>1. /\ before \o after \in Seq(S) /\ Len(before \o after) = Len(before) + Len(after)
        /\ \A i \in 1 .. Len(before) + Len(after) :
             (before \o after)[i] = IF i <= Len(before) THEN before[i] ELSE after[i - Len(before)]
    BY <1>4, <1>5, ConcatProperties
  <2>2. QED
    BY <1>1, <1>4, <1>5, <2>1
<1>8. \A i \in 1 .. L - 1 : (before \o after)[i] = s[IF i < n THEN i ELSE i + 1]
  <2>1. TAKE i \in 1 .. L - 1
  <2>2. CASE i < n
    BY <1>1, <1>4, <1>7, <2>1, <2>2
  <2>3. CASE ~ (i < n)
    <3>1. i - (n - 1) \in 1 .. L - n /\ n + (i - (n - 1)) = i + 1 /\ ~ (i <= n - 1)
      BY <1>1, <2>1, <2>3
    <3>2. (before \o after)[i] = after[i - (n - 1)]
      BY <1>7, <2>1, <3>1
    <3>3. QED
      BY <1>5, <2>3, <3>1, <3>2
  <2>4. QED
    BY <2>2, <2>3
<1>9. QED
  BY <1>6, <1>7, <1>8 DEF L

\* There is an entry to evict: of those of the oldest turn, the first.
LEMMA OldestExists ==
  ASSUME NEW c \in Seq(EntrySet), Len(c) > 0
  PROVE  \E i \in DOMAIN c : \A j \in DOMAIN c :
           c[i].updated < c[j].updated \/ (c[i].updated = c[j].updated /\ i <= j)
<1>0. PICK L \in Nat : L = Len(c) /\ DOMAIN c = 1 .. L /\ L > 0
  OBVIOUS
<1>1. \A i \in 1 .. L : c[i].updated \in Nat
  <2>1. \A i \in 1 .. L : c[i] \in EntrySet
    BY <1>0
  <2>2. QED
    BY <2>1 DEF EntrySet
<1> DEFINE Turns == {c[i].updated : i \in 1 .. L}
<1>2. Turns \subseteq Nat /\ Turns # {}
  BY <1>0, <1>1
<1>3. PICK u \in Turns : \A t \in Turns : u <= t
  BY <1>2, LeastNumber
<1> DEFINE Oldest == {i \in 1 .. L : c[i].updated = u}
<1>4. Oldest \subseteq Nat /\ Oldest # {}
  BY <1>3
<1>5. PICK i \in Oldest : \A j \in Oldest : i <= j
  BY <1>4, LeastNumber
<1>6. i \in 1 .. L /\ c[i].updated = u /\ u \in Nat
  BY <1>2, <1>3, <1>5
<1>7. ASSUME NEW j \in 1 .. L
      PROVE  c[i].updated < c[j].updated \/ (c[i].updated = c[j].updated /\ i <= j)
  <2>1. u <= c[j].updated /\ c[j].updated \in Nat
    BY <1>1, <1>3
  <2>2. CASE c[j].updated = u
    BY <1>5, <1>6, <2>2
  <2>3. CASE c[j].updated # u
    BY <1>6, <2>1, <2>3
  <2>4. QED
    BY <2>2, <2>3
<1>8. QED
  BY <1>0, <1>6, <1>7

\* An update keeps each file once, within the room there is, and what is truthful so.
LEMMA UpdateKeeps ==
  ASSUME NEW c \in Caches, NEW f \in FileNames, NEW content \in FileNames, NEW now \in Nat
  PROVE  /\ UpdateFile(c, f, content, now) \in Caches
         /\ Truthful(c) /\ f = content => Truthful(UpdateFile(c, f, content, now))
<1> DEFINE entry == [file |-> f, content |-> content, updated |-> now]
           older(i, j) == c[i].updated < c[j].updated \/ (c[i].updated = c[j].updated /\ i <= j)
           oldest == CHOOSE i \in DOMAIN c : \A j \in DOMAIN c : older(i, j)
           u == UpdateFile(c, f, content, now)
<1>0. PICK L \in Nat : L = Len(c) /\ DOMAIN c = 1 .. L
  BY DEF Caches
<1>1. /\ c \in Seq(EntrySet) /\ L <= MaxFiles
      /\ \A i \in 1 .. L : c[i] \in EntrySet
      /\ \A i, j \in 1 .. L : i # j => c[i].file # c[j].file
  BY <1>0 DEF Caches
<1>2. entry \in EntrySet /\ entry.file = f /\ entry.content = content
  BY DEF EntrySet
<1>m. MaxFiles \in Nat \ {0}
  BY ContextAssumption
<1> HIDE DEF entry
<1>3. CASE At(c, f) # {}
  <2>0. u = [i \in DOMAIN c |-> IF i \in At(c, f) THEN entry ELSE c[i]]
    BY <1>3, Zenon DEF UpdateFile, entry
  <2>1. u = [i \in 1 .. L |-> IF i \in At(c, f) THEN entry ELSE c[i]]
    BY <1>0, <2>0
  <2>2. u \in Seq(EntrySet) /\ Len(u) = L /\ DOMAIN u = 1 .. L
    BY <1>0, <1>1, <1>2, <2>1
  <2>3. \A i \in 1 .. L : u[i].file = c[i].file
    BY <1>0, <1>2, <2>1 DEF At
  <2>4. u \in Caches
    BY <1>1, <2>2, <2>3 DEF Caches
  <2>5. ASSUME Truthful(c), f = content
        PROVE  Truthful(u)
    <3>1. \A i \in 1 .. L : c[i].content = c[i].file
      BY <1>0, <2>5 DEF Truthful
    <3>2. \A i \in 1 .. L : u[i].content = u[i].file
      BY <1>2, <2>1, <2>5, <3>1
    <3>3. QED
      BY <2>2, <3>2 DEF Truthful
  <2>6. QED
    BY <2>4, <2>5
<1>4. ASSUME NEW d \in Seq(EntrySet), Len(d) < MaxFiles,
             \A i, j \in 1 .. Len(d) : i # j => d[i].file # d[j].file,
             \A i \in 1 .. Len(d) : \E j \in 1 .. L : d[i] = c[j],
             At(c, f) = {}, u = Append(d, entry)
      PROVE  u \in Caches /\ (Truthful(c) /\ f = content => Truthful(u))
  <2> HIDE DEF u
  <2>0. PICK M \in Nat : M = Len(d)
    OBVIOUS
  <2>1. /\ u \in Seq(EntrySet) /\ Len(u) = M + 1 /\ DOMAIN u = 1 .. M + 1
        /\ \A i \in 1 .. M : u[i] = d[i]
        /\ u[M + 1] = entry
    <3>1. /\ u \in Seq(EntrySet) /\ Len(u) = M + 1
          /\ \A i \in 1 .. M : u[i] = d[i]
          /\ u[M + 1] = entry
      BY <1>2, <1>4, <2>0, AppendProperties
    <3>2. QED
      BY <3>1, LenProperties
  <2>2. \A i \in 1 .. M : d[i].file # f
    <3>1. \A j \in 1 .. L : c[j].file # f
      BY <1>0, <1>4 DEF At
    <3>2. QED
      BY <1>4, <2>0, <3>1
  <2>3. \A i, j \in 1 .. M + 1 : i # j => u[i].file # u[j].file
    <3>1. TAKE i, j \in 1 .. M + 1
    <3>2. HAVE i # j
    <3>3. CASE i = M + 1
      BY <1>2, <2>1, <2>2, <3>2, <3>3
    <3>4. CASE j = M + 1
      BY <1>2, <2>1, <2>2, <3>2, <3>4
    <3>5. CASE i # M + 1 /\ j # M + 1
      <4>1. i \in 1 .. M /\ j \in 1 .. M
        BY <2>0, <3>5
      <4>2. QED
        BY <1>4, <2>0, <2>1, <3>2, <4>1
    <3>6. QED
      BY <3>3, <3>4, <3>5
  <2>4. u \in Caches
    <3>1. Len(u) <= MaxFiles
      BY <1>4, <1>m, <2>0, <2>1
    <3>2. QED
      BY <2>1, <2>3, <3>1 DEF Caches
  <2>5. ASSUME Truthful(c), f = content
        PROVE  Truthful(u)
    <3>1. \A j \in 1 .. L : c[j].content = c[j].file
      BY <1>0, <2>5 DEF Truthful
    <3>2. \A i \in 1 .. M : u[i].content = u[i].file
      BY <1>4, <2>0, <2>1, <3>1
    <3>3. u[M + 1].content = u[M + 1].file
      BY <1>2, <2>1, <2>5
    <3>4. QED
      BY <2>0, <2>1, <3>2, <3>3 DEF Truthful
  <2>6. QED
    BY <2>4, <2>5
<1>5. CASE At(c, f) = {} /\ Len(c) >= MaxFiles
  <2>1. oldest \in 1 .. L
    <3>1. \E i \in DOMAIN c : \A j \in DOMAIN c : older(i, j)
      <4>1. Len(c) > 0
        BY <1>0, <1>5, <1>m
      <4>2. QED
        BY <1>1, <4>1, OldestExists
    <3>2. QED
      BY <1>0, <3>1
  <2>2. u = Append(RemoveAt(c, oldest), entry)
    BY <1>5 DEF UpdateFile, entry
  <2> HIDE DEF oldest
  <2>3. PICK d : d = RemoveAt(c, oldest)
    OBVIOUS
  <2>4. /\ d \in Seq(EntrySet) /\ Len(d) = L - 1
        /\ \A i \in 1 .. L - 1 : d[i] = c[IF i < oldest THEN i ELSE i + 1]
    BY <1>0, <1>1, <2>1, <2>3, RemovedOne
  <2>5. Len(d) < MaxFiles
    BY <1>0, <1>1, <1>m, <2>4
  <2>6. \A i \in 1 .. Len(d) : (IF i < oldest THEN i ELSE i + 1) \in 1 .. L
    BY <1>0, <2>1, <2>4
  <2>7. \A i \in 1 .. Len(d) : \E j \in 1 .. L : d[i] = c[j]
    BY <2>4, <2>6
  <2>8. ASSUME NEW i \in 1 .. Len(d), NEW j \in 1 .. Len(d), i # j
        PROVE  d[i].file # d[j].file
    <3>1. (IF i < oldest THEN i ELSE i + 1) # (IF j < oldest THEN j ELSE j + 1)
      BY <2>1, <2>4, <2>8
    <3>2. QED
      BY <1>1, <2>4, <2>6, <2>8, <3>1
  <2>9. QED
    BY <1>4, <1>5, <2>2, <2>3, <2>4, <2>5, <2>7, <2>8
<1>6. CASE At(c, f) = {} /\ ~ (Len(c) >= MaxFiles)
  <2>1. u = Append(c, entry)
    BY <1>6 DEF UpdateFile, entry
  <2>2. Len(c) < MaxFiles
    BY <1>0, <1>6, <1>m
  <2>3. QED
    BY <1>0, <1>1, <1>4, <1>6, <2>1, <2>2
<1>7. QED
  BY <1>3, <1>5, <1>6

-----------------------------------------------------------------------------
\* What the walk keeps of a block.
Kept(b, recent) == IF b.kind = "result" THEN Capped(b, recent) ELSE b

LEMMA CappedIs ==
  ASSUME NEW b \in BlockSet, NEW recent \in BOOLEAN
  PROVE  /\ Capped(b, recent) \in BlockSet
         /\ Capped(b, recent).file = b.file
         /\ Kept(b, recent) \in BlockSet
<1>1. /\ b.kind \in BlockKinds /\ b.file \in FileNames /\ b.size \in Nat \ {0}
      /\ b.flat \in BOOLEAN
      /\ b = [kind |-> b.kind, file |-> b.file, size |-> b.size, flat |-> b.flat]
  BY DEF BlockSet
<1>2. MaxResult \in Nat \ {0}
  BY ContextAssumption
<1>3. CASE recent
  <2>1. Capped(b, recent) =
          [kind |-> b.kind, file |-> b.file,
           size |-> IF b.size > MaxResult THEN MaxResult ELSE b.size, flat |-> b.flat]
    BY <1>1, <1>3 DEF Capped
  <2>2. (IF b.size > MaxResult THEN MaxResult ELSE b.size) \in Nat \ {0}
    BY <1>1, <1>2
  <2>3. QED
    BY <1>1, <2>1, <2>2 DEF BlockSet, Kept
<1>4. CASE ~ recent
  <2>1. Capped(b, recent) =
          [kind |-> "summary", file |-> b.file, size |-> 1, flat |-> b.flat]
    BY <1>1, <1>4 DEF Capped
  <2>2. "summary" \in BlockKinds /\ 1 \in Nat \ {0}
    BY DEF BlockKinds
  <2>3. QED
    BY <1>1, <2>1, <2>2 DEF BlockSet, Kept
<1>5. QED
  BY <1>3, <1>4

\* What a block does: it is kept if it is text, and its call or its result is seen.
LEMMA BlockIs ==
  ASSUME NEW w \in Walks, NEW b \in BlockSet, NEW recent \in BOOLEAN, NEW now \in Nat
  PROVE  LET next == Block(w, b, recent, now) IN
         /\ next \in Walks
         /\ next.kept = IF b.flat THEN Append(w.kept, Kept(b, recent)) ELSE w.kept
         /\ next.cache =
              CASE b.flat /\ b.kind = "write" -> UpdateFile(w.cache, b.file, b.file, now)
                [] b.flat /\ b.kind = "result" /\ w.wanted # NoFile ->
                     UpdateFile(w.cache, w.wanted, b.file, now)
                [] OTHER -> w.cache
         /\ next.wanted =
              CASE b.flat /\ b.kind = "read" -> b.file
                [] b.flat /\ b.kind = "result" -> NoFile
                [] OTHER -> w.wanted
<1> DEFINE next == Block(w, b, recent, now)
<1>1. /\ w.kept \in Seq(BlockSet) /\ w.cache \in Caches /\ w.wanted \in FileNames
      /\ w = [kept |-> w.kept, cache |-> w.cache, wanted |-> w.wanted]
  BY DEF Walks
<1>2. b.kind \in BlockKinds /\ b.file \in FileNames /\ b.flat \in BOOLEAN /\ NoFile \in FileNames
  BY DEF BlockSet, FileNames
<1>3. Kept(b, recent) \in BlockSet
  BY CappedIs
<1>4. Append(w.kept, Kept(b, recent)) \in Seq(BlockSet)
  BY <1>1, <1>3, AppendProperties
<1>5. /\ UpdateFile(w.cache, b.file, b.file, now) \in Caches
      /\ UpdateFile(w.cache, w.wanted, b.file, now) \in Caches
  BY <1>1, <1>2, UpdateKeeps
<1>6. CASE ~ b.flat
  BY <1>1, <1>6 DEF Block
<1>7. CASE b.flat /\ b.kind = "read"
  <2>1. next = [kept |-> Append(w.kept, b), cache |-> w.cache, wanted |-> b.file]
    BY <1>1, <1>7 DEF Block
  <2>2. Kept(b, recent) = b
    BY <1>7 DEF Kept
  <2>3. next \in Walks
    BY <1>1, <1>2, <1>4, <2>1, <2>2 DEF Walks
  <2>4. QED
    BY <1>7, <2>1, <2>2, <2>3
<1>8. CASE b.flat /\ b.kind = "write"
  <2>1. next = [kept |-> Append(w.kept, b), cache |-> UpdateFile(w.cache, b.file, b.file, now),
                wanted |-> w.wanted]
    BY <1>1, <1>8 DEF Block
  <2>2. Kept(b, recent) = b
    BY <1>8 DEF Kept
  <2>3. next \in Walks
    BY <1>1, <1>2, <1>4, <1>5, <2>1, <2>2 DEF Walks
  <2>4. QED
    BY <1>8, <2>1, <2>2, <2>3
<1>9. CASE b.flat /\ b.kind = "result"
  <2> DEFINE cache == IF w.wanted = NoFile THEN w.cache ELSE UpdateFile(w.cache, w.wanted, b.file, now)
  <2>1. next = [kept |-> Append(w.kept, Capped(b, recent)), cache |-> cache, wanted |-> NoFile]
    BY <1>9 DEF Block, ResultBlock
  <2>2. Kept(b, recent) = Capped(b, recent)
    BY <1>9 DEF Kept
  <2>3. cache \in Caches
    BY <1>1, <1>5
  <2>4. next \in Walks
    BY <1>2, <1>4, <2>1, <2>2, <2>3 DEF Walks
  <2>5. QED
    BY <1>9, <2>1, <2>2, <2>4
<1>10. CASE b.flat /\ ~ (b.kind \in {"read", "write", "result"})
  <2>1. next = [kept |-> Append(w.kept, b), cache |-> w.cache, wanted |-> w.wanted]
    BY <1>1, <1>10 DEF Block
  <2>2. Kept(b, recent) = b
    BY <1>10 DEF Kept
  <2>3. next \in Walks
    BY <1>1, <1>4, <2>1, <2>2 DEF Walks
  <2>4. QED
    BY <1>10, <2>1, <2>2, <2>3
<1>11. QED
  BY <1>2, <1>6, <1>7, <1>8, <1>9, <1>10

\* The blocks of a message, walked through one by one.
WalksThrough(f, w, blocks, recent, now) ==
    /\ f \in [0 .. Len(blocks) -> Walks]
    /\ f[0] = w /\ f[Len(blocks)] = Walked(w, blocks, recent, now)
    /\ \A k \in 1 .. Len(blocks) : f[k] = Block(f[k - 1], blocks[k], recent, now)

LEMMA WalkedSteps ==
  ASSUME NEW w \in Walks, NEW blocks \in Seq(BlockSet), NEW recent \in BOOLEAN, NEW now \in Nat
  PROVE  \E f : WalksThrough(f, w, blocks, recent, now)
<1>0. PICK n \in Nat : n = Len(blocks)
  OBVIOUS
<1> DEFINE D == 0 .. n
           F(f) == [k \in D |-> IF k = 0 THEN w ELSE Block(f[k - 1], blocks[k], recent, now)]
           upTo == CHOOSE f : f = F(f)
           G == [p \in Walks \X (1 .. n) |-> Block(p[1], blocks[p[2]], recent, now)]
<1>1. \A k \in 1 .. n : blocks[k] \in BlockSet
  BY <1>0
<1>2. \A v \in Walks, k \in 1 .. n : Block(v, blocks[k], recent, now) \in Walks
  BY <1>1, BlockIs
<1>3. G \in [Walks \X (1 .. n) -> Walks]
  BY <1>2
<1>4. PICK g \in [0 .. n -> Walks] : Steps(g, n, w, G)
  <2> HIDE DEF G
  <2>1. QED
    BY <1>0, <1>3, StepsExist
<1>5. \A v \in Walks, k \in 1 .. n : G[<<v, k>>] = Block(v, blocks[k], recent, now)
  OBVIOUS
<1> HIDE DEF G
<1>6. g = F(g)
  <2>1. g[0] = w /\ \A k \in 1 .. n : g[k] = G[<<g[k - 1], k>>]
    BY <1>4 DEF Steps
  <2>2. ASSUME NEW k \in D
        PROVE  g[k] = F(g)[k]
    <3>1. CASE k = 0
      BY <2>1, <3>1
    <3>2. CASE k # 0
      <4>1. k \in 1 .. n /\ k - 1 \in D
        BY <1>0, <3>2
      <4>2. g[k - 1] \in Walks
        BY <1>4, <4>1
      <4>3. g[k] = Block(g[k - 1], blocks[k], recent, now)
        BY <1>5, <2>1, <4>1, <4>2
      <4>4. QED
        BY <3>2, <4>3
    <3>3. QED
      BY <3>1, <3>2
  <2>3. QED
    BY <1>4, <2>2
<1>7. upTo = F(upTo)
  BY <1>6
<1>8. Walked(w, blocks, recent, now) = upTo[n]
  BY <1>0 DEF Walked
<1> HIDE DEF upTo
<1>9. upTo[0] = w
  <2>1. 0 \in D
    BY <1>0
  <2>2. QED
    BY <1>7, <2>1
<1>10. ASSUME NEW k \in 1 .. n
       PROVE  upTo[k] = Block(upTo[k - 1], blocks[k], recent, now)
  <2>1. k \in D /\ k # 0
    BY <1>0
  <2>2. QED
    BY <1>7, <2>1
<1>11. \A k \in 0 .. n : upTo[k] \in Walks
  <2>1. StepsWithin(upTo, n, Walks, w, G)
    BY <1>5, <1>9, <1>10 DEF StepsWithin
  <2>2. QED
    BY <1>0, <1>3, <2>1, StepsStay
<1>12. upTo \in [0 .. n -> Walks]
  BY <1>7, <1>11
<1>13. WalksThrough(upTo, w, blocks, recent, now)
  BY <1>0, <1>8, <1>9, <1>10, <1>12 DEF WalksThrough
<1>14. QED
  BY <1>13

\* What is kept of a message: its texts, in their order.
Places(at, kept, blocks, n, recent) ==
    /\ at \in [DOMAIN kept -> {k \in 1 .. n : blocks[k].flat}]
    /\ \A j, k \in DOMAIN kept : j < k => at[j] < at[k]
    /\ \A m \in 1 .. n : blocks[m].flat => \E k \in DOMAIN kept : at[k] = m
    /\ \A k \in DOMAIN kept : kept[k] = Kept(blocks[at[k]], recent)

Picks(kept, blocks, n, recent) == \E at : Places(at, kept, blocks, n, recent)

LEMMA PicksOneMore ==
  ASSUME NEW kept \in Seq(BlockSet), NEW blocks, NEW n \in Nat, NEW recent,
         Picks(kept, blocks, n, recent), Kept(blocks[n + 1], recent) \in BlockSet,
         blocks[n + 1].flat \in BOOLEAN
  PROVE  Picks(IF blocks[n + 1].flat THEN Append(kept, Kept(blocks[n + 1], recent)) ELSE kept,
               blocks, n + 1, recent)
<1>0. PICK L \in Nat : L = Len(kept) /\ DOMAIN kept = 1 .. L
  BY LenProperties
<1>p. PICK at : Places(at, kept, blocks, n, recent)
  BY DEF Picks
<1>1. /\ at \in [1 .. L -> {k \in 1 .. n : blocks[k].flat}]
      /\ \A j, k \in 1 .. L : j < k => at[j] < at[k]
      /\ \A m \in 1 .. n : blocks[m].flat => \E k \in 1 .. L : at[k] = m
      /\ \A k \in 1 .. L : kept[k] = Kept(blocks[at[k]], recent)
  BY <1>0, <1>p DEF Places
<1>2. \A k \in 1 .. L : at[k] \in 1 .. n /\ blocks[at[k]].flat
  BY <1>1
<1>3. CASE ~ blocks[n + 1].flat
  <2>1. at \in [DOMAIN kept -> {k \in 1 .. n + 1 : blocks[k].flat}]
    BY <1>0, <1>1, <1>2
  <2>2. \A m \in 1 .. n + 1 : blocks[m].flat => \E k \in DOMAIN kept : at[k] = m
    <3>1. TAKE m \in 1 .. n + 1
    <3>2. HAVE blocks[m].flat
    <3>3. m \in 1 .. n
      BY <1>3, <3>2
    <3>4. QED
      BY <1>0, <1>1, <3>2, <3>3
  <2>3. Places(at, kept, blocks, n + 1, recent)
    BY <1>0, <1>1, <2>1, <2>2 DEF Places
  <2>4. QED
    BY <1>3, <2>3 DEF Picks
<1>4. CASE blocks[n + 1].flat
  <2> DEFINE more == Append(kept, Kept(blocks[n + 1], recent))
             then == [k \in 1 .. L + 1 |-> IF k = L + 1 THEN n + 1 ELSE at[k]]
  <2>1. /\ DOMAIN more = 1 .. L + 1
        /\ \A k \in 1 .. L : more[k] = kept[k]
        /\ more[L + 1] = Kept(blocks[n + 1], recent)
    <3>1. /\ more \in Seq(BlockSet) /\ Len(more) = L + 1
          /\ \A k \in 1 .. L : more[k] = kept[k]
          /\ more[L + 1] = Kept(blocks[n + 1], recent)
      BY <1>0, AppendProperties
    <3>2. QED
      BY <3>1, LenProperties
  <2> HIDE DEF more
  <2>2. \A k \in 1 .. L : then[k] = at[k] /\ k \in 1 .. L + 1
    BY <1>0
  <2>3. then[L + 1] = n + 1
    BY <1>0
  <2>4. \A k \in 1 .. L + 1 : k \in 1 .. L \/ k = L + 1
    BY <1>0
  <2>5. then \in [1 .. L + 1 -> {k \in 1 .. n + 1 : blocks[k].flat}]
    <3>1. \A k \in 1 .. L + 1 : then[k] \in {j \in 1 .. n + 1 : blocks[j].flat}
      <4>1. TAKE k \in 1 .. L + 1
      <4>2. CASE k \in 1 .. L
        BY <1>2, <2>2, <4>2
      <4>3. CASE k = L + 1
        BY <1>4, <2>3, <4>3
      <4>4. QED
        BY <2>4, <4>2, <4>3
    <3>2. QED
      BY <3>1
  <2> HIDE DEF then
  <2>6. \A j, k \in 1 .. L + 1 : j < k => then[j] < then[k]
    <3>1. TAKE j, k \in 1 .. L + 1
    <3>2. HAVE j < k
    <3>3. j \in 1 .. L
      BY <1>0, <3>2
    <3>4. CASE k \in 1 .. L
      BY <1>1, <2>2, <3>2, <3>3, <3>4
    <3>5. CASE k = L + 1
      <4>1. then[j] \in 1 .. n
        BY <1>2, <2>2, <3>3
      <4>2. then[k] = n + 1
        BY <2>3, <3>5
      <4>3. QED
        BY <4>1, <4>2
    <3>6. QED
      BY <2>4, <3>4, <3>5
  <2>7. \A m \in 1 .. n + 1 : blocks[m].flat => \E k \in 1 .. L + 1 : then[k] = m
    <3>1. TAKE m \in 1 .. n + 1
    <3>2. HAVE blocks[m].flat
    <3>3. CASE m = n + 1
      BY <1>0, <2>3, <3>3
    <3>4. CASE m # n + 1
      <4>1. m \in 1 .. n
        BY <3>4
      <4>2. PICK k \in 1 .. L : at[k] = m
        BY <1>1, <3>2, <4>1
      <4>3. QED
        BY <2>2, <4>2
    <3>5. QED
      BY <3>3, <3>4
  <2>8. \A k \in 1 .. L + 1 : more[k] = Kept(blocks[then[k]], recent)
    <3>1. TAKE k \in 1 .. L + 1
    <3>2. CASE k \in 1 .. L
      BY <1>1, <2>1, <2>2, <3>2
    <3>3. CASE k = L + 1
      BY <2>1, <2>3, <3>3
    <3>4. QED
      BY <2>4, <3>2, <3>3
  <2>9. Places(then, more, blocks, n + 1, recent)
    BY <2>1, <2>5, <2>6, <2>7, <2>8 DEF Places
  <2>10. QED
    BY <1>4, <2>9 DEF more, Picks
<1>5. QED
  BY <1>3, <1>4

LEMMA WalkedPicks ==
  ASSUME NEW w \in Walks, w.kept = <<>>, NEW blocks \in Seq(BlockSet), NEW recent \in BOOLEAN,
         NEW now \in Nat
  PROVE  /\ Walked(w, blocks, recent, now) \in Walks
         /\ Picks(Walked(w, blocks, recent, now).kept, blocks, Len(blocks), recent)
<1>0. PICK n \in Nat : n = Len(blocks)
  OBVIOUS
<1>f. PICK f : WalksThrough(f, w, blocks, recent, now)
  BY WalkedSteps
<1>1. /\ f \in [0 .. n -> Walks]
      /\ f[0] = w /\ f[n] = Walked(w, blocks, recent, now)
      /\ \A k \in 1 .. n : f[k] = Block(f[k - 1], blocks[k], recent, now)
  BY <1>0, <1>f DEF WalksThrough
<1> DEFINE T == {k \in 0 .. n : Picks(f[k].kept, blocks, k, recent)}
<1>2. 0 \in T
  <2>1. DOMAIN <<>> = {} /\ 1 .. 0 = {}
    OBVIOUS
  <2> DEFINE at == [k \in {} |-> 0]
  <2>2. at \in [DOMAIN <<>> -> {k \in 1 .. 0 : blocks[k].flat}]
    BY <2>1
  <2>3. Places(at, <<>>, blocks, 0, recent)
    BY <2>1, <2>2 DEF Places
  <2>4. QED
    BY <1>0, <1>1, <2>3 DEF Picks
<1>3. ASSUME NEW k \in 1 .. n, k - 1 \in T
      PROVE  k \in T
  <2>1. k - 1 \in Nat /\ k - 1 \in 0 .. n /\ (k - 1) + 1 = k /\ k \in 0 .. n
    BY <1>0
  <2>2. f[k - 1] \in Walks /\ blocks[k] \in BlockSet
    BY <1>0, <1>1, <2>1
  <2>3. f[k - 1].kept \in Seq(BlockSet)
    BY <2>2 DEF Walks
  <2>4. blocks[k].flat \in BOOLEAN
    BY <2>2 DEF BlockSet
  <2>5. Kept(blocks[k], recent) \in BlockSet
    BY <2>2, CappedIs
  <2>6. f[k].kept = IF blocks[k].flat THEN Append(f[k - 1].kept, Kept(blocks[k], recent))
                    ELSE f[k - 1].kept
    <3>1. f[k] = Block(f[k - 1], blocks[k], recent, now)
      BY <1>1
    <3>2. Block(f[k - 1], blocks[k], recent, now).kept =
            IF blocks[k].flat THEN Append(f[k - 1].kept, Kept(blocks[k], recent))
            ELSE f[k - 1].kept
      <4>1. PICK v \in Walks : v = f[k - 1]
        BY <2>2
      <4>2. PICK b \in BlockSet : b = blocks[k]
        BY <2>2
      <4>3. Block(v, b, recent, now).kept = IF b.flat THEN Append(v.kept, Kept(b, recent)) ELSE v.kept
        BY BlockIs
      <4>4. QED
        BY <4>1, <4>2, <4>3
    <3>3. QED
      BY <3>1, <3>2
  <2>7. Picks(f[k - 1].kept, blocks, k - 1, recent)
    BY <1>3
  <2>8. Picks(f[k].kept, blocks, k, recent)
    BY <2>1, <2>3, <2>4, <2>5, <2>6, <2>7, PicksOneMore
  <2>9. QED
    BY <2>1, <2>8
<1>4. n \in T
  <2> HIDE DEF T
  <2>1. \A k \in 0 .. n : k \in T
    BY <1>0, <1>2, <1>3, EveryPrefix
  <2>2. QED
    BY <1>0, <2>1
<1>5. QED
  BY <1>0, <1>1, <1>4

-----------------------------------------------------------------------------
\* What the compression makes of a message.
Shows(c, m, recent) ==
    /\ c \in TurnSet
    /\ c.role = m.role /\ c.plain = m.plain /\ c.at = m.at
    /\ m.plain => c = m
    /\ ~ m.plain => Picks(c.blocks, m.blocks, Len(m.blocks), recent)

LEMMA PassedIs ==
  ASSUME NEW acc \in Accs, NEW m \in TurnSet, NEW recent \in BOOLEAN, NEW now \in Nat
  PROVE  LET next == Passed(acc, m, recent, now) IN
         /\ next \in Accs
         /\ next.walk = IF m.plain THEN acc.walk
                        ELSE Walked([acc.walk EXCEPT !.kept = <<>>], m.blocks, recent, now)
         /\ Len(next.out) = Len(acc.out) + 1
         /\ \A i \in 1 .. Len(acc.out) : next.out[i] = acc.out[i]
         /\ Shows(next.out[Len(acc.out) + 1], m, recent)
<1> DEFINE next == Passed(acc, m, recent, now)
           start == [acc.walk EXCEPT !.kept = <<>>]
           w == Walked(start, m.blocks, recent, now)
           made == IF m.plain THEN m ELSE [m EXCEPT !.blocks = w.kept]
<1>1. /\ acc.walk \in Walks /\ acc.out \in Seq(TurnSet)
      /\ acc = [walk |-> acc.walk, out |-> acc.out]
  BY DEF Accs
<1>2. /\ m.role \in {"user", "assistant"} /\ m.blocks \in Seq(BlockSet)
      /\ m.plain \in BOOLEAN /\ m.at \in Nat
      /\ m = [role |-> m.role, blocks |-> m.blocks, plain |-> m.plain, at |-> m.at]
  BY DEF TurnSet
<1>3. start \in Walks /\ start.kept = <<>>
  <2>1. /\ acc.walk.cache \in Caches /\ acc.walk.wanted \in FileNames
        /\ start = [kept |-> <<>>, cache |-> acc.walk.cache, wanted |-> acc.walk.wanted]
    BY <1>1 DEF Walks
  <2>2. <<>> \in Seq(BlockSet)
    OBVIOUS
  <2> HIDE DEF start
  <2>3. QED
    BY <2>1, <2>2 DEF Walks
<1> HIDE DEF start
<1>4. w \in Walks /\ Picks(w.kept, m.blocks, Len(m.blocks), recent)
  BY <1>2, <1>3, WalkedPicks
<1>5. w.kept \in Seq(BlockSet)
  BY <1>4 DEF Walks
<1>6. next = IF m.plain THEN [walk |-> acc.walk, out |-> Append(acc.out, m)]
             ELSE [walk |-> w, out |-> Append(acc.out, [m EXCEPT !.blocks = w.kept])]
  <2>1. next = IF m.plain THEN [acc EXCEPT !.out = Append(@, m)]
               ELSE [walk |-> w, out |-> Append(acc.out, [m EXCEPT !.blocks = w.kept])]
    BY Zenon DEF Passed, start
  <2>2. [acc EXCEPT !.out = Append(@, m)] = [walk |-> acc.walk, out |-> Append(acc.out, m)]
    BY <1>1
  <2>3. QED
    BY <2>1, <2>2, Zenon
<1> HIDE DEF w, next
<1>7. Shows(made, m, recent)
  <2>1. CASE m.plain
    BY <2>1 DEF Shows
  <2>2. CASE ~ m.plain
    <3>1. made = [role |-> m.role, blocks |-> w.kept, plain |-> m.plain, at |-> m.at]
      BY <1>2, <2>2
    <3>2. made \in TurnSet
      BY <1>2, <1>5, <3>1 DEF TurnSet
    <3>3. QED
      BY <1>4, <2>2, <3>1, <3>2 DEF Shows
  <2>3. QED
    BY <2>1, <2>2
<1>8. next.out = Append(acc.out, made) /\ next.walk = IF m.plain THEN acc.walk ELSE w
  BY <1>6
<1>9. next = [walk |-> next.walk, out |-> next.out]
  BY <1>6
<1>10. made \in TurnSet
  BY <1>7 DEF Shows
<1> HIDE DEF made
<1>11. /\ Append(acc.out, made) \in Seq(TurnSet)
       /\ Len(Append(acc.out, made)) = Len(acc.out) + 1
       /\ \A i \in 1 .. Len(acc.out) : Append(acc.out, made)[i] = acc.out[i]
       /\ Append(acc.out, made)[Len(acc.out) + 1] = made
  BY <1>1, <1>10, AppendProperties
<1>12. next.walk \in Walks
  BY <1>1, <1>4, <1>8
<1>13. next \in Accs
  BY <1>8, <1>9, <1>11, <1>12 DEF Accs
<1>14. Shows(next.out[Len(acc.out) + 1], m, recent)
  BY <1>7, <1>8, <1>11
<1>15. Len(next.out) = Len(acc.out) + 1 /\ \A i \in 1 .. Len(acc.out) : next.out[i] = acc.out[i]
  BY <1>8, <1>11
<1>16. QED
  BY <1>8, <1>13, <1>14, <1>15, Zenon DEF next, w, start

LEMMA RecentIsBoolean ==
  ASSUME NEW msgs, NEW i, NEW turns
  PROVE  Recent(msgs, i, turns) \in BOOLEAN
BY DEF Recent

LEMMA StartIsWalk ==
  ASSUME NEW cache \in Caches
  PROVE  Walk(cache) \in Walks /\ [walk |-> Walk(cache), out |-> <<>>] \in Accs
<1>1. NoFile \in FileNames /\ <<>> \in Seq(BlockSet) /\ <<>> \in Seq(TurnSet)
  BY DEF FileNames
<1>2. Walk(cache) \in Walks
  BY <1>1 DEF Walk, Walks
<1>3. QED
  BY <1>1, <1>2 DEF Accs

\* The messages of a history, compressed one by one.
Compresses(f, msgs, cache, now) ==
    /\ f \in [0 .. Len(msgs) -> Accs]
    /\ f[0] = [walk |-> Walk(cache), out |-> <<>>]
    /\ f[Len(msgs)] = Compress(msgs, cache, now)
    /\ \A n \in 1 .. Len(msgs) :
         f[n] = Passed(f[n - 1], msgs[n], Recent(msgs, n, RecentTurns), now)

LEMMA CompressSteps ==
  ASSUME NEW msgs \in Seq(TurnSet), NEW cache \in Caches, NEW now \in Nat
  PROVE  \E f : Compresses(f, msgs, cache, now)
<1>0. PICK L \in Nat : L = Len(msgs)
  OBVIOUS
<1> DEFINE D == 0 .. L
           b == [walk |-> Walk(cache), out |-> <<>>]
           F(f) == [n \in D |-> IF n = 0 THEN b
                                ELSE Passed(f[n - 1], msgs[n], Recent(msgs, n, RecentTurns), now)]
           upTo == CHOOSE f : f = F(f)
           G == [p \in Accs \X (1 .. L) |->
                   Passed(p[1], msgs[p[2]], Recent(msgs, p[2], RecentTurns), now)]
<1>1. b \in Accs
  BY StartIsWalk
<1>2. ASSUME NEW v \in Accs, NEW n \in 1 .. L
      PROVE  Passed(v, msgs[n], Recent(msgs, n, RecentTurns), now) \in Accs
  <2>1. msgs[n] \in TurnSet
    BY <1>0
  <2>2. Recent(msgs, n, RecentTurns) \in BOOLEAN
    BY RecentIsBoolean
  <2>3. QED
    BY <2>1, <2>2, PassedIs
<1>3. G \in [Accs \X (1 .. L) -> Accs]
  BY <1>2
<1>5. \A v \in Accs, n \in 1 .. L :
        G[<<v, n>>] = Passed(v, msgs[n], Recent(msgs, n, RecentTurns), now)
  OBVIOUS
<1> HIDE DEF G, b
<1>4. PICK g \in [0 .. L -> Accs] : Steps(g, L, b, G)
  BY <1>0, <1>1, <1>3, StepsExist
<1>6. g = F(g)
  <2>1. g[0] = b /\ \A n \in 1 .. L : g[n] = G[<<g[n - 1], n>>]
    BY <1>4 DEF Steps
  <2>2. ASSUME NEW n \in D
        PROVE  g[n] = F(g)[n]
    <3>1. CASE n = 0
      BY <2>1, <3>1
    <3>2. CASE n # 0
      <4>1. n \in 1 .. L /\ n - 1 \in D
        BY <1>0, <3>2
      <4>2. g[n - 1] \in Accs
        BY <1>4, <4>1
      <4>3. g[n] = Passed(g[n - 1], msgs[n], Recent(msgs, n, RecentTurns), now)
        BY <1>5, <2>1, <4>1, <4>2
      <4>4. QED
        BY <3>2, <4>3
    <3>3. QED
      BY <3>1, <3>2
  <2>3. QED
    BY <1>4, <2>2
<1>7. upTo = F(upTo)
  BY <1>6
<1>8. Compress(msgs, cache, now) = upTo[L]
  BY <1>0 DEF Compress, b
<1> HIDE DEF upTo
<1>9. upTo[0] = b
  <2>1. 0 \in D
    BY <1>0
  <2>2. QED
    BY <1>7, <2>1
<1>10. ASSUME NEW n \in 1 .. L
       PROVE  upTo[n] = Passed(upTo[n - 1], msgs[n], Recent(msgs, n, RecentTurns), now)
  <2>1. n \in D /\ n # 0
    BY <1>0
  <2>2. QED
    BY <1>7, <2>1
<1>11. \A n \in 0 .. L : upTo[n] \in Accs
  <2>1. StepsWithin(upTo, L, Accs, b, G)
    BY <1>5, <1>9, <1>10 DEF StepsWithin
  <2>2. QED
    BY <1>0, <1>1, <1>3, <2>1, StepsStay
<1>12. upTo \in [0 .. L -> Accs]
  BY <1>7, <1>11
<1>13. Compresses(upTo, msgs, cache, now)
  BY <1>0, <1>8, <1>9, <1>10, <1>12 DEF Compresses, b
<1>14. QED
  BY <1>13

LEMMA CompressShows ==
  ASSUME NEW msgs \in Seq(TurnSet), NEW cache \in Caches, NEW now \in Nat
  PROVE  LET c == Compress(msgs, cache, now) IN
         /\ c \in Accs /\ Len(c.out) = Len(msgs)
         /\ \A n \in 1 .. Len(msgs) : Shows(c.out[n], msgs[n], Recent(msgs, n, RecentTurns))
<1>0. PICK L \in Nat : L = Len(msgs)
  OBVIOUS
<1>c. PICK f : Compresses(f, msgs, cache, now)
  BY CompressSteps
<1>1. /\ f \in [0 .. L -> Accs]
      /\ f[0].out = <<>> /\ f[L] = Compress(msgs, cache, now)
      /\ \A n \in 1 .. L :
           f[n] = Passed(f[n - 1], msgs[n], Recent(msgs, n, RecentTurns), now)
  BY <1>0, <1>c DEF Compresses
<1> DEFINE seen(n) == Len(f[n].out) = n /\ \A i \in 1 .. n :
                         Shows(f[n].out[i], msgs[i], Recent(msgs, i, RecentTurns))
           T == {n \in 0 .. L : seen(n)}
<1>2. 0 \in T
  BY <1>0, <1>1
<1>3. ASSUME NEW n \in 1 .. L, n - 1 \in T
      PROVE  n \in T
  <2>1. n - 1 \in 0 .. L /\ (n - 1) + 1 = n /\ n \in 0 .. L /\ n \in Nat
    BY <1>0
  <2>2. PICK acc \in Accs : acc = f[n - 1]
    BY <1>1, <2>1
  <2>3. PICK m \in TurnSet : m = msgs[n]
    BY <1>0
  <2>4. PICK recent \in BOOLEAN : recent = Recent(msgs, n, RecentTurns)
    BY RecentIsBoolean
  <2>5. f[n] = Passed(acc, m, recent, now)
    BY <1>1, <2>2, <2>3, <2>4
  <2>6. Len(acc.out) = n - 1 /\ \A i \in 1 .. n - 1 :
          Shows(acc.out[i], msgs[i], Recent(msgs, i, RecentTurns))
    BY <1>3, <2>2
  <2>7. /\ Len(f[n].out) = Len(acc.out) + 1
        /\ \A i \in 1 .. Len(acc.out) : f[n].out[i] = acc.out[i]
        /\ Shows(f[n].out[Len(acc.out) + 1], m, recent)
    <3>1. /\ Len(Passed(acc, m, recent, now).out) = Len(acc.out) + 1
          /\ \A i \in 1 .. Len(acc.out) : Passed(acc, m, recent, now).out[i] = acc.out[i]
          /\ Shows(Passed(acc, m, recent, now).out[Len(acc.out) + 1], m, recent)
      BY PassedIs
    <3>2. QED
      BY <2>5, <3>1
  <2>8. Len(f[n].out) = n
    BY <2>1, <2>6, <2>7
  <2>9. ASSUME NEW i \in 1 .. n
        PROVE  Shows(f[n].out[i], msgs[i], Recent(msgs, i, RecentTurns))
    <3>1. CASE i = n
      BY <2>1, <2>3, <2>4, <2>6, <2>7, <3>1
    <3>2. CASE i # n
      <4>1. i \in 1 .. n - 1
        BY <2>1, <3>2
      <4>2. QED
        BY <2>6, <2>7, <4>1
    <3>3. QED
      BY <3>1, <3>2
  <2>10. QED
    BY <2>1, <2>8, <2>9
<1>4. seen(L)
  <2>1. \A n \in 0 .. L : n \in T
    <3> HIDE DEF T
    <3>1. QED
      BY <1>0, <1>2, <1>3, EveryPrefix
  <2>2. L \in 0 .. L
    BY <1>0
  <2>3. QED
    BY <2>1, <2>2
<1>5. f[L] \in Accs
  BY <1>0, <1>1
<1>6. QED
  BY <1>0, <1>1, <1>4, <1>5

-----------------------------------------------------------------------------
FlatBlock(b) == [b EXCEPT !.flat = b.kind # "other"]

LEMMA FlatBlockIs ==
  ASSUME NEW b \in BlockSet
  PROVE  /\ FlatBlock(b) \in BlockSet
         /\ FlatBlock(b).kind = b.kind /\ FlatBlock(b).file = b.file
         /\ FlatBlock(b).size = b.size /\ (FlatBlock(b).flat <=> b.kind # "other")
<1>1. /\ b.kind \in BlockKinds /\ b.file \in FileNames /\ b.size \in Nat \ {0}
      /\ b = [kind |-> b.kind, file |-> b.file, size |-> b.size, flat |-> b.flat]
  BY DEF BlockSet
<1>2. CASE b.kind = "other"
  <2>1. FlatBlock(b) = [kind |-> b.kind, file |-> b.file, size |-> b.size, flat |-> FALSE]
    <3>1. (b.kind # "other") = FALSE
      BY <1>2, Zenon
    <3>2. FlatBlock(b) = [b EXCEPT !.flat = FALSE]
      BY <3>1, Zenon DEF FlatBlock
    <3>3. QED
      BY <1>1, <3>2
  <2>2. PICK d : d = FlatBlock(b)
    OBVIOUS
  <2>3. d \in BlockSet
    BY <1>1, <2>1, <2>2 DEF BlockSet
  <2>4. d.kind = b.kind /\ d.file = b.file /\ d.size = b.size /\ (d.flat <=> b.kind # "other")
    BY <1>2, <2>1, <2>2
  <2>5. QED
    BY <2>2, <2>3, <2>4
<1>3. CASE b.kind # "other"
  <2>1. FlatBlock(b) = [kind |-> b.kind, file |-> b.file, size |-> b.size, flat |-> TRUE]
    <3>1. (b.kind # "other") = TRUE
      BY <1>3, Zenon
    <3>2. FlatBlock(b) = [b EXCEPT !.flat = TRUE]
      BY <3>1, Zenon DEF FlatBlock
    <3>3. QED
      BY <1>1, <3>2
  <2>2. PICK d : d = FlatBlock(b)
    OBVIOUS
  <2>3. d \in BlockSet
    BY <1>1, <2>1, <2>2 DEF BlockSet
  <2>4. d.kind = b.kind /\ d.file = b.file /\ d.size = b.size /\ (d.flat <=> b.kind # "other")
    BY <1>3, <2>1, <2>2
  <2>5. QED
    BY <2>2, <2>3, <2>4
<1>4. QED
  BY <1>2, <1>3

\* A message as the gateway passes it on, and as text.
SameTurn(c, m) ==
    /\ c \in TurnSet
    /\ c.role = m.role /\ c.plain = m.plain /\ c.at = m.at
    /\ m.plain => c = m

PassedOn(c, m) ==
    /\ SameTurn(c, m)
    /\ ~ m.plain => c.blocks = IF wire = "messages" THEN <<>> ELSE m.blocks

SeenAs(c, m) ==
    /\ SameTurn(c, m)
    /\ ~ m.plain =>
         /\ wire = "messages" => c.blocks = <<>>
         /\ wire # "messages" =>
              /\ Len(c.blocks) = Len(m.blocks)
              /\ \A k \in 1 .. Len(m.blocks) : c.blocks[k] = FlatBlock(m.blocks[k])

\* As a client sends them, blocks are not texts yet.
LEMMA ClientsBlocks ==
  ASSUME conversation \in Seq(TurnSet), ConversationShape, NEW n \in DOMAIN conversation,
         NEW k \in DOMAIN conversation[n].blocks
  PROVE  ~ conversation[n].blocks[k].flat
<1> DEFINE m == conversation[n]
<1>0. m \in TurnSet
  BY LenProperties
<1>1. m \in TurnSet /\ m.role \in {"user", "assistant"} /\ m.blocks \in Seq(BlockSet)
  BY <1>0 DEF TurnSet
<1>2. k \in 1 .. Len(m.blocks)
  BY <1>1, LenProperties
<1>3. ~ Text.flat /\ ~ Attachment.flat /\ \A b \in FileCall : ~ b.flat
  BY DEF Text, Attachment, FileCall, Read, Write, Of
<1>4. CASE m.role = "assistant"
  <2>1. m.blocks[1] = Text /\ \A j \in 2 .. Len(m.blocks) : m.blocks[j] \in FileCall
    BY <1>4 DEF ConversationShape, FollowsOn, Calls
  <2>2. k = 1 \/ k \in 2 .. Len(m.blocks)
    BY <1>2
  <2>3. QED
    BY <1>3, <2>1, <2>2
<1>5. CASE m.role = "user"
  <2>1. Says(m) \/ Replies(m, conversation[n - 1])
    BY <1>5 DEF ConversationShape, FollowsOn
  <2>2. CASE Says(m)
    <3>1. m.blocks = <<Text>> \/ m.blocks = <<Attachment, Text>>
      BY <2>2 DEF Says
    <3>2. m.blocks[k] = Text \/ m.blocks[k] = Attachment
      BY <1>2, <3>1
    <3>3. QED
      BY <1>3, <3>2
  <2>3. CASE Replies(m, conversation[n - 1])
    BY <2>3 DEF Replies
  <2>4. QED
    BY <2>1, <2>2, <2>3
<1>6. QED
  BY <1>1, <1>4, <1>5

LEMMA GatewayPasses ==
  ASSUME conversation \in Seq(TurnSet), ConversationShape
  PROVE  /\ Gateway(conversation) \in Seq(TurnSet)
         /\ Len(Gateway(conversation)) = Len(conversation)
         /\ \A n \in 1 .. Len(conversation) : PassedOn(Gateway(conversation)[n], conversation[n])
<1>0. PICK L \in Nat : L = Len(conversation) /\ DOMAIN conversation = 1 .. L
  BY LenProperties
<1>1. \A n \in 1 .. L : conversation[n] \in TurnSet
  BY <1>0
<1>2. CASE wire # "messages"
  <2>1. Gateway(conversation) = conversation
    BY <1>2 DEF Gateway
  <2>2. \A n \in 1 .. L : PassedOn(conversation[n], conversation[n])
    BY <1>1, <1>2 DEF PassedOn, SameTurn
  <2>3. QED
    BY <1>0, <2>1, <2>2
<1>3. CASE wire = "messages"
  <2>1. <<>> \in Caches
    <3>1. MaxFiles \in Nat /\ 0 <= MaxFiles
      BY ContextAssumption
    <3>2. <<>> \in Seq(EntrySet) /\ Len(<<>>) = 0 /\ DOMAIN <<>> = {}
      OBVIOUS
    <3>3. QED
      BY <3>1, <3>2 DEF Caches
  <2>2. PICK c : c = Compress(conversation, <<>>, 0)
    OBVIOUS
  <2>3. /\ c \in Accs /\ Len(c.out) = L
        /\ \A n \in 1 .. L : Shows(c.out[n], conversation[n], Recent(conversation, n, RecentTurns))
    <3>1. 0 \in Nat
      OBVIOUS
    <3>2. QED
      BY <1>0, <2>1, <2>2, <3>1, CompressShows
  <2>4. Gateway(conversation) = c.out /\ c.out \in Seq(TurnSet)
    BY <1>3, <2>2, <2>3 DEF Gateway, Accs
  <2>5. ASSUME NEW n \in 1 .. L
        PROVE  PassedOn(c.out[n], conversation[n])
    <3> DEFINE m == conversation[n]
               d == c.out[n]
               recent == Recent(conversation, n, RecentTurns)
    <3>1. Shows(d, m, recent)
      BY <2>3
    <3>2. SameTurn(d, m)
      BY <3>1 DEF Shows, SameTurn
    <3>3. ASSUME ~ m.plain
          PROVE  d.blocks = <<>>
      <4>1. d.blocks \in Seq(BlockSet)
        BY <3>2 DEF SameTurn, TurnSet
      <4>2. PICK at : Places(at, d.blocks, m.blocks, Len(m.blocks), recent)
        BY <3>1, <3>3 DEF Shows, Picks
      <4>3. m.blocks \in Seq(BlockSet) /\ DOMAIN m.blocks = 1 .. Len(m.blocks)
        <5>1. m.blocks \in Seq(BlockSet)
          BY <1>1 DEF TurnSet
        <5>2. QED
          BY <5>1, LenProperties
      <4>4. \A k \in 1 .. Len(m.blocks) : ~ m.blocks[k].flat
        BY <1>0, <4>3, ClientsBlocks
      <4>5. \A k \in DOMAIN d.blocks : at[k] \in {j \in 1 .. Len(m.blocks) : m.blocks[j].flat}
        BY <4>2 DEF Places
      <4>6. DOMAIN d.blocks = {}
        BY <4>4, <4>5
      <4>7. Len(d.blocks) \in Nat /\ DOMAIN d.blocks = 1 .. Len(d.blocks)
        BY <4>1, LenProperties
      <4>8. Len(d.blocks) = 0
        <5>1. Len(d.blocks) # 0 => 1 \in 1 .. Len(d.blocks)
          BY <4>7
        <5>2. QED
          BY <4>6, <4>7, <5>1
      <4>9. QED
        BY <4>1, <4>8, EmptySeq
    <3>4. QED
      BY <1>3, <3>2, <3>3 DEF PassedOn
  <2>6. QED
    BY <1>0, <2>3, <2>4, <2>5
<1>4. QED
  BY <1>2, <1>3

LEMMA Flattened ==
  ASSUME NEW msgs \in Seq(TurnSet)
  PROVE  /\ Flatten(msgs) \in Seq(TurnSet) /\ Len(Flatten(msgs)) = Len(msgs)
         /\ \A n \in 1 .. Len(msgs) :
              /\ SameTurn(Flatten(msgs)[n], msgs[n])
              /\ ~ msgs[n].plain =>
                   /\ Len(Flatten(msgs)[n].blocks) = Len(msgs[n].blocks)
                   /\ \A k \in 1 .. Len(msgs[n].blocks) :
                        Flatten(msgs)[n].blocks[k] = FlatBlock(msgs[n].blocks[k])
<1>0. PICK L \in Nat : L = Len(msgs) /\ DOMAIN msgs = 1 .. L
  BY LenProperties
<1> DEFINE made(n) ==
             IF msgs[n].plain THEN msgs[n]
             ELSE [msgs[n] EXCEPT !.blocks =
                     [k \in DOMAIN msgs[n].blocks |-> FlatBlock(msgs[n].blocks[k])]]
<1>1. Flatten(msgs) = [n \in 1 .. L |-> made(n)]
  BY <1>0 DEF Flatten, FlatBlock
<1>2. ASSUME NEW n \in 1 .. L
      PROVE  /\ SameTurn(made(n), msgs[n])
             /\ ~ msgs[n].plain =>
                  /\ Len(made(n).blocks) = Len(msgs[n].blocks)
                  /\ \A k \in 1 .. Len(msgs[n].blocks) : made(n).blocks[k] = FlatBlock(msgs[n].blocks[k])
  <2>1. PICK m \in TurnSet : m = msgs[n]
    BY <1>0
  <2>2. /\ m.role \in {"user", "assistant"} /\ m.blocks \in Seq(BlockSet)
        /\ m.plain \in BOOLEAN /\ m.at \in Nat
        /\ m = [role |-> m.role, blocks |-> m.blocks, plain |-> m.plain, at |-> m.at]
    BY DEF TurnSet
  <2>3. CASE m.plain
    BY <2>1, <2>3 DEF SameTurn
  <2>4. CASE ~ m.plain
    <3>1. PICK K \in Nat : K = Len(m.blocks) /\ DOMAIN m.blocks = 1 .. K
      BY <2>2, LenProperties
    <3> DEFINE blocks == [k \in 1 .. K |-> FlatBlock(m.blocks[k])]
    <3>2. \A k \in 1 .. K : FlatBlock(m.blocks[k]) \in BlockSet
      BY <2>2, <3>1, FlatBlockIs
    <3>3. blocks \in Seq(BlockSet) /\ Len(blocks) = K
      BY <3>2
    <3>4. made(n) = [role |-> m.role, blocks |-> blocks, plain |-> m.plain, at |-> m.at]
      BY <2>1, <2>2, <2>4, <3>1
    <3>5. \A k \in 1 .. K : blocks[k] = FlatBlock(m.blocks[k])
      OBVIOUS
    <3> HIDE DEF blocks, made
    <3>6. SameTurn(made(n), msgs[n])
      BY <2>1, <2>2, <2>4, <3>3, <3>4 DEF SameTurn, TurnSet
    <3>7. QED
      BY <2>1, <3>1, <3>3, <3>4, <3>5, <3>6
  <2>5. QED
    BY <2>2, <2>3, <2>4
<1>3. \A n \in 1 .. L : made(n) \in TurnSet
  BY <1>2 DEF SameTurn
<1> HIDE DEF made
<1>4. Flatten(msgs) \in Seq(TurnSet) /\ Len(Flatten(msgs)) = L
  BY <1>0, <1>1, <1>3
<1>5. \A n \in 1 .. L : Flatten(msgs)[n] = made(n)
  BY <1>1
<1>6. QED
  BY <1>0, <1>2, <1>4, <1>5

\* The history as the providers see it.
LEMMA FlatHistory ==
  ASSUME conversation \in Seq(TurnSet), ConversationShape
  PROVE  LET flat == Flatten(Gateway(conversation)) IN
         /\ flat \in Seq(TurnSet) /\ Len(flat) = Len(conversation)
         /\ \A n \in 1 .. Len(conversation) : SeenAs(flat[n], conversation[n])
<1>0. PICK L \in Nat : L = Len(conversation)
  BY LenProperties
<1>1. PICK passed \in Seq(TurnSet) : passed = Gateway(conversation)
  BY GatewayPasses
<1>2. Len(passed) = L /\ \A n \in 1 .. L : PassedOn(passed[n], conversation[n])
  BY <1>0, <1>1, GatewayPasses
<1>3. PICK flat : flat = Flatten(passed)
  OBVIOUS
<1>4. /\ flat \in Seq(TurnSet) /\ Len(flat) = L
      /\ \A n \in 1 .. L :
           /\ SameTurn(flat[n], passed[n])
           /\ ~ passed[n].plain =>
                /\ Len(flat[n].blocks) = Len(passed[n].blocks)
                /\ \A k \in 1 .. Len(passed[n].blocks) : flat[n].blocks[k] = FlatBlock(passed[n].blocks[k])
  BY <1>2, <1>3, Flattened
<1>5. ASSUME NEW n \in 1 .. L
      PROVE  SeenAs(flat[n], conversation[n])
  <2> DEFINE m == conversation[n]
             g == passed[n]
             c == flat[n]
  <2>1. /\ g.role = m.role /\ g.plain = m.plain /\ g.at = m.at /\ (m.plain => g = m)
        /\ ~ m.plain => g.blocks = IF wire = "messages" THEN <<>> ELSE m.blocks
    BY <1>2 DEF PassedOn, SameTurn
  <2>2. /\ c \in TurnSet /\ c.role = g.role /\ c.plain = g.plain /\ c.at = g.at
        /\ g.plain => c = g
    BY <1>4 DEF SameTurn
  <2>3. SameTurn(c, m)
    BY <2>1, <2>2 DEF SameTurn
  <2>4. ~ g.plain =>
          /\ Len(c.blocks) = Len(g.blocks)
          /\ \A k \in 1 .. Len(g.blocks) : c.blocks[k] = FlatBlock(g.blocks[k])
    BY <1>4
  <2>5. ASSUME ~ m.plain, wire = "messages"
        PROVE  c.blocks = <<>>
    <3>1. g.blocks = <<>> /\ Len(c.blocks) = Len(g.blocks)
      BY <2>1, <2>4, <2>5
    <3>2. Len(<<>>) = 0 /\ c.blocks \in Seq(BlockSet)
      BY <2>2 DEF TurnSet
    <3>3. QED
      BY <3>1, <3>2, EmptySeq
  <2>6. ASSUME ~ m.plain, wire # "messages"
        PROVE  /\ Len(c.blocks) = Len(m.blocks)
               /\ \A k \in 1 .. Len(m.blocks) : c.blocks[k] = FlatBlock(m.blocks[k])
    BY <2>1, <2>4, <2>6
  <2>7. QED
    BY <2>3, <2>5, <2>6 DEF SeenAs
<1>6. QED
  BY <1>0, <1>1, <1>3, <1>4, <1>5

-----------------------------------------------------------------------------
\* One block: what is truthful stays so, as long as a result is of the file asked for.
LEMMA BlockTells ==
  ASSUME NEW w \in Walks, NEW b \in BlockSet, NEW recent \in BOOLEAN, NEW now \in Nat,
         Truthful(w.cache), b.kind = "result" => w.wanted \in {NoFile, b.file}
  PROVE  LET next == Block(w, b, recent, now) IN
         /\ next \in Walks /\ Truthful(next.cache)
         /\ next.wanted = IF b.flat /\ b.kind = "read" THEN b.file
                          ELSE IF b.flat /\ b.kind = "result" THEN NoFile
                          ELSE w.wanted
<1>1. w.cache \in Caches /\ w.wanted \in FileNames /\ b.file \in FileNames
  BY DEF Walks, BlockSet
<1> DEFINE next == Block(w, b, recent, now)
<1>2. /\ next \in Walks
      /\ next.cache =
           CASE b.flat /\ b.kind = "write" -> UpdateFile(w.cache, b.file, b.file, now)
             [] b.flat /\ b.kind = "result" /\ w.wanted # NoFile ->
                  UpdateFile(w.cache, w.wanted, b.file, now)
             [] OTHER -> w.cache
      /\ next.wanted =
           CASE b.flat /\ b.kind = "read" -> b.file
             [] b.flat /\ b.kind = "result" -> NoFile
             [] OTHER -> w.wanted
  BY BlockIs
<1> HIDE DEF next
<1>3. Truthful(UpdateFile(w.cache, b.file, b.file, now))
  BY <1>1, UpdateKeeps
<1>4. Truthful(next.cache)
  <2>1. CASE b.flat /\ b.kind = "write"
    BY <1>2, <1>3, <2>1
  <2>2. CASE b.flat /\ b.kind = "result" /\ w.wanted # NoFile
    BY <1>2, <1>3, <2>2
  <2>3. CASE ~ (b.flat /\ b.kind = "write") /\ ~ (b.flat /\ b.kind = "result" /\ w.wanted # NoFile)
    BY <1>2, <2>3
  <2>4. QED
    BY <2>1, <2>2, <2>3
<1>5. next.wanted = IF b.flat /\ b.kind = "read" THEN b.file
                    ELSE IF b.flat /\ b.kind = "result" THEN NoFile
                    ELSE w.wanted
  BY <1>2
<1>6. QED
  BY <1>2, <1>4, <1>5 DEF next

\* Without a read that was asked for or is asked, no content is taken but what is written.
LEMMA QuietWalk ==
  ASSUME NEW w \in Walks, w.wanted = NoFile, Truthful(w.cache),
         NEW blocks \in Seq(BlockSet), \A k \in 1 .. Len(blocks) : blocks[k].kind # "read",
         NEW recent \in BOOLEAN, NEW now \in Nat
  PROVE  LET v == Walked(w, blocks, recent, now) IN v.wanted = NoFile /\ Truthful(v.cache)
<1>0. PICK n \in Nat : n = Len(blocks)
  OBVIOUS
<1>f. PICK f : WalksThrough(f, w, blocks, recent, now)
  BY WalkedSteps
<1>1. /\ f \in [0 .. n -> Walks]
      /\ f[0] = w /\ f[n] = Walked(w, blocks, recent, now)
      /\ \A k \in 1 .. n : f[k] = Block(f[k - 1], blocks[k], recent, now)
  BY <1>0, <1>f DEF WalksThrough
<1> DEFINE T == {k \in 0 .. n : f[k].wanted = NoFile /\ Truthful(f[k].cache)}
<1>2. 0 \in T
  BY <1>0, <1>1
<1>3. ASSUME NEW k \in 1 .. n, k - 1 \in T
      PROVE  k \in T
  <2>1. k - 1 \in 0 .. n /\ k \in 0 .. n
    BY <1>0
  <2>2. PICK v \in Walks : v = f[k - 1]
    BY <1>1, <2>1
  <2>3. PICK b \in BlockSet : b = blocks[k]
    BY <1>0
  <2>4. v.wanted = NoFile /\ Truthful(v.cache) /\ b.kind # "read"
    BY <1>0, <1>3, <2>2, <2>3
  <2>5. Truthful(Block(v, b, recent, now).cache) /\ Block(v, b, recent, now).wanted = NoFile
    BY <2>4, BlockTells
  <2>6. f[k] = Block(v, b, recent, now)
    BY <1>1, <2>2, <2>3
  <2>7. QED
    BY <2>1, <2>5, <2>6
<1>4. n \in T
  <2> HIDE DEF T
  <2>1. \A k \in 0 .. n : k \in T
    BY <1>0, <1>2, <1>3, EveryPrefix
  <2>2. QED
    BY <1>0, <2>1
<1>5. QED
  BY <1>1, <1>4

\* A read that is the only call of its message asks for its file.
LEMMA ReadWalk ==
  ASSUME NEW w \in Walks, Truthful(w.cache), NEW blocks \in Seq(BlockSet), Len(blocks) = 2,
         blocks[1].kind = "text", blocks[2].kind = "read", blocks[2].flat,
         NEW recent \in BOOLEAN, NEW now \in Nat
  PROVE  LET v == Walked(w, blocks, recent, now) IN
         v.wanted = blocks[2].file /\ Truthful(v.cache)
<1>f. PICK f : WalksThrough(f, w, blocks, recent, now)
  BY WalkedSteps
<1>1. /\ f[1] = Block(w, blocks[1], recent, now)
      /\ f[2] = Block(f[1], blocks[2], recent, now)
      /\ f[2] = Walked(w, blocks, recent, now)
  <2>1. 1 \in 1 .. 2 /\ 2 \in 1 .. 2 /\ 1 - 1 = 0 /\ 2 - 1 = 1
    OBVIOUS
  <2>2. QED
    BY <1>f, <2>1 DEF WalksThrough
<1>b. 1 \in 1 .. Len(blocks) /\ 2 \in 1 .. Len(blocks)
  OBVIOUS
<1>2. PICK b1 \in BlockSet : b1 = blocks[1]
  BY <1>b, ElementOfSeq
<1>3. PICK b2 \in BlockSet : b2 = blocks[2]
  BY <1>b, ElementOfSeq
<1>4. f[1] \in Walks /\ Truthful(f[1].cache)
  BY <1>1, <1>2, BlockTells
<1>5. PICK v \in Walks : v = f[1] /\ Truthful(v.cache)
  BY <1>4
<1>6. Truthful(Block(v, b2, recent, now).cache) /\ Block(v, b2, recent, now).wanted = b2.file
  BY <1>3, <1>5, BlockTells
<1>7. QED
  BY <1>1, <1>3, <1>5, <1>6

\* Its result is of that file.
LEMMA ResultWalk ==
  ASSUME NEW w \in Walks, Truthful(w.cache), NEW blocks \in Seq(BlockSet), Len(blocks) = 1,
         blocks[1].kind = "result", blocks[1].flat, w.wanted = blocks[1].file,
         NEW recent \in BOOLEAN, NEW now \in Nat
  PROVE  LET v == Walked(w, blocks, recent, now) IN v.wanted = NoFile /\ Truthful(v.cache)
<1>f. PICK f : WalksThrough(f, w, blocks, recent, now)
  BY WalkedSteps
<1>1. Walked(w, blocks, recent, now) = Block(w, blocks[1], recent, now)
  <2>1. 1 \in 1 .. 1 /\ 1 - 1 = 0
    OBVIOUS
  <2>2. QED
    BY <1>f, <2>1 DEF WalksThrough
<1>b. 1 \in 1 .. Len(blocks)
  OBVIOUS
<1>2. PICK b \in BlockSet : b = blocks[1]
  BY <1>b, ElementOfSeq
<1>3. Truthful(Block(w, b, recent, now).cache) /\ Block(w, b, recent, now).wanted = NoFile
  BY <1>2, BlockTells
<1>4. QED
  BY <1>1, <1>2, <1>3

\* What the walk still waits for after a message: what its only call reads.
Asks(m, f) ==
    /\ wire # "messages" /\ m.role = "assistant" /\ ~ m.plain
    /\ Len(m.blocks) = 2 /\ m.blocks[2].kind = "read" /\ m.blocks[2].file = f

\* After the message n of the history, walked through so far.
Told(n, w) ==
    /\ Truthful(w.cache)
    /\ w.wanted # NoFile => n > 0 /\ Asks(conversation[n], w.wanted)

\* One message.
LEMMA TurnTells ==
  ASSUME conversation \in Seq(TurnSet), ConversationShape, ReadsAreAlone,
         NEW n \in DOMAIN conversation, NEW w \in Walks, Told(n - 1, w),
         NEW c, SeenAs(c, conversation[n]), ~ c.plain, NEW recent \in BOOLEAN, NEW now \in Nat
  PROVE  Told(n, Walked([w EXCEPT !.kept = <<>>], c.blocks, recent, now))
<1>0. n \in Nat /\ n > 0 /\ DOMAIN conversation = 1 .. Len(conversation)
  <2>1. Len(conversation) \in Nat /\ DOMAIN conversation = 1 .. Len(conversation)
    BY LenProperties
  <2>2. QED
    BY <2>1
<1> DEFINE m == conversation[n]
           p == conversation[n - 1]
<1>1. PICK s : s = [w EXCEPT !.kept = <<>>]
  OBVIOUS
<1>2. /\ s \in Walks /\ s.wanted = w.wanted /\ Truthful(s.cache)
  <2>1. /\ w.cache \in Caches /\ w.wanted \in FileNames /\ <<>> \in Seq(BlockSet)
        /\ s = [kept |-> <<>>, cache |-> w.cache, wanted |-> w.wanted]
    BY <1>1 DEF Walks
  <2>2. Truthful(w.cache)
    BY DEF Told
  <2>3. s \in Walks
    BY <2>1 DEF Walks
  <2>4. QED
    BY <2>1, <2>2, <2>3
<1>3. s.wanted # NoFile => n > 1 /\ Asks(p, s.wanted)
  BY <1>0, <1>2 DEF Told
<1>4. PICK v : v = Walked(s, c.blocks, recent, now)
  OBVIOUS
<1>5. c.blocks \in Seq(BlockSet) /\ c.plain = m.plain /\ c.role = m.role
  <2>1. c \in TurnSet /\ c.plain = m.plain /\ c.role = m.role
    BY DEF SeenAs, SameTurn
  <2>2. QED
    BY <2>1 DEF TurnSet
<1>6. m \in TurnSet /\ m.role \in {"user", "assistant"} /\ m.blocks \in Seq(BlockSet)
  <2>1. m \in TurnSet
    BY LenProperties
  <2>2. QED
    BY <2>1 DEF TurnSet
<1>7. ASSUME s.wanted = NoFile, \A k \in 1 .. Len(c.blocks) : c.blocks[k].kind # "read"
      PROVE  Told(n, v)
  <2>1. v.wanted = NoFile /\ Truthful(v.cache)
    BY <1>2, <1>4, <1>5, <1>7, QuietWalk
  <2>2. QED
    BY <2>1 DEF Told
<1>8. CASE wire = "messages"
  <2>1. c.blocks = <<>>
    BY <1>5, <1>8 DEF SeenAs
  <2>2. \A k \in 1 .. Len(c.blocks) : c.blocks[k].kind # "read"
    BY <2>1
  <2>3. s.wanted = NoFile
    BY <1>3, <1>8 DEF Asks
  <2>4. QED
    BY <1>1, <1>4, <1>7, <2>2, <2>3
<1>9. CASE wire # "messages"
  <2>1. /\ Len(c.blocks) = Len(m.blocks)
        /\ \A k \in 1 .. Len(m.blocks) : c.blocks[k] = FlatBlock(m.blocks[k])
    BY <1>5, <1>9 DEF SeenAs
  <2>2. \A k \in 1 .. Len(m.blocks) :
          /\ m.blocks[k] \in BlockSet /\ c.blocks[k].kind = m.blocks[k].kind
          /\ c.blocks[k].file = m.blocks[k].file
          /\ c.blocks[k].flat <=> m.blocks[k].kind # "other"
    <3>1. TAKE k \in 1 .. Len(m.blocks)
    <3>2. m.blocks[k] \in BlockSet
      BY <1>6
    <3>3. QED
      BY <2>1, <3>2, FlatBlockIs
  <2>3. PICK K \in Nat : K = Len(m.blocks) /\ K = Len(c.blocks) /\ DOMAIN m.blocks = 1 .. K
    BY <1>6, <2>1, LenProperties
  <2>4. Text.kind = "text" /\ Attachment.kind = "other" /\
        \A b \in FileCall : b.kind \in {"read", "write"}
    BY DEF Text, Attachment, FileCall, Read, Write, Of
  <2>5. CASE m.role = "assistant"
    <3>1. n > 1 /\ p.role = "user" /\ Calls(m)
      BY <2>5 DEF ConversationShape, FollowsOn
    <3>2. s.wanted = NoFile
      BY <1>3, <3>1 DEF Asks
    <3>3. /\ m.blocks # <<>> /\ m.blocks[1] = Text
          /\ \A k \in 2 .. K : m.blocks[k] \in FileCall
      BY <2>3, <3>1 DEF Calls
    <3>4. K > 0
      BY <1>6, <2>3, <3>3, EmptySeq
    <3>5. CASE \A k \in 2 .. K : m.blocks[k].kind # "read"
      <4>1. \A k \in 1 .. K : m.blocks[k].kind # "read"
        <5>1. TAKE k \in 1 .. K
        <5>2. CASE k = 1
          BY <2>4, <3>3, <5>2
        <5>3. CASE k # 1
          <6>1. k \in 2 .. K
            BY <2>3, <5>3
          <6>2. QED
            BY <3>5, <6>1
        <5>4. QED
          BY <5>2, <5>3
      <4>2. \A k \in 1 .. Len(c.blocks) : c.blocks[k].kind # "read"
        BY <2>2, <2>3, <4>1
      <4>3. QED
        BY <1>1, <1>4, <1>7, <3>2, <4>2
    <3>6. ASSUME NEW k \in 2 .. K, m.blocks[k].kind = "read"
          PROVE  Told(n, v)
      <4>1. \A j \in 2 .. K : j = k
        <5>1. TAKE j \in 2 .. K
        <5>2. IsCall(m.blocks[j])
          BY <2>4, <3>3 DEF IsCall
        <5>3. j \in DOMAIN m.blocks /\ k \in DOMAIN m.blocks
          BY <2>3
        <5>4. QED
          BY <3>6, <5>2, <5>3 DEF ReadsAreAlone
      <4>2. k = 2 /\ K = 2
        <5>1. 2 \in 2 .. K /\ K \in 2 .. K
          BY <2>3
        <5>2. QED
          BY <4>1, <5>1
      <4>3. /\ c.blocks[1].kind = "text" /\ c.blocks[2].kind = "read"
            /\ c.blocks[2].flat /\ c.blocks[2].file = m.blocks[2].file /\ Len(c.blocks) = 2
        <5>1. 1 \in 1 .. Len(m.blocks) /\ 2 \in 1 .. Len(m.blocks)
          BY <2>3, <4>2
        <5>2. m.blocks[1].kind = "text" /\ m.blocks[2].kind = "read"
          BY <2>4, <3>3, <3>6, <4>2
        <5>3. QED
          BY <2>2, <2>3, <4>2, <5>1, <5>2
      <4>4. v.wanted = m.blocks[2].file /\ Truthful(v.cache)
        BY <1>2, <1>4, <1>5, <4>3, ReadWalk
      <4>5. Asks(m, v.wanted)
        BY <1>5, <1>9, <2>3, <2>5, <3>6, <4>2, <4>4 DEF Asks
      <4>6. QED
        BY <1>0, <4>4, <4>5 DEF Told
    <3>7. QED
      BY <1>1, <1>4, <3>5, <3>6
  <2>6. CASE m.role = "user"
    <3>1. \/ Says(m) /\ (n > 1 => Len(p.blocks) = 1)
          \/ n > 1 /\ Replies(m, p)
      BY <2>6 DEF ConversationShape, FollowsOn
    <3>2. CASE Says(m) /\ (n > 1 => Len(p.blocks) = 1)
      <4>1. s.wanted = NoFile
        BY <1>3, <3>2 DEF Asks
      <4>2. m.blocks = <<Text>> \/ m.blocks = <<Attachment, Text>>
        BY <3>2 DEF Says
      <4>3. \A k \in 1 .. K : m.blocks[k] = Text \/ m.blocks[k] = Attachment
        BY <2>3, <4>2
      <4>4. \A k \in 1 .. Len(c.blocks) : c.blocks[k].kind # "read"
        BY <2>2, <2>3, <2>4, <4>3
      <4>5. QED
        BY <1>1, <1>4, <1>7, <4>1, <4>4
    <3>3. CASE n > 1 /\ Replies(m, p)
      <4>1. /\ K + 1 = Len(p.blocks)
            /\ \A k \in 1 .. K :
                 /\ m.blocks[k].kind = "result"
                 /\ m.blocks[k].file = IF p.blocks[k + 1].kind = "read" THEN p.blocks[k + 1].file ELSE NoFile
        BY <2>3, <3>3 DEF Replies
      <4>2. CASE s.wanted = NoFile
        <5>1. \A k \in 1 .. Len(c.blocks) : c.blocks[k].kind # "read"
          BY <2>2, <2>3, <4>1
        <5>2. QED
          BY <1>1, <1>4, <1>7, <4>2, <5>1
      <4>3. CASE s.wanted # NoFile
        <5>1. Len(p.blocks) = 2 /\ p.blocks[2].kind = "read" /\ p.blocks[2].file = s.wanted
          BY <1>3, <4>3 DEF Asks
        <5>2. K = 1 /\ 1 \in 1 .. K /\ 1 + 1 = 2
          <6>1. K + 1 = 2 /\ K \in Nat
            BY <2>3, <4>1, <5>1
          <6>2. QED
            BY <6>1
        <5>3. m.blocks[1].kind = "result" /\ m.blocks[1].file = s.wanted
          BY <4>1, <5>1, <5>2
        <5>4. /\ c.blocks[1].kind = "result" /\ c.blocks[1].file = s.wanted
              /\ c.blocks[1].flat /\ Len(c.blocks) = 1
          BY <2>2, <2>3, <5>2, <5>3
        <5>5. v.wanted = NoFile /\ Truthful(v.cache)
          BY <1>2, <1>4, <1>5, <5>4, ResultWalk
        <5>6. QED
          BY <1>1, <1>4, <5>5 DEF Told
      <4>4. QED
        BY <4>2, <4>3
    <3>4. QED
      BY <3>1, <3>2, <3>3
  <2>7. QED
    BY <1>6, <2>5, <2>6
<1>10. QED
  BY <1>8, <1>9

\* So the cache that the history leaves is truthful.
LEMMA CompressTells ==
  ASSUME conversation \in Seq(TurnSet), ConversationShape, ReadsAreAlone,
         NEW cache \in Caches, Truthful(cache), NEW now \in Nat
  PROVE  Truthful(Compress(Flatten(Gateway(conversation)), cache, now).walk.cache)
<1>0. PICK L \in Nat : L = Len(conversation) /\ DOMAIN conversation = 1 .. L
  BY LenProperties
<1>1. PICK flat \in Seq(TurnSet) : flat = Flatten(Gateway(conversation))
  BY FlatHistory
<1>2. Len(flat) = L /\ \A n \in 1 .. L : SeenAs(flat[n], conversation[n])
  BY <1>0, <1>1, FlatHistory
<1>c. PICK f : Compresses(f, flat, cache, now)
  BY CompressSteps
<1>3. /\ f \in [0 .. L -> Accs]
      /\ f[0].walk = Walk(cache) /\ f[L] = Compress(flat, cache, now)
      /\ \A n \in 1 .. L : f[n] = Passed(f[n - 1], flat[n], Recent(flat, n, RecentTurns), now)
  BY <1>2, <1>c DEF Compresses
<1> DEFINE T == {n \in 0 .. L : Told(n, f[n].walk)}
<1>4. 0 \in T
  BY <1>0, <1>3 DEF Told, Walk
<1>5. ASSUME NEW n \in 1 .. L, n - 1 \in T
      PROVE  n \in T
  <2>1. n - 1 \in 0 .. L /\ n \in 0 .. L /\ n - 1 \in Nat /\ n \in Nat
    BY <1>0
  <2>2. PICK acc \in Accs : acc = f[n - 1]
    BY <1>3, <2>1
  <2>3. PICK c \in TurnSet : c = flat[n]
    BY <1>2
  <2>4. PICK recent \in BOOLEAN : recent = Recent(flat, n, RecentTurns)
    BY RecentIsBoolean
  <2>5. f[n] = Passed(acc, c, recent, now)
    BY <1>3, <2>2, <2>3, <2>4
  <2>6. f[n].walk = IF c.plain THEN acc.walk
                    ELSE Walked([acc.walk EXCEPT !.kept = <<>>], c.blocks, recent, now)
    <3>1. Passed(acc, c, recent, now).walk =
            IF c.plain THEN acc.walk
            ELSE Walked([acc.walk EXCEPT !.kept = <<>>], c.blocks, recent, now)
      BY PassedIs
    <3>2. QED
      BY <2>5, <3>1
  <2>7. Told(n - 1, acc.walk) /\ acc.walk \in Walks
    BY <1>5, <2>2 DEF Accs
  <2>8. SeenAs(c, conversation[n])
    BY <1>2, <2>3
  <2>9. CASE ~ c.plain
    <3>1. Told(n, Walked([acc.walk EXCEPT !.kept = <<>>], c.blocks, recent, now))
      BY <1>0, <2>7, <2>8, <2>9, TurnTells
    <3>2. QED
      BY <2>1, <2>6, <2>9, <3>1
  <2>10. CASE c.plain
    <3> DEFINE m == conversation[n]
    <3>1. m.plain /\ m \in TurnSet /\ m.role \in {"user", "assistant"}
      BY <1>0, <2>8, <2>10 DEF SeenAs, SameTurn, TurnSet
    <3>2. m.role # "assistant"
      BY <1>0, <3>1 DEF ConversationShape, FollowsOn, Calls
    <3>3. n > 1 => Len(conversation[n - 1].blocks) = 1
      BY <1>0, <3>1, <3>2 DEF ConversationShape, FollowsOn, Replies
    <3>4. acc.walk.wanted = NoFile
      BY <2>1, <2>7, <3>3 DEF Told, Asks
    <3>5. Told(n, acc.walk)
      BY <2>7, <3>4 DEF Told
    <3>6. QED
      BY <2>1, <2>6, <2>10, <3>5
  <2>11. QED
    BY <2>3, <2>9, <2>10
<1>6. L \in T
  <2> HIDE DEF T
  <2>1. \A n \in 0 .. L : n \in T
    BY <1>0, <1>4, <1>5, EveryPrefix
  <2>2. QED
    BY <1>0, <2>1
<1>7. QED
  BY <1>1, <1>3, <1>6 DEF Told

-----------------------------------------------------------------------------
\* The budget leaves an end of the messages, which fits or is one message.
EndsAs(s, msgs, n) ==
    /\ s \in Seq(TurnSet) /\ Len(s) = Len(msgs) - n + 1
    /\ \A i \in 1 .. Len(msgs) - n + 1 : s[i] = msgs[n + i - 1]

LEMMA FitIsAnEnd ==
  ASSUME NEW msgs \in Seq(TurnSet), msgs # <<>>
  PROVE  /\ \E n \in 1 .. Len(msgs) : EndsAs(Fit(msgs), msgs, n)
         /\ SizeOfAll(Fit(msgs)) <= Budget \/ Len(Fit(msgs)) = 1
<1>0. PICK L \in Nat : L = Len(msgs) /\ L > 0 /\ DOMAIN msgs = 1 .. L
  BY EmptySeq, LenProperties
<1>1. \A i \in 1 .. L : msgs[i] \in TurnSet
  BY <1>0
<1> DEFINE Tails == {n \in 1 .. L : SizeOfAll(SubSeq(msgs, n, L)) <= Budget}
           longest == CHOOSE n \in Tails : \A k \in Tails : n <= k
<1>2. Fit(msgs) = IF SizeOfAll(msgs) <= Budget THEN msgs
                  ELSE IF Tails = {} THEN <<Last(msgs)>>
                  ELSE SubSeq(msgs, longest, L)
  BY <1>0 DEF Fit
<1>3. ASSUME NEW n \in 1 .. L
      PROVE  EndsAs(SubSeq(msgs, n, L), msgs, n)
  <2>1. n \in Int /\ L \in Int /\ \A i \in n .. L : msgs[i] \in TurnSet
    BY <1>0, <1>1
  <2>2. /\ SubSeq(msgs, n, L) \in Seq(TurnSet)
        /\ Len(SubSeq(msgs, n, L)) = IF n <= L THEN L - n + 1 ELSE 0
        /\ \A i \in 1 .. L - n + 1 : SubSeq(msgs, n, L)[i] = msgs[n + i - 1]
    BY <2>1, SubSeqProperties
  <2>3. n <= L
    BY <1>0
  <2>4. QED
    BY <1>0, <2>2, <2>3 DEF EndsAs
<1>4. CASE SizeOfAll(msgs) <= Budget
  <2>1. \A i \in 1 .. L - 1 + 1 : i \in 1 .. L /\ 1 + i - 1 = i
    BY <1>0
  <2>2. EndsAs(msgs, msgs, 1)
    BY <1>0, <2>1 DEF EndsAs
  <2>3. 1 \in 1 .. Len(msgs)
    BY <1>0
  <2>4. QED
    BY <1>2, <1>4, <2>2, <2>3
<1>5. CASE ~ (SizeOfAll(msgs) <= Budget) /\ Tails = {}
  <2>1. Fit(msgs) = <<msgs[L]>>
    BY <1>0, <1>2, <1>5 DEF Last
  <2>2. EndsAs(<<msgs[L]>>, msgs, L)
    <3>1. msgs[L] \in TurnSet /\ L - L + 1 = 1 /\ L + 1 - 1 = L
      BY <1>0, <1>1
    <3>2. <<msgs[L]>> \in Seq(TurnSet) /\ Len(<<msgs[L]>>) = 1 /\ <<msgs[L]>>[1] = msgs[L]
      BY <3>1
    <3>3. \A i \in 1 .. L - L + 1 : i = 1
      BY <1>0
    <3>4. QED
      BY <1>0, <3>1, <3>2, <3>3 DEF EndsAs
  <2>3. L \in 1 .. Len(msgs) /\ Len(<<msgs[L]>>) = 1
    BY <1>0
  <2>4. QED
    BY <2>1, <2>2, <2>3
<1>6. CASE ~ (SizeOfAll(msgs) <= Budget) /\ Tails # {}
  <2>1. longest \in Tails
    <3>1. Tails \subseteq Nat
      BY <1>0
    <3>2. \E n \in Tails : \A k \in Tails : n <= k
      BY <1>6, <3>1, LeastNumber
    <3>3. QED
      BY <3>2
  <2> HIDE DEF longest
  <2>2. longest \in 1 .. L /\ SizeOfAll(SubSeq(msgs, longest, L)) <= Budget
    BY <2>1
  <2>3. Fit(msgs) = SubSeq(msgs, longest, L)
    BY <1>2, <1>6
  <2>4. QED
    BY <1>0, <1>3, <2>2, <2>3
<1>7. QED
  BY <1>4, <1>5, <1>6

\* A model that is shown more turns is shown each message as it is, if the other is.
LEMMA RecentForBoth ==
  ASSUME NEW msgs \in Seq(TurnSet), NEW i, HeadTurns >= RecentTurns, Recent(msgs, i, RecentTurns)
  PROVE  Recent(msgs, i, HeadTurns)
<1> DEFINE later == {j \in DOMAIN msgs : j > i /\ msgs[j].role = "assistant"}
<1>1. Len(msgs) \in Nat /\ DOMAIN msgs = 1 .. Len(msgs)
  BY LenProperties
<1>2. IsFiniteSet(1 .. Len(msgs))
  BY <1>1, FS_Interval
<1>3. IsFiniteSet(later)
  BY <1>1, <1>2, FS_Subset
<1>4. Cardinality(later) \in Nat
  BY <1>3, FS_CardinalityType
<1>5. Cardinality(later) < RecentTurns
  BY DEF Recent
<1> HIDE DEF later
<1>6. Cardinality(later) < HeadTurns
  BY <1>4, <1>5, ContextAssumption
<1>7. QED
  BY <1>6 DEF Recent, later

\* The last message is recent.
LEMMA LastIsRecent ==
  ASSUME NEW msgs \in Seq(TurnSet), RecentTurns > 0
  PROVE  Recent(msgs, Len(msgs), RecentTurns)
<1> DEFINE later == {j \in DOMAIN msgs : j > Len(msgs) /\ msgs[j].role = "assistant"}
<1>1. Len(msgs) \in Nat /\ DOMAIN msgs = 1 .. Len(msgs)
  BY LenProperties
<1>2. later = {}
  BY <1>1
<1>3. Cardinality(later) = 0
  BY <1>2, FS_EmptySet
<1>4. QED
  BY <1>3 DEF Recent

\* What both models are shown of a block.
LEMMA BlockForBoth ==
  ASSUME NEW b \in BlockSet, NEW recent \in BOOLEAN, NEW planned \in BOOLEAN
  PROVE  /\ HeadBlock(b, planned).file = Kept(b, recent).file
         /\ (recent => planned) /\ HeadBlock(b, planned).kind # "write" =>
              HeadBlock(b, planned).size >= Kept(b, recent).size
         /\ Kept(FlatBlock(b), TRUE).size = HeadBlock(b, TRUE).size
         /\ Kept(FlatBlock(b), recent).file = b.file
<1>1. /\ b.kind \in BlockKinds /\ b.file \in FileNames /\ b.size \in Nat \ {0}
      /\ b = [kind |-> b.kind, file |-> b.file, size |-> b.size, flat |-> b.flat]
  BY DEF BlockSet
<1>2. MaxResult \in Nat \ {0}
  BY ContextAssumption
<1>3. PICK d \in BlockSet : /\ d = FlatBlock(b) /\ d.kind = b.kind /\ d.file = b.file
                            /\ d.size = b.size
  BY FlatBlockIs
<1>4. d = [kind |-> d.kind, file |-> d.file, size |-> d.size, flat |-> d.flat]
  BY DEF BlockSet
<1>5. ASSUME NEW e \in BlockSet, NEW r \in BOOLEAN
      PROVE  /\ Capped(e, r).file = e.file
             /\ Capped(e, r).size =
                  IF r THEN IF e.size > MaxResult THEN MaxResult ELSE e.size ELSE 1
  <2>1. e = [kind |-> e.kind, file |-> e.file, size |-> e.size, flat |-> e.flat]
    BY DEF BlockSet
  <2>2. CASE r
    <3>0. PICK n : n = IF e.size > MaxResult THEN MaxResult ELSE e.size
      OBVIOUS
    <3>1. Capped(e, r) = [kind |-> e.kind, file |-> e.file, size |-> n, flat |-> e.flat]
      BY <2>1, <2>2, <3>0 DEF Capped
    <3>2. Capped(e, r).file = e.file /\ Capped(e, r).size = n
      BY <3>1
    <3>3. QED
      BY <2>2, <3>0, <3>2, Zenon
  <2>3. CASE ~ r
    <3>1. Capped(e, r) = [kind |-> "summary", file |-> e.file, size |-> 1, flat |-> e.flat]
      BY <2>1, <2>3 DEF Capped
    <3>2. QED
      BY <2>3, <3>1
  <2>4. QED
    BY <2>2, <2>3
<1>6. Kept(d, TRUE).size = HeadBlock(b, TRUE).size /\ Kept(d, recent).file = b.file
  <2>1. CASE b.kind = "result"
    BY <1>3, <1>5, <2>1 DEF Kept, HeadBlock
  <2>2. CASE b.kind # "result"
    BY <1>3, <2>2 DEF Kept, HeadBlock
  <2>3. QED
    BY <2>1, <2>2
<1>7. HeadBlock(b, planned).file = Kept(b, recent).file
  <2>1. CASE b.kind = "result"
    BY <1>5, <2>1 DEF Kept, HeadBlock
  <2>2. CASE b.kind # "result"
    BY <1>1, <2>2 DEF Kept, HeadBlock
  <2>3. QED
    BY <2>1, <2>2
<1>8. ASSUME recent => planned, HeadBlock(b, planned).kind # "write"
      PROVE  HeadBlock(b, planned).size >= Kept(b, recent).size
  <2>1. CASE b.kind = "result"
    BY <1>1, <1>2, <1>5, <1>8, <2>1 DEF Kept, HeadBlock
  <2>2. CASE b.kind = "write"
    <3>1. [b EXCEPT !.size = 1].kind = "write"
      BY <1>1, <2>2
    <3>2. HeadBlock(b, planned).kind = "write"
      <4>1. CASE planned
        <5>1. HeadBlock(b, planned) = b
          BY <2>2, <4>1 DEF HeadBlock
        <5>2. QED
          BY <2>2, <5>1
      <4>2. CASE ~ planned
        <5>1. HeadBlock(b, planned) = [b EXCEPT !.size = 1]
          BY <2>2, <4>2 DEF HeadBlock
        <5>2. QED
          BY <3>1, <5>1
      <4>3. QED
        BY <4>1, <4>2
    <3>3. QED
      BY <1>8, <3>2
  <2>3. CASE b.kind # "result" /\ b.kind # "write"
    BY <1>1, <2>3 DEF Kept, HeadBlock
  <2>4. QED
    BY <2>1, <2>2, <2>3
<1>9. QED
  BY <1>3, <1>6, <1>7, <1>8

-----------------------------------------------------------------------------
LEMMA HeadBlocks ==
  ASSUME NEW flat \in Seq(TurnSet), NEW n \in 1 .. Len(flat)
  PROVE  HeadCompress(flat)[n].blocks =
           [k \in DOMAIN flat[n].blocks |-> HeadBlock(flat[n].blocks[k], Recent(flat, n, HeadTurns))]
<1> DEFINE blocks == [k \in DOMAIN flat[n].blocks |->
                        HeadBlock(flat[n].blocks[k], Recent(flat, n, HeadTurns))]
<1>1. DOMAIN flat = 1 .. Len(flat)
  BY LenProperties
<1>2. HeadCompress(flat)[n] = [flat[n] EXCEPT !.blocks = blocks]
  BY <1>1 DEF HeadCompress
<1>3. PICK m \in TurnSet : m = flat[n]
  BY ElementOfSeq
<1> HIDE DEF blocks
<1>4. [m EXCEPT !.blocks = blocks].blocks = blocks
  BY <1>3 DEF TurnSet
<1>5. QED
  BY <1>2, <1>3, <1>4 DEF blocks

\* A request: what is shown is an end of what both compressions make of the history.
LEMMA ServeIs ==
  ASSUME ContextInv, Serve
  PROVE  \E flat \in Seq(TurnSet), out \in Seq(TurnSet), n \in 1 .. Len(conversation) :
           /\ Len(flat) = Len(conversation) /\ Len(out) = Len(conversation)
           /\ \A i \in 1 .. Len(conversation) :
                /\ SeenAs(flat[i], conversation[i])
                /\ Shows(out[i], flat[i], Recent(flat, i, RecentTurns))
           /\ EndsAs(coderShown', out, n)
           /\ SizeOfAll(coderShown') <= Budget \/ Len(coderShown') = 1
           /\ headShown' = HeadCompress(flat)
           /\ fileCache' \in Caches
           /\ ReadsAreAlone => Truthful(fileCache')
<1>1. /\ conversation \in Seq(TurnSet) /\ ConversationShape
      /\ fileCache \in Caches /\ turn \in Nat
      /\ ReadsAreAlone => Truthful(fileCache)
  BY DEF ContextInv, ContextTypes, ContextIsCurrent, CacheIsOfItsFiles, Truthful
<1>2. PICK L \in Nat : L = Len(conversation)
  BY <1>1, LenProperties
<1>3. L > 0
  <2>1. conversation # <<>>
    BY DEF Serve, LastSpeaker
  <2>2. QED
    BY <1>1, <1>2, <2>1, EmptySeq
<1>4. PICK flat \in Seq(TurnSet) : flat = Flatten(Gateway(conversation))
  BY <1>1, FlatHistory
<1>5. Len(flat) = L /\ \A i \in 1 .. L : SeenAs(flat[i], conversation[i])
  BY <1>1, <1>2, <1>4, FlatHistory
<1>6. PICK c : c = Compress(flat, fileCache, turn + 1)
  OBVIOUS
<1>7. turn + 1 \in Nat
  BY <1>1
<1>8. /\ c \in Accs /\ Len(c.out) = L
      /\ \A i \in 1 .. L : Shows(c.out[i], flat[i], Recent(flat, i, RecentTurns))
  BY <1>1, <1>5, <1>6, <1>7, CompressShows
<1>9. c.out \in Seq(TurnSet) /\ c.walk.cache \in Caches
  BY <1>8 DEF Accs, Walks
<1>10. ReadsAreAlone => Truthful(c.walk.cache)
  BY <1>1, <1>4, <1>6, <1>7, CompressTells
<1>11. headShown' = HeadCompress(flat) /\ fileCache' = c.walk.cache /\ coderShown' = Fit(c.out)
  BY <1>4, <1>6 DEF Serve
<1>12. c.out # <<>>
  BY <1>3, <1>8
<1>13. /\ \E n \in 1 .. L : EndsAs(Fit(c.out), c.out, n)
       /\ SizeOfAll(Fit(c.out)) <= Budget \/ Len(Fit(c.out)) = 1
  BY <1>8, <1>9, <1>12, FitIsAnEnd
<1>14. PICK out \in Seq(TurnSet) : out = c.out
  BY <1>9
<1>15. PICK n \in 1 .. L : EndsAs(coderShown', out, n)
  BY <1>11, <1>13, <1>14
<1>16. SizeOfAll(coderShown') <= Budget \/ Len(coderShown') = 1
  BY <1>11, <1>13
<1>17. \A i \in 1 .. L : SeenAs(flat[i], conversation[i]) /\ Shows(out[i], flat[i], Recent(flat, i, RecentTurns))
  BY <1>5, <1>8, <1>14
<1>18. fileCache' \in Caches /\ (ReadsAreAlone => Truthful(fileCache'))
  BY <1>9, <1>10, <1>11
<1>19. Len(flat) = L /\ Len(out) = L /\ headShown' = HeadCompress(flat)
  BY <1>5, <1>8, <1>11, <1>14
<1>20. QED
  BY <1>2, <1>15, <1>16, <1>17, <1>18, <1>19

\* A message that is a string is text, and nothing else.
LEMMA PlainIsText ==
  ASSUME conversation \in Seq(TurnSet), ConversationShape, NEW n \in DOMAIN conversation,
         conversation[n].plain
  PROVE  conversation[n].blocks = <<Text>>
<1>1. conversation[n] \in TurnSet
  BY LenProperties
<1>2. conversation[n].role \in {"user", "assistant"}
  BY <1>1 DEF TurnSet
<1>3. QED
  BY <1>2 DEF ConversationShape, FollowsOn, Calls, Says, Replies

LEMMA TextIs ==
  /\ Text \in BlockSet /\ Text.kind = "text" /\ Text.file = NoFile /\ ~ Text.flat
  /\ Attachment \in BlockSet
  /\ FileCall \subseteq BlockSet
<1>1. NoFile \in FileNames /\ \A f \in File : f \in FileNames
  BY DEF FileNames
<1>2. {"text", "other", "read", "write"} \subseteq BlockKinds
  BY DEF BlockKinds
<1>3. ASSUME NEW kind \in BlockKinds, NEW f \in FileNames, NEW n \in Nat \ {0}
      PROVE  Of(kind, f, n) \in BlockSet
  BY DEF Of, BlockSet
<1>4. Text.kind = "text" /\ Text.file = NoFile /\ ~ Text.flat
  BY DEF Text, Of
<1>5. 1 \in Nat \ {0} /\ 2 \in Nat \ {0}
  OBVIOUS
<1>6. Text \in BlockSet /\ Attachment \in BlockSet
  BY <1>1, <1>2, <1>3, <1>5 DEF Text, Attachment
<1>7. \A f \in File : Read(f) \in BlockSet /\ Write(f) \in BlockSet
  BY <1>1, <1>2, <1>3, <1>5 DEF Read, Write
<1>8. QED
  BY <1>4, <1>6, <1>7 DEF FileCall

\* What the coding model is shown of a message, the reasoning model was.
LEMMA TurnForBoth ==
  ASSUME NEW flat \in Seq(TurnSet), NEW n \in 1 .. Len(flat), NEW c, NEW m,
         SeenAs(flat[n], m), m.plain => m.blocks = <<Text>>,
         Shows(c, flat[n], Recent(flat, n, RecentTurns)), NEW k \in DOMAIN c.blocks
  PROVE  \E j \in DOMAIN HeadCompress(flat)[n].blocks :
           LET b == HeadCompress(flat)[n].blocks[j]
           IN  /\ b.file = c.blocks[k].file
               /\ HeadTurns >= RecentTurns /\ b.kind # "write" => b.size >= c.blocks[k].size
<1>1. PICK e \in TurnSet : e = flat[n]
  BY ElementOfSeq
<1>2. PICK recent \in BOOLEAN : recent = Recent(flat, n, RecentTurns)
  BY RecentIsBoolean
<1>3. PICK planned \in BOOLEAN : planned = Recent(flat, n, HeadTurns)
  BY RecentIsBoolean
<1>4. HeadTurns >= RecentTurns => (recent => planned)
  BY <1>2, <1>3, RecentForBoth
<1>5. PICK K \in Nat : K = Len(e.blocks) /\ DOMAIN e.blocks = 1 .. K
  <2>1. e.blocks \in Seq(BlockSet)
    BY DEF TurnSet
  <2>2. QED
    BY <2>1, LenProperties
<1>6. HeadCompress(flat)[n].blocks = [j \in 1 .. K |-> HeadBlock(e.blocks[j], planned)]
  BY <1>1, <1>3, <1>5, HeadBlocks
<1>7. ASSUME NEW j \in 1 .. K, NEW b \in BlockSet, b = e.blocks[j],
             c.blocks[k] = Kept(b, recent)
      PROVE  \E i \in DOMAIN HeadCompress(flat)[n].blocks :
               LET d == HeadCompress(flat)[n].blocks[i]
               IN  /\ d.file = c.blocks[k].file
                   /\ HeadTurns >= RecentTurns /\ d.kind # "write" => d.size >= c.blocks[k].size
  <2>1. HeadCompress(flat)[n].blocks[j] = HeadBlock(b, planned) /\ j \in DOMAIN HeadCompress(flat)[n].blocks
    BY <1>6, <1>7
  <2>2. /\ HeadBlock(b, planned).file = Kept(b, recent).file
        /\ (recent => planned) /\ HeadBlock(b, planned).kind # "write" =>
             HeadBlock(b, planned).size >= Kept(b, recent).size
    BY BlockForBoth
  <2>3. QED
    BY <1>4, <1>7, <2>1, <2>2
<1>8. CASE e.plain
  <2>1. c = e /\ e = m /\ m.blocks = <<Text>>
    BY <1>1, <1>8 DEF Shows, SeenAs, SameTurn
  <2>2. K = 1 /\ k = 1 /\ e.blocks[1] = Text
    BY <1>5, <2>1
  <2>3. Kept(Text, recent) = Text
    BY TextIs DEF Kept
  <2>4. c.blocks[k] = Kept(e.blocks[1], recent) /\ e.blocks[1] \in BlockSet /\ 1 \in 1 .. K
    BY <2>1, <2>2, <2>3, TextIs
  <2>5. QED
    BY <1>7, <2>4
<1>9. CASE ~ e.plain
  <2>1. PICK at : Places(at, c.blocks, e.blocks, K, recent)
    BY <1>1, <1>2, <1>5, <1>9 DEF Shows, Picks
  <2>2. at[k] \in 1 .. K /\ c.blocks[k] = Kept(e.blocks[at[k]], recent)
    BY <2>1 DEF Places
  <2>3. e.blocks[at[k]] \in BlockSet
    <3>1. e.blocks \in Seq(BlockSet)
      BY DEF TurnSet
    <3>2. QED
      BY <1>5, <2>2, <3>1, ElementOfSeq
  <2>4. QED
    BY <1>7, <2>2, <2>3
<1>10. QED
  BY <1>8, <1>9

\* And of a message that came as text blocks, the coding model is shown all of its text.
LEMMA TurnIsWhole ==
  ASSUME wire # "messages", NEW c, NEW e, NEW m \in TurnSet, NEW recent \in BOOLEAN,
         SeenAs(e, m), Shows(c, e, recent), RecentTurns > 0 => recent,
         m.plain => m.blocks = <<Text>>
  PROVE  AllText(c.blocks, m.blocks)
<1> DEFINE texts == {k \in DOMAIN m.blocks : m.blocks[k].kind # "other"}
           suits(at) ==
             /\ \A j, k \in DOMAIN c.blocks : j < k => at[j] < at[k]
             /\ \A n \in texts : \E k \in DOMAIN c.blocks : at[k] = n
             /\ \A k \in DOMAIN c.blocks :
                  /\ c.blocks[k].file = m.blocks[at[k]].file
                  /\ RecentTurns > 0 => c.blocks[k].size = HeadBlock(m.blocks[at[k]], TRUE).size
<1> SUFFICES \E at \in [DOMAIN c.blocks -> texts] : suits(at)
  BY DEF AllText
<1>1. m.plain \in BOOLEAN /\ m.blocks \in Seq(BlockSet)
  BY DEF TurnSet
<1>2. CASE m.plain
  <2>1. c.blocks = <<Text>> /\ m.blocks = <<Text>>
    BY <1>2 DEF Shows, SeenAs, SameTurn
  <2> DEFINE at == [k \in {1} |-> 1]
  <2>2. DOMAIN <<Text>> = {1} /\ <<Text>>[1] = Text
    OBVIOUS
  <2>3. texts = {1}
    BY <2>1, <2>2, TextIs
  <2>4. at \in [DOMAIN c.blocks -> texts]
    BY <2>1, <2>2, <2>3
  <2>5. HeadBlock(Text, TRUE) = Text
    BY TextIs DEF HeadBlock
  <2>6. suits(at)
    BY <2>1, <2>2, <2>3, <2>5
  <2>7. QED
    BY <2>4, <2>6
<1>3. CASE ~ m.plain
  <2>1. /\ e.plain = m.plain /\ Len(e.blocks) = Len(m.blocks)
        /\ \A k \in 1 .. Len(m.blocks) : e.blocks[k] = FlatBlock(m.blocks[k])
    BY <1>3 DEF SeenAs, SameTurn
  <2>2. PICK K \in Nat : K = Len(m.blocks) /\ DOMAIN m.blocks = 1 .. K
    BY <1>1, LenProperties
  <2>3. \A k \in 1 .. K : m.blocks[k] \in BlockSet
    BY <1>1, <2>2
  <2>4. PICK at : Places(at, c.blocks, e.blocks, K, recent)
    BY <1>3, <2>1, <2>2 DEF Shows, Picks
  <2>5. {k \in 1 .. K : e.blocks[k].flat} = texts
    <3>1. \A k \in 1 .. K : e.blocks[k].flat <=> m.blocks[k].kind # "other"
      BY <2>1, <2>2, <2>3, FlatBlockIs
    <3>2. QED
      BY <2>2, <3>1
  <2>6. at \in [DOMAIN c.blocks -> texts]
    BY <2>4, <2>5 DEF Places
  <2>7. \A j, k \in DOMAIN c.blocks : j < k => at[j] < at[k]
    BY <2>4 DEF Places
  <2>8. \A n \in texts : \E k \in DOMAIN c.blocks : at[k] = n
    <3>1. \A n \in 1 .. K : e.blocks[n].flat => \E k \in DOMAIN c.blocks : at[k] = n
      BY <2>4 DEF Places
    <3>2. \A n \in texts : n \in 1 .. K /\ e.blocks[n].flat
      BY <2>5
    <3>3. QED
      BY <3>1, <3>2
  <2>9. ASSUME NEW k \in DOMAIN c.blocks
        PROVE  /\ c.blocks[k].file = m.blocks[at[k]].file
               /\ RecentTurns > 0 => c.blocks[k].size = HeadBlock(m.blocks[at[k]], TRUE).size
    <3>1. at[k] \in 1 .. K /\ c.blocks[k] = Kept(e.blocks[at[k]], recent)
      BY <2>4 DEF Places
    <3>2. PICK b \in BlockSet : b = m.blocks[at[k]] /\ e.blocks[at[k]] = FlatBlock(b)
      BY <2>1, <2>2, <2>3, <3>1
    <3>3. Kept(FlatBlock(b), TRUE).size = HeadBlock(b, TRUE).size /\ Kept(FlatBlock(b), recent).file = b.file
      BY BlockForBoth
    <3>4. c.blocks[k].file = m.blocks[at[k]].file
      BY <3>1, <3>2, <3>3
    <3>5. ASSUME RecentTurns > 0
          PROVE  c.blocks[k].size = HeadBlock(m.blocks[at[k]], TRUE).size
      <4>1. recent = TRUE
        BY <3>5
      <4>2. QED
        BY <3>1, <3>2, <3>3, <4>1
    <3>6. QED
      BY <3>4, <3>5
  <2>10. QED
    BY <2>6, <2>7, <2>8, <2>9
<1>4. QED
  BY <1>1, <1>2, <1>3

-----------------------------------------------------------------------------
LEMMA InitContextInv == ContextInit => ContextInv
<1> SUFFICES ASSUME ContextInit
             PROVE  ContextInv
  OBVIOUS
<1>1. /\ wire \in {"messages", "responses"}
      /\ conversation = <<>> /\ fileCache = <<>> /\ turn = 0 /\ coderShown = <<>>
  BY DEF ContextInit
<1>2. <<>> \in Seq(TurnSet) /\ <<>> \in Seq(EntrySet) /\ Len(<<>>) = 0 /\ DOMAIN <<>> = {}
  OBVIOUS
<1>3. 0 <= MaxFiles
  BY ContextAssumption
<1>4. <<>> \in Caches
  BY <1>2, <1>3 DEF Caches
<1>5. ContextTypes
  BY <1>1, <1>2, <1>4 DEF ContextTypes
<1>6. ConversationShape
  BY <1>1, <1>2 DEF ConversationShape
<1>7. ShownIsTheLatest
  BY <1>1 DEF ShownIsTheLatest
<1>8. CacheIsOfItsFiles
  BY <1>1, <1>2, <1>3 DEF CacheIsOfItsFiles
<1>9. QED
  BY <1>5, <1>6, <1>7, <1>8 DEF ContextInv, ContextIsCurrent

\* A cache of its files, and one that is truthful.
LEMMA CacheFrom ==
  ASSUME fileCache \in Caches, ReadsAreAlone => Truthful(fileCache)
  PROVE  CacheIsOfItsFiles
BY DEF Caches, Truthful, CacheIsOfItsFiles

LEMMA ServeKeeps == ContextInv /\ Serve => ContextInv'
<1> SUFFICES ASSUME ContextInv, Serve
             PROVE  ContextInv'
  OBVIOUS
<1>1. /\ wire \in {"messages", "responses"} /\ wire' = wire
      /\ conversation \in Seq(TurnSet) /\ conversation' = conversation
      /\ turn' \in Nat /\ ConversationShape
  BY DEF ContextInv, ContextTypes, Serve
<1>2. PICK N \in Nat : N = Len(conversation) /\ DOMAIN conversation = 1 .. N
  BY <1>1, LenProperties
<1>s. PICK flat \in Seq(TurnSet), out \in Seq(TurnSet), n \in 1 .. Len(conversation) :
        /\ Len(flat) = Len(conversation) /\ Len(out) = Len(conversation)
        /\ \A i \in 1 .. Len(conversation) :
             /\ SeenAs(flat[i], conversation[i])
             /\ Shows(out[i], flat[i], Recent(flat, i, RecentTurns))
        /\ EndsAs(coderShown', out, n)
        /\ SizeOfAll(coderShown') <= Budget \/ Len(coderShown') = 1
        /\ headShown' = HeadCompress(flat)
        /\ fileCache' \in Caches
        /\ ReadsAreAlone => Truthful(fileCache')
  BY ServeIs
<1>3. PICK seen : seen = coderShown'
  OBVIOUS
<1>4. /\ n \in 1 .. N /\ seen \in Seq(TurnSet) /\ Len(seen) = N - n + 1
      /\ DOMAIN seen = 1 .. N - n + 1
      /\ \A i \in 1 .. N - n + 1 : seen[i] = out[n + i - 1]
  <2>1. /\ n \in 1 .. N /\ seen \in Seq(TurnSet) /\ Len(seen) = N - n + 1
        /\ \A i \in 1 .. N - n + 1 : seen[i] = out[n + i - 1]
    BY <1>2, <1>3, <1>s DEF EndsAs
  <2>2. QED
    BY <2>1, LenProperties
<1>5. \A i \in 1 .. N :
        /\ SeenAs(flat[i], conversation[i])
        /\ Shows(out[i], flat[i], Recent(flat, i, RecentTurns))
  BY <1>2, <1>s
<1>6. \A i \in 1 .. N : out[i].at = i
  <2>1. TAKE i \in 1 .. N
  <2>2. conversation[i].at = i
    BY <1>1, <1>2 DEF ConversationShape, FollowsOn
  <2>3. flat[i].at = conversation[i].at /\ out[i].at = flat[i].at
    BY <1>5 DEF SeenAs, SameTurn, Shows
  <2>4. QED
    BY <2>2, <2>3
<1>7. \A i \in 1 .. N - n + 1 : n + i - 1 \in 1 .. N
  BY <1>2, <1>4
<1>8. \A i \in 1 .. N - n + 1 : seen[i].at = n + i - 1
  BY <1>4, <1>6, <1>7
<1>9. Last(seen) = out[N] /\ Last(seen).at = N /\ N \in 1 .. N
  <2>1. N - n + 1 \in 1 .. N - n + 1 /\ n + (N - n + 1) - 1 = N /\ N \in 1 .. N
    BY <1>2, <1>4
  <2>2. Last(seen) = seen[N - n + 1]
    BY <1>4 DEF Last
  <2>3. seen[N - n + 1] = out[N]
    BY <1>4, <2>1
  <2>4. QED
    BY <1>6, <2>1, <2>2, <2>3
<1>10. \A i \in 1 .. N : conversation[i] \in TurnSet /\ (conversation[i].plain => conversation[i].blocks = <<Text>>)
  BY <1>1, <1>2, PlainIsText
<1>11. ContextTypes'
  BY <1>1, <1>2, <1>3, <1>4, <1>9, <1>s DEF ContextTypes
<1>12. ConversationShape'
  BY <1>1 DEF ConversationShape
<1>13. ShownIsTheEnd'
  <2>1. \A i \in 1 .. N - n + 1 : seen[i].at = Last(seen).at - (Len(seen) - i)
    <3>1. TAKE i \in 1 .. N - n + 1
    <3>2. n + i - 1 = N - ((N - n + 1) - i)
      BY <1>2, <1>4
    <3>3. QED
      BY <1>4, <1>8, <1>9, <3>2
  <2>2. SizeOfAll(seen) <= Budget \/ Len(seen) = 1
    BY <1>3, <1>s
  <2>3. QED
    BY <1>3, <1>4, <2>1, <2>2 DEF ShownIsTheEnd
<1>14. PlannerWasShown'
  <2>1. ASSUME NEW i \in DOMAIN seen, NEW k \in DOMAIN seen[i].blocks
        PROVE  \E j \in DOMAIN HeadCompress(flat)[seen[i].at].blocks :
                 LET b == HeadCompress(flat)[seen[i].at].blocks[j]
                 IN  /\ b.file = seen[i].blocks[k].file
                     /\ HeadTurns >= RecentTurns /\ b.kind # "write" =>
                          b.size >= seen[i].blocks[k].size
    <3>1. PICK p \in 1 .. N : p = seen[i].at /\ seen[i] = out[p]
      BY <1>4, <1>7, <1>8
    <3>2. SeenAs(flat[p], conversation[p]) /\ Shows(out[p], flat[p], Recent(flat, p, RecentTurns))
      BY <1>5
    <3>3. p \in 1 .. Len(flat)
      BY <1>2, <1>s
    <3>4. conversation[p].plain => conversation[p].blocks = <<Text>>
      BY <1>10
    <3>5. k \in DOMAIN out[p].blocks
      BY <3>1
    <3>6. \E j \in DOMAIN HeadCompress(flat)[p].blocks :
            LET b == HeadCompress(flat)[p].blocks[j]
            IN  /\ b.file = out[p].blocks[k].file
                /\ HeadTurns >= RecentTurns /\ b.kind # "write" => b.size >= out[p].blocks[k].size
      BY <3>2, <3>3, <3>4, <3>5, TurnForBoth
    <3>7. QED
      BY <3>1, <3>6
  <2>2. headShown' = HeadCompress(flat)
    BY <1>s
  <2>3. QED
    BY <1>3, <2>1, <2>2 DEF PlannerWasShown
<1>15. LastTurnIsWhole'
  <2> SUFFICES ASSUME wire' = "responses"
               PROVE  LastTurnIsWhole'
    BY DEF LastTurnIsWhole
  <2>1. PICK recent \in BOOLEAN : recent = Recent(flat, N, RecentTurns)
    BY RecentIsBoolean
  <2>2. RecentTurns > 0 => recent
    BY <1>2, <1>s, <2>1, LastIsRecent
  <2>3. PICK m \in TurnSet : m = conversation[N] /\ (m.plain => m.blocks = <<Text>>)
    BY <1>9, <1>10
  <2>4. PICK c : c = out[N]
    OBVIOUS
  <2>5. SeenAs(flat[N], m) /\ Shows(c, flat[N], recent)
    BY <1>5, <1>9, <2>1, <2>3, <2>4
  <2>6. wire # "messages"
    BY <1>1
  <2>7. AllText(c.blocks, m.blocks)
    BY <2>2, <2>3, <2>5, <2>6, TurnIsWhole
  <2>8. Last(coderShown').blocks = c.blocks /\ conversation'[Last(coderShown').at].blocks = m.blocks
    BY <1>1, <1>3, <1>9, <2>3, <2>4
  <2>9. QED
    BY <2>7, <2>8 DEF LastTurnIsWhole
<1>16. ShownIsTheLatest'
  BY <1>13, <1>14, <1>15 DEF ShownIsTheLatest
<1>17. CacheIsOfItsFiles'
  <2>1. fileCache' \in Caches /\ (ReadsAreAlone' => Truthful(fileCache'))
    BY <1>1, <1>s DEF ReadsAreAlone
  <2>2. QED
    BY <2>1 DEF CacheIsOfItsFiles, Caches, Truthful
<1>18. QED
  BY <1>11, <1>12, <1>16, <1>17 DEF ContextInv, ContextIsCurrent

\* What is said leaves what was shown as it is, and what it was shown of.
LEMMA SpeakKeeps ==
  ASSUME ContextInv, NEW m \in TurnSet,
         FollowsOn(m, Len(conversation) + 1, conversation[Len(conversation)]),
         conversation' = Append(conversation, m),
         UNCHANGED <<wire, fileCache, turn, coderShown, headShown>>
  PROVE  ContextInv'
<1>1. /\ wire' = wire /\ fileCache' = fileCache /\ turn' = turn
      /\ coderShown' = coderShown /\ headShown' = headShown
  OBVIOUS
<1>2. ContextTypes /\ ConversationShape /\ ShownIsTheLatest /\ CacheIsOfItsFiles
  BY DEF ContextInv, ContextIsCurrent
<1>3. PICK L \in Nat : L = Len(conversation) /\ DOMAIN conversation = 1 .. L
  BY <1>2, LenProperties DEF ContextTypes
<1>4. PICK longer : longer = conversation'
  OBVIOUS
<1>5. /\ longer \in Seq(TurnSet) /\ DOMAIN longer = 1 .. L + 1
      /\ \A i \in 1 .. L : longer[i] = conversation[i]
      /\ longer[L + 1] = m
  <2>1. conversation \in Seq(TurnSet)
    BY <1>2 DEF ContextTypes
  <2>2. /\ Append(conversation, m) \in Seq(TurnSet)
        /\ Len(Append(conversation, m)) = Len(conversation) + 1
        /\ \A i \in 1 .. Len(conversation) : Append(conversation, m)[i] = conversation[i]
        /\ Append(conversation, m)[Len(conversation) + 1] = m
    BY <2>1, AppendProperties
  <2>3. longer = Append(conversation, m)
    BY <1>4
  <2>4. longer \in Seq(TurnSet) /\ Len(longer) = L + 1
    BY <1>3, <2>2, <2>3
  <2>5. DOMAIN longer = 1 .. L + 1
    BY <2>4, LenProperties
  <2>6. QED
    BY <1>3, <2>2, <2>3, <2>4, <2>5
<1>6. \A i \in 1 .. L : i \in 1 .. L + 1
  BY <1>3
<1>7. ContextTypes'
  BY <1>1, <1>2, <1>3, <1>4, <1>5, <1>6 DEF ContextTypes
<1>8. ConversationShape'
  <2>1. ASSUME NEW n \in 1 .. L + 1
        PROVE  FollowsOn(longer[n], n, longer[n - 1])
    <3>1. CASE n \in 1 .. L
      <4>1. FollowsOn(conversation[n], n, conversation[n - 1])
        BY <1>2, <1>3, <3>1 DEF ConversationShape
      <4>2. CASE n > 1
        <5>1. n - 1 \in 1 .. L
          BY <1>3, <3>1, <4>2
        <5>2. QED
          BY <1>5, <3>1, <4>1, <5>1
      <4>3. CASE ~ (n > 1)
        BY <1>5, <3>1, <4>1, <4>3 DEF FollowsOn
      <4>4. QED
        BY <4>2, <4>3
    <3>2. CASE n = L + 1
      <4>1. FollowsOn(m, L + 1, conversation[L]) /\ longer[n] = m /\ n - 1 = L
        BY <1>3, <1>5, <3>2
      <4>2. CASE L > 0
        <5>1. L \in 1 .. L
          BY <1>3, <4>2
        <5>2. QED
          BY <1>5, <3>2, <4>1, <5>1
      <4>3. CASE ~ (L > 0)
        <5>1. ~ (n > 1)
          BY <1>3, <3>2, <4>3
        <5>2. QED
          BY <3>2, <4>1, <5>1 DEF FollowsOn
      <4>4. QED
        BY <4>2, <4>3
    <3>3. QED
      BY <1>3, <3>1, <3>2
  <2>2. QED
    BY <1>4, <1>5, <2>1 DEF ConversationShape
<1>9. ShownIsTheLatest'
  <2> SUFFICES ASSUME coderShown # <<>>
               PROVE  ShownIsTheEnd' /\ PlannerWasShown' /\ LastTurnIsWhole'
    BY <1>1 DEF ShownIsTheLatest
  <2>1. ShownIsTheEnd /\ PlannerWasShown /\ LastTurnIsWhole
    BY <1>2 DEF ShownIsTheLatest
  <2>2. ShownIsTheEnd'
    BY <1>1, <2>1 DEF ShownIsTheEnd
  <2>3. PlannerWasShown'
    BY <1>1, <2>1 DEF PlannerWasShown
  <2>4. Last(coderShown).at \in 1 .. L
    BY <1>2, <1>3 DEF ContextTypes
  <2>5. conversation'[Last(coderShown).at] = conversation[Last(coderShown).at]
    BY <1>4, <1>5, <2>4
  <2>6. LastTurnIsWhole'
    BY <1>1, <2>1, <2>5 DEF LastTurnIsWhole
  <2>7. QED
    BY <2>2, <2>3, <2>6
<1>10. CacheIsOfItsFiles'
  <2>1. ReadsAreAlone' => ReadsAreAlone
    <3>1. ASSUME ReadsAreAlone',
                 NEW i \in 1 .. L, NEW j \in DOMAIN conversation[i].blocks,
                 NEW k \in DOMAIN conversation[i].blocks,
                 conversation[i].blocks[j].kind = "read", IsCall(conversation[i].blocks[k])
          PROVE  j = k
      <4>1. i \in DOMAIN conversation' /\ conversation'[i] = conversation[i]
        BY <1>4, <1>5, <1>6
      <4>2. QED
        BY <3>1, <4>1 DEF ReadsAreAlone, IsCall
    <3>2. QED
      BY <1>3, <3>1 DEF ReadsAreAlone
  <2>2. QED
    BY <1>1, <1>2, <2>1 DEF CacheIsOfItsFiles
<1>11. QED
  BY <1>7, <1>8, <1>9, <1>10 DEF ContextInv, ContextIsCurrent

\* The last speaker, and the calls that its message makes.
LEMMA LastTurn ==
  ASSUME ContextInv, NEW L, L = Len(conversation), L > 0
  PROVE  LET p == conversation[L] IN
         /\ p \in TurnSet /\ p.role = LastSpeaker /\ Called = Tail(p.blocks)
         /\ p.role = "assistant" => Calls(p)
<1>1. conversation \in Seq(TurnSet) /\ ConversationShape
  BY DEF ContextInv, ContextTypes
<1>2. L \in Nat /\ L \in DOMAIN conversation /\ L \in 1 .. Len(conversation)
  BY <1>1, LenProperties
<1>3. conversation # <<>> /\ Last(conversation) = conversation[L]
  BY <1>1, <1>2 DEF Last
<1>4. conversation[L] \in TurnSet
  BY <1>1, <1>2, ElementOfSeq
<1>5. conversation[L].role = LastSpeaker /\ Called = Tail(conversation[L].blocks)
  BY <1>3 DEF LastSpeaker, Called
<1>6. conversation[L].role = "assistant" => Calls(conversation[L])
  BY <1>1, <1>2 DEF ConversationShape, FollowsOn
<1>7. QED
  BY <1>4, <1>5, <1>6

LEMMA SaidIs ==
  ASSUME NEW role \in {"user", "assistant"}, NEW blocks \in Seq(BlockSet), NEW plain \in BOOLEAN,
         conversation \in Seq(TurnSet), Speak(role, blocks, plain)
  PROVE  \E m \in TurnSet :
           /\ m.role = role /\ m.blocks = blocks /\ (m.plain <=> plain)
           /\ m.at = Len(conversation) + 1
           /\ conversation' = Append(conversation, m)
<1>1. Len(conversation) + 1 \in Nat
  BY LenProperties
<1> DEFINE m == [role |-> role, blocks |-> blocks, plain |-> plain, at |-> Len(conversation) + 1]
<1>2. m \in TurnSet
  BY <1>1 DEF TurnSet
<1>3. conversation' = Append(conversation, m)
  BY DEF Speak
<1>4. m.role = role /\ m.blocks = blocks /\ (m.plain <=> plain) /\ m.at = Len(conversation) + 1
  OBVIOUS
<1> HIDE DEF m
<1>5. QED
  BY <1>2, <1>3, <1>4

LEMMA UserSpeaksKeeps == ContextInv /\ UserSpeaks => ContextInv'
<1> SUFFICES ASSUME ContextInv, UserSpeaks
             PROVE  ContextInv'
  OBVIOUS
<1>1. conversation \in Seq(TurnSet)
  BY DEF ContextInv, ContextTypes
<1>2. PICK L \in Nat : L = Len(conversation)
  BY <1>1, LenProperties
<1>3. LastSpeaker = "assistant" /\ UNCHANGED <<wire, fileCache, turn, coderShown, headShown>>
  BY DEF UserSpeaks
<1> DEFINE p == conversation[L]
<1>4. L > 0 => p \in TurnSet /\ p.role = "assistant" /\ Calls(p) /\ Called = Tail(p.blocks)
  BY <1>2, <1>3, LastTurn
<1>5. L = 0 => Called = <<>>
  <2>1. L = 0 => conversation = <<>>
    BY <1>1, <1>2, EmptySeq
  <2>2. QED
    BY <2>1 DEF Called
<1>6. L > 0 => p.blocks \in Seq(BlockSet) /\ p.blocks # <<>>
  BY <1>4 DEF TurnSet, Calls
<1>7. ASSUME NEW m \in TurnSet, m.role = "user", m.at = L + 1,
             conversation' = Append(conversation, m),
             \/ Says(m) /\ (L > 0 => Len(p.blocks) = 1)
             \/ L > 0 /\ Replies(m, p)
      PROVE  ContextInv'
  <2>1. FollowsOn(m, L + 1, p)
    <3>1. L + 1 > 1 <=> L > 0
      BY <1>2
    <3>2. QED
      BY <1>4, <1>7, <3>1 DEF FollowsOn
  <2>2. QED
    BY <1>2, <1>3, <1>7, <2>1, SpeakKeeps
<1>8. CASE Called # <<>>
  <2>1. PICK answers \in Answers : Speak("user", answers, FALSE)
    BY <1>8 DEF UserSpeaks
  <2>2. L > 0
    BY <1>2, <1>5, <1>8
  <2>3. PICK n \in {1, MaxResult + 1} :
          answers = [k \in DOMAIN Called |->
                       Result(IF Called[k].kind = "read" THEN Called[k].file ELSE NoFile, n)]
    BY <2>1 DEF Answers
  <2>4. n \in Nat \ {0}
    BY ContextAssumption
  <2>5. PICK K \in Nat : /\ K + 1 = Len(p.blocks) /\ DOMAIN Called = 1 .. K
                         /\ \A k \in 1 .. K : Called[k] = p.blocks[k + 1]
    <3>1. Tail(p.blocks) \in Seq(BlockSet) /\ Len(Tail(p.blocks)) = Len(p.blocks) - 1
          /\ \A k \in 1 .. Len(Tail(p.blocks)) : Tail(p.blocks)[k] = p.blocks[k + 1]
      BY <1>6, <2>2, HeadTailProperties
    <3>2. Len(p.blocks) \in Nat /\ Len(Tail(p.blocks)) \in Nat
          /\ DOMAIN Tail(p.blocks) = 1 .. Len(Tail(p.blocks))
      BY <1>6, <2>2, <3>1, LenProperties
    <3>3. Called = Tail(p.blocks)
      BY <1>4, <2>2
    <3>4. QED
      BY <3>1, <3>2, <3>3
  <2>6. \A k \in 1 .. K : p.blocks[k + 1] \in BlockSet
    <3>1. \A k \in 1 .. K : k + 1 \in 1 .. Len(p.blocks)
      BY <2>5
    <3>2. QED
      BY <1>6, <2>2, <3>1, ElementOfSeq
  <2> DEFINE of(k) == IF p.blocks[k + 1].kind = "read" THEN p.blocks[k + 1].file ELSE NoFile
  <2>7. \A k \in 1 .. K : of(k) \in FileNames
    BY <2>6 DEF BlockSet, FileNames
  <2>8. answers = [k \in 1 .. K |-> Result(of(k), n)]
    BY <2>3, <2>5
  <2> HIDE DEF of
  <2>9. \A k \in 1 .. K : /\ Result(of(k), n) \in BlockSet /\ Result(of(k), n).kind = "result"
                          /\ ~ Result(of(k), n).flat /\ Result(of(k), n).file = of(k)
    <3>1. "result" \in BlockKinds
      BY DEF BlockKinds
    <3>2. QED
      BY <2>4, <2>7, <3>1 DEF Result, Of, BlockSet
  <2>10. answers \in Seq(BlockSet) /\ Len(answers) = K /\ DOMAIN answers = 1 .. K
    BY <2>8, <2>9
  <2>11. PICK m \in TurnSet :
           /\ m.role = "user" /\ m.blocks = answers /\ ~ m.plain /\ m.at = L + 1
           /\ conversation' = Append(conversation, m)
    <3>1. PICK role \in {"user", "assistant"} : role = "user"
      OBVIOUS
    <3>2. PICK plain \in BOOLEAN : plain = FALSE
      OBVIOUS
    <3>3. Speak(role, answers, plain)
      BY <2>1, <3>1, <3>2
    <3>4. \E m \in TurnSet :
            /\ m.role = role /\ m.blocks = answers /\ (m.plain <=> plain)
            /\ m.at = Len(conversation) + 1
            /\ conversation' = Append(conversation, m)
      BY <1>1, <2>10, <3>3, SaidIs
    <3>5. QED
      BY <1>2, <3>1, <3>2, <3>4
  <2>12. Replies(m, p)
    <3>1. \A k \in 1 .. K : /\ answers[k].kind = "result" /\ ~ answers[k].flat
                            /\ answers[k].file = of(k)
      BY <2>8, <2>9
    <3>2. QED
      BY <2>5, <2>10, <2>11, <3>1 DEF Replies, of
  <2>13. QED
    BY <1>7, <2>2, <2>11, <2>12
<1>9. CASE Called = <<>>
  <2>1. \/ Speak("user", <<Text>>, TRUE)
        \/ Speak("user", <<Text>>, FALSE)
        \/ Speak("user", <<Attachment, Text>>, FALSE)
    BY <1>9 DEF UserSpeaks
  <2>2. L > 0 => Len(p.blocks) = 1
    <3>1. ASSUME L > 0
          PROVE  Len(p.blocks) = 1
      <4>1. Len(Tail(p.blocks)) = Len(p.blocks) - 1 /\ Len(p.blocks) \in Nat
        BY <1>6, <3>1, HeadTailProperties, LenProperties
      <4>2. Tail(p.blocks) = <<>>
        BY <1>4, <1>9, <3>1
      <4>3. Len(<<>>) = 0
        OBVIOUS
      <4>4. Len(Tail(p.blocks)) = 0
        BY <4>2, <4>3
      <4>5. QED
        BY <4>1, <4>4
    <3>2. QED
      BY <3>1
  <2>3. <<Text>> \in Seq(BlockSet) /\ <<Attachment, Text>> \in Seq(BlockSet)
    BY TextIs
  <2>4. ASSUME NEW blocks \in Seq(BlockSet), NEW plain \in BOOLEAN, Speak("user", blocks, plain),
               blocks = <<Text>> \/ (~ plain /\ blocks = <<Attachment, Text>>)
        PROVE  ContextInv'
    <3>1. PICK m \in TurnSet :
            /\ m.role = "user" /\ m.blocks = blocks /\ (m.plain <=> plain) /\ m.at = L + 1
            /\ conversation' = Append(conversation, m)
      BY <1>1, <1>2, <2>4, SaidIs
    <3>2. Says(m)
      BY <2>4, <3>1 DEF Says
    <3>3. QED
      BY <1>7, <2>2, <3>1, <3>2
  <2>5. CASE Speak("user", <<Text>>, TRUE)
    BY <2>3, <2>4, <2>5
  <2>6. CASE Speak("user", <<Text>>, FALSE)
    BY <2>3, <2>4, <2>6
  <2>7. CASE Speak("user", <<Attachment, Text>>, FALSE)
    BY <2>3, <2>4, <2>7
  <2>8. QED
    BY <2>1, <2>5, <2>6, <2>7
<1>10. QED
  BY <1>8, <1>9

LEMMA AssistantSpeaksKeeps == ContextInv /\ AssistantSpeaks => ContextInv'
<1> SUFFICES ASSUME ContextInv, AssistantSpeaks
             PROVE  ContextInv'
  OBVIOUS
<1>1. conversation \in Seq(TurnSet)
  BY DEF ContextInv, ContextTypes
<1>2. PICK L \in Nat : L = Len(conversation)
  BY <1>1, LenProperties
<1>3. LastSpeaker = "user" /\ UNCHANGED <<wire, fileCache, turn, coderShown, headShown>>
  BY DEF AssistantSpeaks
<1>4. L > 0
  <2>1. conversation # <<>>
    BY <1>3 DEF LastSpeaker
  <2>2. QED
    BY <1>1, <1>2, <2>1, EmptySeq
<1>5. conversation[L].role = "user"
  BY <1>2, <1>3, <1>4, LastTurn
<1>6. PICK n \in 0 .. MaxCalls : \E calls \in [1 .. n -> FileCall] :
        Speak("assistant", <<Text>> \o calls, FALSE)
  BY DEF AssistantSpeaks
<1>7. PICK calls \in [1 .. n -> FileCall] : Speak("assistant", <<Text>> \o calls, FALSE)
  BY <1>6
<1>8. n \in Nat
  BY ContextAssumption
<1>9. calls \in Seq(BlockSet) /\ Len(calls) = n
  BY <1>8, TextIs
<1>10. <<Text>> \in Seq(BlockSet) /\ Len(<<Text>>) = 1 /\ <<Text>>[1] = Text
  BY TextIs
<1>11. PICK blocks : blocks = <<Text>> \o calls
  OBVIOUS
<1>12. /\ blocks \in Seq(BlockSet) /\ Len(blocks) = 1 + n
       /\ \A i \in 1 .. 1 + n : blocks[i] = IF i <= 1 THEN <<Text>>[i] ELSE calls[i - 1]
  BY <1>9, <1>10, <1>11, ConcatProperties
<1>13. blocks # <<>> /\ blocks[1] = Text /\ \A k \in 2 .. Len(blocks) : blocks[k] \in FileCall
  <2>1. blocks # <<>> /\ 1 \in 1 .. 1 + n
    BY <1>8, <1>12
  <2>2. blocks[1] = Text
    BY <1>10, <1>12, <2>1
  <2>3. ASSUME NEW k \in 2 .. 1 + n
        PROVE  blocks[k] \in FileCall
    <3>1. k \in 1 .. 1 + n /\ ~ (k <= 1) /\ k - 1 \in 1 .. n
      BY <1>8
    <3>2. blocks[k] = calls[k - 1]
      BY <1>12, <3>1
    <3>3. QED
      BY <3>1, <3>2
  <2>4. QED
    BY <1>12, <2>1, <2>2, <2>3
<1>14. PICK m \in TurnSet :
         /\ m.role = "assistant" /\ m.blocks = blocks /\ ~ m.plain /\ m.at = L + 1
         /\ conversation' = Append(conversation, m)
  <2>1. PICK role \in {"user", "assistant"} : role = "assistant"
    OBVIOUS
  <2>2. PICK plain \in BOOLEAN : plain = FALSE
    OBVIOUS
  <2>3. Speak(role, blocks, plain)
    BY <1>7, <1>11, <2>1, <2>2
  <2>4. \E m \in TurnSet :
          /\ m.role = role /\ m.blocks = blocks /\ (m.plain <=> plain)
          /\ m.at = Len(conversation) + 1
          /\ conversation' = Append(conversation, m)
    BY <1>1, <1>12, <2>3, SaidIs
  <2>5. QED
    BY <1>2, <2>1, <2>2, <2>4
<1>15. FollowsOn(m, L + 1, conversation[L])
  <2>1. Calls(m)
    BY <1>13, <1>14 DEF Calls
  <2>2. L + 1 > 1
    BY <1>2, <1>4
  <2>3. QED
    BY <1>5, <1>14, <2>1, <2>2 DEF FollowsOn
<1>16. QED
  BY <1>2, <1>3, <1>14, <1>15, SpeakKeeps

LEMMA NextContextInv == ContextInv /\ [ContextNext]_contextVars => ContextInv'
<1>1. ContextInv /\ UNCHANGED contextVars => ContextInv'
  BY DEF contextVars, ContextInv, ContextTypes, ConversationShape, ContextIsCurrent,
         ShownIsTheLatest, ShownIsTheEnd, PlannerWasShown, LastTurnIsWhole, CacheIsOfItsFiles,
         ReadsAreAlone
<1>2. QED
  BY <1>1, UserSpeaksKeeps, AssistantSpeaksKeeps, ServeKeeps DEF ContextNext

-----------------------------------------------------------------------------
\* The inductive invariant: the turns of the conversation, what was shown of it last, and a
\* cache that the walk through them leaves truthful (smart_compress_history).
THEOREM ContextInductive == ContextSpec => []ContextInv
<1>1. QED
  BY InitContextInv, NextContextInv, PTL DEF ContextSpec

\* Of a conversation of any length, with any number of calls, files and results, what the
\* coding model is shown is its end within the budget, and of its last message all the text;
\* the reasoning model was shown no less of it; and without parallel reads no file is cached
\* with what another call answered (smart_compress_history, compress_message_history,
\* fit_messages_to_budget, update_file).
THEOREM ContextIsCurrentCorrect == ContextSpec => []ContextIsCurrent
<1>1. ContextInv => ContextIsCurrent
  BY DEF ContextInv
<1>2. QED
  BY <1>1, ContextInductive, PTL

-----------------------------------------------------------------------------
(***************************************************************************)
(* ResponsesStream.  A part of the response is legal by its place, and the *)
(* slots that were added and ended so far are those of the items and of    *)
(* the items that are done.  An item that is not done is the item of one   *)
(* active block, unless the response is to fail.                           *)
(***************************************************************************)
ResponsePart ==
    [kind : {"created", "added", "delta", "done"} \cup Terminal, slot : Nat,
     output : Seq(Nat)]
Item == [kind : ItemKind, args : {"none", "partial", "whole"}, done : BOOLEAN]
AssemblerType ==
    [items : Seq(Item), active : [ActiveBlock -> Nat], provisional : BOOLEAN,
     out : Seq(ResponsePart)]

DoneItems(q) == {k \in 1 .. Len(q) : q[k].done}

\* A response that goes on, with these slots added and ended.
GoesOn(s, added, done) ==
    /\ s \in Seq(ResponsePart) /\ s # <<>>
    /\ \A k \in 1 .. Len(s) : LegalPart(s, k) /\ s[k].kind \notin Terminal
    /\ Named(s, Len(s), "added") = added
    /\ Named(s, Len(s), "done") = done

Activity(a) ==
    /\ \A b \in ActiveBlock :
         a.active[b] # 0 => a.active[b] \in 1 .. Len(a.items) /\ ~ a.items[a.active[b]].done
    /\ \A b, c \in ActiveBlock : a.active[b] = a.active[c] /\ a.active[b] # 0 => b = c

ItemsAccounted(a) ==
    \A k \in 1 .. Len(a.items) :
      IF a.items[k].done THEN ~ Invalid(a.items[k])
      ELSE a.provisional \/ \E b \in ActiveBlock : a.active[b] = k

Sound(a) ==
    /\ a \in AssemblerType
    /\ GoesOn(a.out, 1 .. Len(a.items), DoneItems(a.items))
    /\ Activity(a)
    /\ ItemsAccounted(a)

EveryBlockHasAnItem ==
    /\ given \in Seq(Input!Event) /\ IsFiniteSet(Input!Blocks(given, "open"))
    /\ Cardinality(Input!Blocks(given, "open")) = Len(items)

\* Until the response is over its assembler is sound, and then the response is faithful.
AssemblerInv ==
    /\ over \in Terminal \cup {"", "raised"}
    /\ over = "" => Sound(Assembler) /\ EveryBlockHasAnItem
    /\ over # "" => ResponseIsFaithful

LEMMA OnePart ==
    ASSUME NEW s \in Seq(ResponsePart), NEW c \in ResponsePart
    PROVE  /\ Append(s, c) \in Seq(ResponsePart) /\ Append(s, c) # <<>> /\ Len(s) \in Nat
           /\ Len(Append(s, c)) = Len(s) + 1 /\ Append(s, c)[Len(s) + 1] = c
           /\ \A k \in 1 .. Len(s) : Append(s, c)[k] = s[k]
           /\ \A k \in 1 .. Len(s) + 1 : k \in 1 .. Len(s) \/ k = Len(s) + 1
           /\ (Len(s) + 1) - 1 = Len(s)
<1>1. Len(s) \in Nat /\ Len(Append(s, c)) = Len(s) + 1 /\ Append(s, c) \in Seq(ResponsePart)
  BY LenProperties, AppendProperties
<1>2. /\ (Len(s) + 1) - 1 = Len(s) /\ Len(s) + 1 # 0
      /\ \A k \in 1 .. Len(s) + 1 : k \in 1 .. Len(s) \/ k = Len(s) + 1
  BY <1>1
<1> QED BY <1>1, <1>2, AppendProperties, EmptySeq

\* What was sent stays what it was.
LEMMA NamedBefore ==
    ASSUME NEW s, NEW t, NEW n \in Nat, \A k \in 1 .. n : t[k] = s[k]
    PROVE  /\ \A kind : Named(t, n, kind) = Named(s, n, kind)
           /\ \A k \in 1 .. n : LegalPart(s, k) => LegalPart(t, k)
<1>1. ASSUME NEW m \in Nat, m <= n, NEW kind
      PROVE  Named(t, m, kind) = Named(s, m, kind)
  <2>1. \A i \in 1 .. m : t[i] = s[i]
    BY <1>1
  <2>2. {j \in 1 .. m : t[j].kind = kind} = {j \in 1 .. m : s[j].kind = kind}
    BY <2>1
  <2> QED BY <2>1, <2>2 DEF Named
<1>2. ASSUME NEW k \in 1 .. n, LegalPart(s, k) PROVE LegalPart(t, k)
  <2>1. k - 1 \in Nat /\ k - 1 <= n /\ \A i \in 1 .. k - 1 : i \in 1 .. n
    OBVIOUS
  <2>2. /\ Named(t, k - 1, "added") = Named(s, k - 1, "added")
        /\ Named(t, k - 1, "done") = Named(s, k - 1, "done")
    BY <1>1, <2>1
  <2>3. t[k] = s[k] /\ \A i \in 1 .. k - 1 : t[i] = s[i]
    BY <2>1
  <2> QED BY <1>2, <2>2, <2>3 DEF LegalPart
<1> QED BY <1>1, <1>2

LEMMA NamedNext ==
    ASSUME NEW s, NEW n \in Nat, NEW kind
    PROVE  Named(s, n + 1, kind) =
             Named(s, n, kind) \cup (IF s[n + 1].kind = kind THEN {s[n + 1].slot} ELSE {})
<1>1. 1 .. n + 1 = (1 .. n) \cup {n + 1}
  OBVIOUS
<1>2. {j \in 1 .. n + 1 : s[j].kind = kind} =
        {j \in 1 .. n : s[j].kind = kind} \cup (IF s[n + 1].kind = kind THEN {n + 1} ELSE {})
  BY <1>1
<1> QED BY <1>2 DEF Named

\* The response goes on with one more event.
LEMMA GoesOnWith ==
    ASSUME NEW s, NEW added, NEW done, GoesOn(s, added, done),
           NEW c \in ResponsePart,
           \/ c.kind = "added" /\ c.slot = Cardinality(added) + 1
           \/ c.kind = "delta" /\ c.slot \in added \ done
    PROVE  GoesOn(Append(s, c), IF c.kind = "added" THEN added \cup {c.slot} ELSE added, done)
<1> DEFINE t == Append(s, c)
           n == Len(s)
<1>1. /\ s \in Seq(ResponsePart) /\ s # <<>>
      /\ \A k \in 1 .. n : LegalPart(s, k) /\ s[k].kind \notin Terminal
      /\ Named(s, n, "added") = added /\ Named(s, n, "done") = done
  BY DEF GoesOn
<1>2. /\ t \in Seq(ResponsePart) /\ t # <<>> /\ n \in Nat
      /\ Len(t) = n + 1 /\ t[n + 1] = c
      /\ \A k \in 1 .. n : t[k] = s[k]
      /\ \A k \in 1 .. n + 1 : k \in 1 .. n \/ k = n + 1
      /\ (n + 1) - 1 = n
  BY <1>1, OnePart
<1> HIDE DEF t
<1>3. /\ \A kind : Named(t, n, kind) = Named(s, n, kind)
      /\ \A k \in 1 .. n : LegalPart(s, k) => LegalPart(t, k)
  BY <1>2, NamedBefore
<1>4. c.kind \notin Terminal /\ c.kind # "created" /\ c.kind # "completed" /\ c.kind # "done"
  BY DEF Terminal
<1>5. n + 1 # 1
  BY <1>1, <1>2, EmptySeq
<1>6. LegalPart(t, n + 1)
  <2>1. Named(t, (n + 1) - 1, "added") = added /\ Named(t, (n + 1) - 1, "done") = done
    BY <1>1, <1>2, <1>3
  <2>2. \A i \in 1 .. (n + 1) - 1 : t[i].kind \notin Terminal
    BY <1>1, <1>2
  <2> HIDE DEF n
  <2> QED BY <1>2, <1>4, <1>5, <2>1, <2>2 DEF LegalPart
<1>7. /\ Named(t, n + 1, "added") = IF c.kind = "added" THEN added \cup {c.slot} ELSE added
      /\ Named(t, n + 1, "done") = done
  <2> HIDE DEF n
  <2>1. \A kind : Named(t, n + 1, kind) =
          Named(t, n, kind) \cup (IF t[n + 1].kind = kind THEN {t[n + 1].slot} ELSE {})
    <3>1. n \in Nat
      BY <1>2
    <3> QED BY <3>1, NamedNext, Zenon
  <2>2. Named(t, n, "added") = added /\ Named(t, n, "done") = done
    BY <1>1, <1>3 DEF n
  <2>3. Named(t, n + 1, "done") = done \cup (IF c.kind = "done" THEN {c.slot} ELSE {})
    BY <1>2, <2>1, <2>2
  <2>4. Named(t, n + 1, "added") = added \cup (IF c.kind = "added" THEN {c.slot} ELSE {})
    BY <1>2, <2>1, <2>2
  <2> QED BY <1>4, <2>3, <2>4
<1>8. \A k \in 1 .. n + 1 : LegalPart(t, k) /\ t[k].kind \notin Terminal
  <2> HIDE DEF n
  <2> QED BY <1>1, <1>2, <1>3, <1>4, <1>6
<1> HIDE DEF n
<1> QED BY <1>2, <1>7, <1>8 DEF GoesOn, t

\* The ends of several items.
Ends(order) == [i \in DOMAIN order |-> Part("done", order[i])]

LEMMA GoesOnWithEnds ==
    ASSUME NEW s, NEW added \in SUBSET Nat, NEW done, GoesOn(s, added, done),
           NEW S \in SUBSET (added \ done), IsFiniteSet(S)
    PROVE  GoesOn(s \o Ends(InOrder(S)), added, done \cup S)
<1> DEFINE o == InOrder(S)
           q == Ends(o)
           t == s \o q
           n == Len(s)
           m == Cardinality(S)
<1>1. /\ s \in Seq(ResponsePart) /\ s # <<>>
      /\ \A k \in 1 .. n : LegalPart(s, k) /\ s[k].kind \notin Terminal
      /\ Named(s, n, "added") = added /\ Named(s, n, "done") = done
  BY DEF GoesOn
<1>2. /\ DOMAIN o = 1 .. m /\ m \in Nat
      /\ \A i \in 1 .. m : o[i] \in S
      /\ \A i, j \in 1 .. m : o[i] = o[j] => i = j
      /\ \A b \in S : \E i \in 1 .. m : o[i] = b
  <2>1. S \in SUBSET Nat
    OBVIOUS
  <2> HIDE DEF o
  <2> QED BY <2>1, InOrderLists DEF o
<1> HIDE DEF m, o
<1>3. /\ q = [i \in 1 .. m |-> Part("done", o[i])]
      /\ \A i \in 1 .. m : q[i].kind = "done" /\ q[i].slot = o[i]
  BY <1>2 DEF Ends, Part
<1>4. q \in Seq(ResponsePart) /\ Len(q) = m
  <2>1. \A i \in 1 .. m : Part("done", o[i]) \in ResponsePart
    <3>1. <<>> \in Seq(Nat)
      BY EmptySeq
    <3>2. \A i \in 1 .. m : o[i] \in Nat
      BY <1>2
    <3> QED BY <3>1, <3>2 DEF Part, ResponsePart
  <2>2. q \in Seq(ResponsePart)
    BY <1>2, <1>3, <2>1, IsASeq
  <2>3. DOMAIN q = 1 .. m
    BY <1>3
  <2> QED BY <1>2, <2>2, <2>3, LenProperties
<1> HIDE DEF q
<1>5. n \in Nat /\ n # 0
  BY <1>1, EmptySeq, LenProperties
<1>6. /\ t \in Seq(ResponsePart) /\ Len(t) = n + m
      /\ \A i \in 1 .. n + m : t[i] = IF i <= n THEN s[i] ELSE q[i - n]
  <2>1. /\ s \o q \in Seq(ResponsePart) /\ Len(s \o q) = Len(s) + Len(q)
        /\ \A i \in 1 .. Len(s) + Len(q) :
             (s \o q)[i] = IF i <= Len(s) THEN s[i] ELSE q[i - Len(s)]
    BY <1>1, <1>4, ConcatProperties
  <2>2. Len(q) = m
    BY <1>4
  <2> QED BY <2>1, <2>2, Zenon
<1> HIDE DEF t, n
<1>7. \A k \in 1 .. n : t[k] = s[k]
  BY <1>2, <1>5, <1>6
<1>8. \A i \in 1 .. m : t[n + i].kind = "done" /\ t[n + i].slot = o[i]
  <2> SUFFICES ASSUME NEW i \in 1 .. m PROVE t[n + i].kind = "done" /\ t[n + i].slot = o[i]
      OBVIOUS
  <2>1. n + i \in 1 .. n + m /\ ~ (n + i <= n) /\ (n + i) - n = i
    BY <1>2, <1>5
  <2>2. t[n + i] = q[i]
    BY <1>6, <2>1
  <2> QED BY <1>3, <2>2
<1>9. /\ \A kind : Named(t, n, kind) = Named(s, n, kind)
      /\ \A k \in 1 .. n : LegalPart(s, k) => LegalPart(t, k)
  BY <1>5, <1>7, NamedBefore
<1>10. ASSUME NEW i \in 0 .. m
       PROVE  /\ Named(t, n + i, "added") = added
              /\ Named(t, n + i, "done") = done \cup {o[j] : j \in 1 .. i}
  <2>1. \A k \in 1 .. n + i : k \in 1 .. n \/ k - n \in 1 .. i
    BY <1>5
  <2>2. \A k \in 1 .. n + i : k - n \in 1 .. i => k = n + (k - n)
    BY <1>5
  <2>3. \A j \in 1 .. i : n + j \in 1 .. n + i /\ j \in 1 .. m
    BY <1>2, <1>5
  <2>4. \A k \in 1 .. n : k \in 1 .. n + i
    BY <1>5
  <2>5. ASSUME NEW x PROVE x \in Named(t, n + i, "added") <=> x \in Named(t, n, "added")
    <3>1. \A k \in 1 .. n + i : t[k].kind = "added" => k \in 1 .. n
      BY <1>8, <2>1, <2>2, <2>3
    <3> QED BY <2>4, <3>1 DEF Named
  <2>6. ASSUME NEW x
        PROVE  x \in Named(t, n + i, "done") <=>
                 x \in Named(t, n, "done") \/ \E j \in 1 .. i : x = o[j]
    <3>1. ASSUME x \in Named(t, n + i, "done")
          PROVE  x \in Named(t, n, "done") \/ \E j \in 1 .. i : x = o[j]
      <4>1. PICK k \in 1 .. n + i : t[k].kind = "done" /\ x = t[k].slot
        BY <3>1 DEF Named
      <4>2. CASE k \in 1 .. n
        BY <4>1, <4>2 DEF Named
      <4>3. CASE k - n \in 1 .. i
        BY <1>8, <2>2, <2>3, <4>1, <4>3
      <4> QED BY <2>1, <4>2, <4>3
    <3>2. ASSUME NEW j \in 1 .. i, x = o[j] PROVE x \in Named(t, n + i, "done")
      <4>1. n + j \in 1 .. n + i /\ t[n + j].kind = "done" /\ t[n + j].slot = x
        BY <1>8, <2>3, <3>2
      <4> QED BY <4>1 DEF Named
    <3>3. ASSUME x \in Named(t, n, "done") PROVE x \in Named(t, n + i, "done")
      BY <2>4, <3>3 DEF Named
    <3> QED BY <3>1, <3>2, <3>3
  <2>7. Named(t, n, "added") = added /\ Named(t, n, "done") = done
    BY <1>1, <1>9
  <2>8. Named(t, n + i, "added") = added
    BY <2>5, <2>7
  <2>9. \A x : x \in Named(t, n + i, "done") <=> x \in done \cup {o[j] : j \in 1 .. i}
    BY <2>6, <2>7
  <2> QED BY <2>8, <2>9
<1>11. ASSUME NEW i \in 1 .. m PROVE LegalPart(t, n + i) /\ t[n + i].kind \notin Terminal
  <2>1. i - 1 \in 0 .. m /\ (n + i) - 1 = n + (i - 1) /\ n + i # 1
    BY <1>2, <1>5
  <2>2. /\ Named(t, (n + i) - 1, "added") = added
        /\ Named(t, (n + i) - 1, "done") = done \cup {o[j] : j \in 1 .. i - 1}
    BY <1>10, <2>1
  <2>3. t[n + i].kind = "done" /\ t[n + i].slot = o[i]
    BY <1>8
  <2>4. o[i] \in added \ (done \cup {o[j] : j \in 1 .. i - 1})
    <3>1. o[i] \in added /\ o[i] \notin done
      BY <1>2
    <3>2. \A j \in 1 .. i - 1 : j \in 1 .. m /\ j # i
      BY <1>2
    <3>3. \A j \in 1 .. i - 1 : o[j] # o[i]
      BY <1>2, <3>2
    <3> QED BY <3>1, <3>3
  <2>5. \A k \in 1 .. (n + i) - 1 : t[k].kind \notin Terminal
    <3>1. \A k \in 1 .. (n + i) - 1 : k \in 1 .. n \/ (k - n \in 1 .. m /\ k = n + (k - n))
      BY <1>2, <1>5
    <3>2. \A k \in 1 .. n : t[k].kind \notin Terminal
      BY <1>1, <1>7 DEF n
    <3> QED BY <1>8, <3>1, <3>2 DEF Terminal
  <2> QED BY <2>5, <2>1, <2>4, <2>3, <2>2 DEF LegalPart, Terminal
<1>12. \A k \in 1 .. n + m : LegalPart(t, k) /\ t[k].kind \notin Terminal
  <2>1. \A k \in 1 .. n + m : k \in 1 .. n \/ (k - n \in 1 .. m /\ k = n + (k - n))
    BY <1>2, <1>5
  <2>2. \A k \in 1 .. n : LegalPart(t, k) /\ t[k].kind \notin Terminal
    BY <1>1, <1>7, <1>9 DEF n
  <2> QED BY <1>11, <2>1, <2>2
<1>13. {o[j] : j \in 1 .. m} = S
  <2>1. \A j \in 1 .. m : o[j] \in S
    BY <1>2
  <2>2. \A b \in S : \E j \in 1 .. m : o[j] = b
    BY <1>2
  <2> QED BY <2>1, <2>2
<1>14. Named(t, n + m, "added") = added /\ Named(t, n + m, "done") = done \cup S
  BY <1>2, <1>10, <1>13
<1>15. t # <<>>
  BY <1>2, <1>5, <1>6, EmptySeq
<1> QED BY <1>6, <1>12, <1>14, <1>15 DEF GoesOn, t, q, o

LEMMA AssemblerFacts ==
    ASSUME NEW a \in AssemblerType
    PROVE  /\ a.items \in Seq(Item) /\ Len(a.items) \in Nat
           /\ a.active \in [ActiveBlock -> Nat]
           /\ a.provisional \in BOOLEAN /\ a.out \in Seq(ResponsePart)
           /\ DOMAIN a.items = 1 .. Len(a.items)
           /\ \A k \in 1 .. Len(a.items) :
                a.items[k] \in Item /\ a.items[k].done \in BOOLEAN
<1>1. a.items \in Seq(Item)
  BY DEF AssemblerType
<1>2. \A k \in 1 .. Len(a.items) : a.items[k] \in Item
  BY <1>1, ElementOfSeq
<1>3. \A item \in Item : item.done \in BOOLEAN
  BY DEF Item
<1> QED BY <1>1, <1>2, <1>3, LenProperties DEF AssemblerType

\* What the end of some blocks does to the items.
ItemsEnded(q, r, done) ==
    /\ r \in Seq(Item) /\ Len(r) = Len(q) /\ Len(q) \in Nat
    /\ \A k \in 1 .. Len(q) :
         /\ r[k].kind = q[k].kind /\ r[k].args = q[k].args
         /\ r[k].done <=> q[k].done \/ k \in done

LEMMA ItemsEnd ==
    ASSUME NEW a \in AssemblerType, NEW done
    PROVE  ItemsEnded(a.items,
             [k \in DOMAIN a.items |-> [a.items[k] EXCEPT !.done = @ \/ k \in done]], done)
<1> DEFINE q == a.items
           r == [k \in DOMAIN a.items |-> [a.items[k] EXCEPT !.done = @ \/ k \in done]]
<1>1. /\ q \in Seq(Item) /\ Len(q) \in Nat /\ DOMAIN q = 1 .. Len(q)
      /\ \A k \in 1 .. Len(q) : q[k] \in Item
  BY AssemblerFacts
<1> HIDE DEF q
<1>2. \A item \in Item, v \in BOOLEAN :
        LET i == [item EXCEPT !.done = @ \/ v]
        IN  i \in Item /\ i.kind = item.kind /\ i.args = item.args /\ (i.done <=> item.done \/ v)
  BY DEF Item
<1>3. r = [k \in 1 .. Len(q) |-> [q[k] EXCEPT !.done = @ \/ k \in done]]
  BY <1>1 DEF q
<1> HIDE DEF r
<1>4. ASSUME NEW k \in 1 .. Len(q)
      PROVE  /\ r[k] \in Item
             /\ r[k].kind = q[k].kind /\ r[k].args = q[k].args
             /\ r[k].done <=> q[k].done \/ k \in done
  <2>1. (k \in done) \in BOOLEAN
    OBVIOUS
  <2>2. r[k] = [q[k] EXCEPT !.done = @ \/ k \in done]
    BY <1>3
  <2>3. PICK v \in BOOLEAN : v = (k \in done)
    BY <2>1
  <2>4. r[k] = [q[k] EXCEPT !.done = @ \/ v] /\ q[k] \in Item /\ (v <=> k \in done)
    BY <1>1, <2>2, <2>3
  <2>5. /\ r[k] \in Item /\ r[k].kind = q[k].kind /\ r[k].args = q[k].args
        /\ r[k].done <=> q[k].done \/ v
    BY <1>2, <2>4
  <2> QED BY <2>4, <2>5
<1>5. r \in Seq(Item) /\ Len(r) = Len(q)
  <2>1. DOMAIN r = 1 .. Len(q)
    BY <1>3
  <2>2. r \in [1 .. Len(q) -> Item]
    BY <1>3, <1>4
  <2>3. r \in Seq(Item)
    BY <1>1, <2>2, SeqDef
  <2> QED BY <1>1, <2>1, <2>3, LenProperties
<1> QED BY <1>1, <1>4, <1>5 DEF ItemsEnded, r, q

\* Ending some blocks leaves the assembler sound, and them no longer active.
BlocksEnded(a, m, blocks) ==
    /\ Sound(m) /\ Len(m.items) = Len(a.items)
    /\ \A b \in blocks : m.active[b] = 0

LEMMA CompleteBlocksKeeps ==
    ASSUME NEW a, Sound(a), NEW blocks \in SUBSET ActiveBlock
    PROVE  BlocksEnded(a, CompleteBlocks(a, blocks), blocks)
<1> DEFINE m     == CompleteBlocks(a, blocks)
           slots == Slots(a, blocks)
           done  == {k \in slots : ~ Invalid(a.items[k])}
           n     == Len(a.items)
<1>1. /\ a \in AssemblerType /\ GoesOn(a.out, 1 .. n, DoneItems(a.items))
      /\ Activity(a) /\ ItemsAccounted(a)
  BY DEF Sound
<1>2. /\ a.items \in Seq(Item) /\ n \in Nat /\ a.active \in [ActiveBlock -> Nat]
      /\ a.provisional \in BOOLEAN /\ a.out \in Seq(ResponsePart)
      /\ \A k \in 1 .. n : a.items[k].done \in BOOLEAN
  BY <1>1, AssemblerFacts
<1>3. /\ ItemsEnded(a.items, m.items, done)
      /\ m.active = [b \in ActiveBlock |-> IF b \in blocks THEN 0 ELSE a.active[b]]
      /\ m.provisional = (a.provisional \/ done # slots)
      /\ m.out = a.out \o Ends(InOrder(done))
      /\ m = [items |-> m.items, active |-> m.active, provisional |-> m.provisional, out |-> m.out]
  <2>1. m = Completed(a, blocks, slots, done)
    BY DEF CompleteBlocks
  <2> HIDE DEF slots, done
  <2>2. /\ m.items = [k \in DOMAIN a.items |-> [a.items[k] EXCEPT !.done = @ \/ k \in done]]
        /\ m.active = [b \in ActiveBlock |-> IF b \in blocks THEN 0 ELSE a.active[b]]
        /\ m.provisional = (a.provisional \/ done # slots)
        /\ m.out = a.out \o Ends(InOrder(done))
        /\ m = [items |-> m.items, active |-> m.active, provisional |-> m.provisional,
                out |-> m.out]
    BY <2>1 DEF Completed, Ends
  <2>3. ItemsEnded(a.items, m.items, done)
    <3> HIDE DEF m
    <3> QED BY <1>1, <2>2, ItemsEnd
  <2> QED BY <2>2, <2>3
<1>4. /\ \A k : k \in slots <=> k # 0 /\ \E b \in blocks : a.active[b] = k
      /\ done \in SUBSET slots
      /\ \A k \in slots : k \in done <=> ~ Invalid(a.items[k])
  BY DEF Slots
<1> HIDE DEF m, slots, done, n
<1>5. \A k \in slots : k \in 1 .. n /\ ~ a.items[k].done
  BY <1>1, <1>4 DEF Activity, n
<1>6. done \in SUBSET ((1 .. n) \ DoneItems(a.items)) /\ IsFiniteSet(done)
  <2>1. done \in SUBSET ((1 .. n) \ DoneItems(a.items))
    BY <1>4, <1>5 DEF DoneItems
  <2>2. IsFiniteSet(1 .. n)
    BY <1>2, FS_Interval
  <2> QED BY <2>1, <2>2, FS_Subset
<1>7. /\ m.items \in Seq(Item) /\ Len(m.items) = n
      /\ \A k \in 1 .. n :
           /\ m.items[k].kind = a.items[k].kind /\ m.items[k].args = a.items[k].args
           /\ m.items[k].done <=> a.items[k].done \/ k \in done
           /\ Invalid(m.items[k]) <=> Invalid(a.items[k])
  BY <1>3 DEF ItemsEnded, Invalid, n
<1>8. DoneItems(m.items) = DoneItems(a.items) \cup done
  <2>1. \A k : k \in DoneItems(m.items) <=> k \in 1 .. n /\ (a.items[k].done \/ k \in done)
    BY <1>7 DEF DoneItems
  <2>2. \A k : k \in DoneItems(a.items) <=> k \in 1 .. n /\ a.items[k].done
    BY DEF DoneItems, n
  <2>3. \A k \in done : k \in 1 .. n
    BY <1>6
  <2> QED BY <2>1, <2>2, <2>3
<1>9. GoesOn(m.out, 1 .. Len(m.items), DoneItems(m.items))
  <2>1. 1 .. n \in SUBSET Nat
    BY <1>2
  <2>2. GoesOn(a.out \o Ends(InOrder(done)), 1 .. n, DoneItems(a.items) \cup done)
    BY <1>1, <1>6, <2>1, GoesOnWithEnds
  <2> QED BY <1>3, <1>7, <1>8, <2>2
<1>10. m \in AssemblerType
  <2>1. m.active \in [ActiveBlock -> Nat]
    BY <1>2, <1>3
  <2>2. m.provisional \in BOOLEAN
    BY <1>3
  <2>3. m.out \in Seq(ResponsePart)
    BY <1>9 DEF GoesOn
  <2> QED BY <1>3, <1>7, <2>1, <2>2, <2>3 DEF AssemblerType
<1>11. /\ \A b \in blocks : m.active[b] = 0
       /\ \A b \in ActiveBlock \ blocks : m.active[b] = a.active[b]
  BY <1>3
<1>12. Activity(m)
  <2>1. ASSUME NEW b \in ActiveBlock, m.active[b] # 0
        PROVE  m.active[b] \in 1 .. Len(m.items) /\ ~ m.items[m.active[b]].done
    <3>1. b \notin blocks /\ m.active[b] = a.active[b]
      BY <1>11, <2>1
    <3>2. a.active[b] \in 1 .. n /\ ~ a.items[a.active[b]].done
      BY <1>1, <2>1, <3>1 DEF Activity, n
    <3>3. a.active[b] \notin slots
      BY <1>1, <1>4, <2>1, <3>1 DEF Activity
    <3> QED BY <1>4, <1>7, <3>1, <3>2, <3>3
  <2>2. ASSUME NEW b \in ActiveBlock, NEW c \in ActiveBlock,
               m.active[b] = m.active[c], m.active[b] # 0
        PROVE  b = c
    BY <1>1, <1>11, <2>2 DEF Activity
  <2> QED BY <2>1, <2>2 DEF Activity
<1>13. ItemsAccounted(m)
  <2> SUFFICES ASSUME NEW k \in 1 .. n
               PROVE  IF m.items[k].done THEN ~ Invalid(m.items[k])
                      ELSE m.provisional \/ \E b \in ActiveBlock : m.active[b] = k
      BY <1>7 DEF ItemsAccounted
  <2>1. IF a.items[k].done THEN ~ Invalid(a.items[k])
        ELSE a.provisional \/ \E b \in ActiveBlock : a.active[b] = k
    BY <1>1 DEF ItemsAccounted, n
  <2>2. CASE m.items[k].done
    <3>1. a.items[k].done \/ k \in done
      BY <1>7, <2>2
    <3>2. ~ Invalid(a.items[k])
      BY <1>4, <2>1, <3>1
    <3> QED BY <1>7, <2>2, <3>2
  <2>3. CASE ~ m.items[k].done
    <3>1. ~ a.items[k].done /\ k \notin done
      BY <1>7, <2>3
    <3>2. CASE a.provisional
      BY <1>3, <2>3, <3>2
    <3>3. ASSUME NEW b \in ActiveBlock, a.active[b] = k
          PROVE  m.provisional \/ \E c \in ActiveBlock : m.active[c] = k
      <4>1. CASE b \in blocks
        <5>1. k # 0
          BY <1>2
        <5>2. k \in slots
          BY <1>4, <3>3, <4>1, <5>1
        <5> QED BY <1>3, <3>1, <5>2
      <4>2. CASE b \notin blocks
        BY <1>11, <3>3, <4>2
      <4> QED BY <4>1, <4>2
    <3> QED BY <2>1, <2>3, <3>1, <3>2, <3>3
  <2> QED BY <2>2, <2>3
<1> QED BY <1>7, <1>9, <1>10, <1>11, <1>12, <1>13 DEF BlocksEnded, Sound, n, m

\* An assembler whose parts are known.
LEMMA SoundFacts ==
    ASSUME NEW a, Sound(a)
    PROVE  /\ a \in AssemblerType /\ Len(a.items) \in Nat
           /\ a.items \in Seq(Item) /\ a.active \in [ActiveBlock -> Nat]
           /\ a.provisional \in BOOLEAN /\ a.out \in Seq(ResponsePart) /\ a.out # <<>>
           /\ a = [items |-> a.items, active |-> a.active, provisional |-> a.provisional,
                   out |-> a.out]
<1>1. a \in AssemblerType /\ a.out # <<>>
  BY DEF Sound, GoesOn
<1>2. a = [items |-> a.items, active |-> a.active, provisional |-> a.provisional, out |-> a.out]
  BY <1>1 DEF AssemblerType
<1> QED BY <1>1, <1>2, AssemblerFacts

LEMMA PartIs ==
    ASSUME NEW kind \in {"created", "added", "delta", "done"}, NEW slot \in Nat
    PROVE  Part(kind, slot) \in ResponsePart
           /\ Part(kind, slot).kind = kind /\ Part(kind, slot).slot = slot
<1>1. <<>> \in Seq(Nat)
  BY EmptySeq
<1> QED BY <1>1 DEF Part, ResponsePart

LEMMA StartItemKeeps ==
    ASSUME NEW a, Sound(a), NEW b \in ActiveBlock, NEW kind \in ItemKind
    PROVE  Sound(StartItem(a, b, kind)) /\ Len(StartItem(a, b, kind).items) = Len(a.items) + 1
<1> DEFINE r == StartItem(a, b, kind)
           new == [kind |-> kind, args |-> "none", done |-> FALSE]
<1>1. PICK m : m = CompleteBlocks(a, {b})
  OBVIOUS
<1>2. PICK n : n = Len(m.items)
  OBVIOUS
<1>3. Sound(m) /\ n = Len(a.items) /\ m.active[b] = 0
  <2>1. BlocksEnded(a, m, {b})
    BY <1>1, CompleteBlocksKeeps
  <2> QED BY <1>2, <2>1 DEF BlocksEnded
<1>4. /\ m \in AssemblerType /\ n \in Nat
      /\ m.items \in Seq(Item) /\ m.active \in [ActiveBlock -> Nat]
      /\ m.provisional \in BOOLEAN /\ m.out \in Seq(ResponsePart) /\ m.out # <<>>
      /\ m = [items |-> m.items, active |-> m.active, provisional |-> m.provisional,
              out |-> m.out]
  BY <1>2, <1>3, SoundFacts
<1>5. r = [items |-> Append(m.items, new), active |-> [m.active EXCEPT ![b] = n + 1],
           provisional |-> m.provisional, out |-> Append(m.out, Part("added", n + 1))]
  BY <1>1, <1>2 DEF StartItem
<1>6. /\ r.items = Append(m.items, new) /\ r.active = [m.active EXCEPT ![b] = n + 1]
      /\ r.provisional = m.provisional /\ r.out = Append(m.out, Part("added", n + 1))
      /\ r = [items |-> r.items, active |-> r.active, provisional |-> r.provisional,
              out |-> r.out]
  <2> HIDE DEF r, new
  <2> QED BY <1>5
<1> HIDE DEF r
<1>7. new \in Item /\ new.done = FALSE
  BY DEF Item
<1>8. /\ r.items \in Seq(Item) /\ Len(r.items) = n + 1 /\ r.items[n + 1] = new
      /\ \A k \in 1 .. n : r.items[k] = m.items[k]
      /\ \A k \in 1 .. n + 1 : k \in 1 .. n \/ k = n + 1
  <2> HIDE DEF new
  <2>1. \A k \in 1 .. n + 1 : k \in 1 .. n \/ k = n + 1
    BY <1>4
  <2> QED BY <1>2, <1>4, <1>6, <1>7, <2>1, AppendProperties
<1> HIDE DEF new
<1>9. DoneItems(r.items) = DoneItems(m.items)
  <2>1. \A k : k \in DoneItems(r.items) <=> k \in 1 .. n + 1 /\ r.items[k].done
    BY <1>8 DEF DoneItems
  <2>2. \A k : k \in DoneItems(m.items) <=> k \in 1 .. n /\ m.items[k].done
    BY <1>2 DEF DoneItems
  <2>3. \A k \in 1 .. n : k \in 1 .. n + 1
    BY <1>4
  <2> QED BY <1>7, <1>8, <2>1, <2>2, <2>3
<1>10. GoesOn(r.out, 1 .. n + 1, DoneItems(r.items))
  <2>1. Part("added", n + 1) \in ResponsePart
        /\ Part("added", n + 1).kind = "added" /\ Part("added", n + 1).slot = n + 1
    BY <1>4, PartIs
  <2>2. GoesOn(m.out, 1 .. n, DoneItems(m.items))
    BY <1>2, <1>3 DEF Sound
  <2>3. Cardinality(1 .. n) = n
    <3>1. n \in Nat
      BY <1>4
    <3> QED BY <3>1, FS_Interval
  <2>4. (1 .. n) \cup {n + 1} = 1 .. n + 1
    BY <1>4
  <2>5. GoesOn(Append(m.out, Part("added", n + 1)),
               IF Part("added", n + 1).kind = "added"
               THEN (1 .. n) \cup {Part("added", n + 1).slot} ELSE 1 .. n,
               DoneItems(m.items))
    BY <2>1, <2>2, <2>3, GoesOnWith
  <2> QED BY <1>6, <1>9, <2>1, <2>4, <2>5
<1>11. r \in AssemblerType
  <2>1. r.active \in [ActiveBlock -> Nat]
    BY <1>4, <1>6
  <2>2. r.provisional \in BOOLEAN
    BY <1>4, <1>6
  <2>3. r.out \in Seq(ResponsePart)
    BY <1>10 DEF GoesOn
  <2> QED BY <1>6, <1>8, <2>1, <2>2, <2>3 DEF AssemblerType
<1>12. r.active[b] = n + 1 /\ \A c \in ActiveBlock : c # b => r.active[c] = m.active[c]
  BY <1>4, <1>6
<1>13. Activity(m) /\ ItemsAccounted(m)
  BY <1>3 DEF Sound
<1>14. Activity(r)
  <2>1. ASSUME NEW c \in ActiveBlock, c # b, m.active[c] # 0
        PROVE  /\ m.active[c] \in 1 .. n + 1 /\ m.active[c] # n + 1
               /\ ~ r.items[m.active[c]].done
    <3>1. m.active[c] \in 1 .. n /\ ~ m.items[m.active[c]].done
      BY <1>2, <1>13, <2>1 DEF Activity
    <3> QED BY <1>4, <1>8, <3>1
  <2>2. n + 1 \in 1 .. n + 1 /\ ~ r.items[n + 1].done
    BY <1>4, <1>7, <1>8
  <2>3. ASSUME NEW c \in ActiveBlock, r.active[c] # 0
        PROVE  r.active[c] \in 1 .. Len(r.items) /\ ~ r.items[r.active[c]].done
    BY <1>8, <1>12, <2>1, <2>2, <2>3
  <2>4. ASSUME NEW c \in ActiveBlock, NEW d \in ActiveBlock,
               r.active[c] = r.active[d], r.active[c] # 0
        PROVE  c = d
    BY <1>12, <1>13, <2>1, <2>4 DEF Activity
  <2> QED BY <2>3, <2>4 DEF Activity
<1>15. ItemsAccounted(r)
  <2>1. ASSUME NEW k \in 1 .. n
        PROVE  IF r.items[k].done THEN ~ Invalid(r.items[k])
               ELSE r.provisional \/ \E c \in ActiveBlock : r.active[c] = k
    <3>1. IF m.items[k].done THEN ~ Invalid(m.items[k])
          ELSE m.provisional \/ \E c \in ActiveBlock : m.active[c] = k
      BY <1>2, <1>13 DEF ItemsAccounted
    <3>2. r.items[k] = m.items[k] /\ k # 0
      BY <1>8
    <3> QED BY <1>3, <1>6, <1>12, <3>1, <3>2
  <2>2. ~ r.items[n + 1].done /\ r.active[b] = n + 1
    BY <1>7, <1>8, <1>12
  <2> QED BY <1>8, <2>1, <2>2 DEF ItemsAccounted
<1> QED BY <1>3, <1>8, <1>10, <1>11, <1>14, <1>15 DEF Sound, r

LEMMA ContinueItemKeeps ==
    ASSUME NEW a, Sound(a), NEW b \in ActiveBlock, NEW args \in {"partial", "whole"}
    PROVE  Sound(ContinueItem(a, b, args)) /\ Len(ContinueItem(a, b, args).items) = Len(a.items)
<1> DEFINE r == ContinueItem(a, b, args)
<1>1. PICK n : n = Len(a.items)
  OBVIOUS
<1>2. PICK slot : slot = a.active[b]
  OBVIOUS
<1>3. /\ a \in AssemblerType /\ n \in Nat
      /\ a.items \in Seq(Item) /\ a.active \in [ActiveBlock -> Nat]
      /\ a.provisional \in BOOLEAN /\ a.out \in Seq(ResponsePart) /\ a.out # <<>>
      /\ a = [items |-> a.items, active |-> a.active, provisional |-> a.provisional,
              out |-> a.out]
  BY <1>1, SoundFacts
<1>4. /\ Activity(a) /\ ItemsAccounted(a)
      /\ GoesOn(a.out, 1 .. n, DoneItems(a.items))
  BY <1>1 DEF Sound
<1>5. CASE slot = 0
  <2>1. r = a
    BY <1>2, <1>5 DEF ContinueItem
  <2> QED BY <2>1
<1>6. ASSUME slot # 0
      PROVE  slot \in 1 .. n /\ slot \notin DoneItems(a.items) /\ ~ a.items[slot].done
  BY <1>1, <1>2, <1>4, <1>6 DEF Activity, DoneItems
<1>7. CASE slot # 0 /\ a.items[slot].kind \in {"text", "thinking"}
  <2>1. r = [a EXCEPT !.out = Append(@, Part("delta", slot))]
    BY <1>2, <1>7 DEF ContinueItem
  <2>2. /\ r.items = a.items /\ r.active = a.active /\ r.provisional = a.provisional
        /\ r.out = Append(a.out, Part("delta", slot))
        /\ r = [items |-> r.items, active |-> r.active, provisional |-> r.provisional,
                out |-> r.out]
    <3> HIDE DEF r
    <3> QED BY <1>3, <2>1
  <2> HIDE DEF r
  <2>3. slot \in 1 .. n /\ slot \notin DoneItems(a.items) /\ slot \in Nat
    BY <1>3, <1>6, <1>7
  <2>4. Part("delta", slot) \in ResponsePart
        /\ Part("delta", slot).kind = "delta" /\ Part("delta", slot).slot = slot
    BY <2>3, PartIs
  <2>5. GoesOn(Append(a.out, Part("delta", slot)),
               IF Part("delta", slot).kind = "added"
               THEN (1 .. n) \cup {Part("delta", slot).slot} ELSE 1 .. n,
               DoneItems(a.items))
    BY <1>4, <2>3, <2>4, GoesOnWith
  <2>6. GoesOn(r.out, 1 .. n, DoneItems(r.items))
    BY <2>2, <2>4, <2>5
  <2>7. r \in AssemblerType
    BY <1>3, <2>2, <2>6 DEF AssemblerType, GoesOn
  <2>8. Activity(r) /\ ItemsAccounted(r)
    BY <1>4, <2>2 DEF Activity, ItemsAccounted
  <2> QED BY <1>1, <2>2, <2>6, <2>7, <2>8 DEF Sound, r
<1>8. CASE slot # 0 /\ ~ (a.items[slot].kind \in {"text", "thinking"})
  <2>1. r = [a EXCEPT !.items[slot].args = args]
    BY <1>2, <1>8 DEF ContinueItem
  <2>2. slot \in 1 .. n /\ ~ a.items[slot].done
    BY <1>6, <1>8
  <2>3. /\ r.items = [a.items EXCEPT ![slot] = [a.items[slot] EXCEPT !.args = args]]
        /\ r.active = a.active /\ r.provisional = a.provisional /\ r.out = a.out
        /\ r = [items |-> r.items, active |-> r.active, provisional |-> r.provisional,
                out |-> r.out]
    <3> HIDE DEF r
    <3> QED BY <1>3, <2>1
  <2> HIDE DEF r
  <2>4. /\ DOMAIN a.items = 1 .. n
        /\ \A k \in 1 .. n : a.items[k] \in Item
    BY <1>1, <1>3, AssemblerFacts
  <2>6. /\ DOMAIN r.items = 1 .. n
        /\ r.items[slot] = [a.items[slot] EXCEPT !.args = args]
        /\ \A k \in 1 .. n : k # slot => r.items[k] = a.items[k]
    BY <2>2, <2>3, <2>4
  <2>7. \A k \in 1 .. n : r.items[k] \in Item /\ r.items[k].done = a.items[k].done
    <3>1. r.items[slot] \in Item /\ r.items[slot].done = a.items[slot].done
      <4>1. PICK item : item = a.items[slot]
        OBVIOUS
      <4>2. item \in Item
        BY <2>2, <2>4, <4>1
      <4>3. [item EXCEPT !.args = args] \in Item /\ [item EXCEPT !.args = args].done = item.done
        BY <4>2 DEF Item
      <4> QED BY <2>6, <4>1, <4>3
    <3> QED BY <2>4, <2>6, <3>1
  <2>8. r.items \in Seq(Item) /\ Len(r.items) = n
    <3>1. r.items = [k \in 1 .. n |-> r.items[k]]
      BY <2>3, <2>4, <2>6
    <3>2. r.items \in [1 .. n -> Item]
      BY <2>7, <3>1
    <3>3. r.items \in Seq(Item)
      <4>1. n \in Nat
        BY <1>3
      <4> QED BY <3>2, <4>1, SeqDef
    <3> QED BY <1>3, <2>6, <3>3, LenProperties
  <2>9. DoneItems(r.items) = DoneItems(a.items)
    BY <1>1, <2>7, <2>8 DEF DoneItems
  <2>10. r \in AssemblerType
    BY <1>3, <2>3, <2>8 DEF AssemblerType
  <2>11. Activity(r)
    BY <1>1, <1>4, <2>3, <2>7, <2>8 DEF Activity
  <2>12. ItemsAccounted(r)
    <3> SUFFICES ASSUME NEW k \in 1 .. n
                 PROVE  IF r.items[k].done THEN ~ Invalid(r.items[k])
                        ELSE r.provisional \/ \E c \in ActiveBlock : r.active[c] = k
        BY <2>8 DEF ItemsAccounted
    <3>1. IF a.items[k].done THEN ~ Invalid(a.items[k])
          ELSE a.provisional \/ \E c \in ActiveBlock : a.active[c] = k
      BY <1>1, <1>4 DEF ItemsAccounted
    <3>2. CASE k = slot
      BY <2>2, <2>3, <2>7, <3>1, <3>2
    <3>3. CASE k # slot
      BY <2>3, <2>6, <3>1, <3>3
    <3> QED BY <3>2, <3>3
  <2>13. GoesOn(r.out, 1 .. Len(r.items), DoneItems(r.items))
    BY <1>4, <2>3, <2>8, <2>9
  <2> QED BY <1>1, <2>8, <2>10, <2>11, <2>12, <2>13 DEF Sound, r
<1> QED BY <1>5, <1>7, <1>8

LEMMA InOrderSeq ==
    ASSUME NEW S \in SUBSET Nat, IsFiniteSet(S)
    PROVE  /\ InOrder(S) \in Seq(Nat) /\ Len(InOrder(S)) = Cardinality(S)
           /\ Carried([output |-> InOrder(S)]) = S
           /\ \A i \in DOMAIN InOrder(S) : InOrder(S)[i] \in S
<1> DEFINE o == InOrder(S)
           n == Cardinality(S)
<1>1. /\ DOMAIN o = 1 .. n /\ n \in Nat
      /\ \A i \in DOMAIN o : o[i] \in S
      /\ \A b \in S : \E i \in DOMAIN o : o[i] = b
  BY InOrderLists, Zenon
<1>2. o = [i \in 1 .. n |-> o[i]]
  <2>1. PICK f : f = InOrder(S)
    OBVIOUS
  <2>2. f = [i \in 1 .. n |-> CHOOSE b \in S : Cardinality({d \in S : d < b}) = i - 1]
    BY <2>1, Zenon DEF InOrder
  <2>3. f = [i \in 1 .. n |-> f[i]]
    BY <2>2
  <2> QED BY <2>1, <2>3
<1> HIDE DEF o, n
<1>3. o \in [1 .. n -> Nat]
  BY <1>1, <1>2
<1>4. o \in Seq(Nat)
  BY <1>1, <1>3, SeqDef
<1>5. Len(o) = n
  BY <1>1, <1>4, LenProperties
<1>6. Carried([output |-> o]) = S
  <2>1. Carried([output |-> o]) = {o[i] : i \in DOMAIN o}
    BY DEF Carried
  <2> QED BY <1>1, <2>1
<1> QED BY <1>1, <1>4, <1>5, <1>6 DEF o, n

\* A whole response, with its last event.
Whole(s, kind, output) ==
    /\ s # <<>> /\ s \in Seq(ResponsePart)
    /\ \A k \in DOMAIN s : LegalPart(s, k)
    /\ s[Len(s)].kind = kind /\ s[Len(s)].output = output /\ Len(s) \in DOMAIN s

LEMMA EndWithIsWhole ==
    ASSUME NEW m, Sound(m), NEW kind \in Terminal,
           kind = "completed" => DoneItems(m.items) = 1 .. Len(m.items)
    PROVE  Whole(EndWith(m, kind).out, kind, InOrder(DoneItems(m.items)))
<1> DEFINE s == m.out
           n == Len(s)
           c == [kind |-> kind, slot |-> 0, output |-> InOrder(DoneItems(m.items))]
           t == Append(s, c)
<1>1. /\ s \in Seq(ResponsePart) /\ s # <<>> /\ Len(m.items) \in Nat
      /\ DOMAIN m.items = 1 .. Len(m.items)
      /\ GoesOn(s, 1 .. Len(m.items), DoneItems(m.items))
  BY SoundFacts, AssemblerFacts DEF Sound
<1>2. EndWith(m, kind).out = t
  BY <1>1 DEF EndWith, DoneItems
<1>3. /\ DoneItems(m.items) \in SUBSET Nat /\ IsFiniteSet(DoneItems(m.items))
  <2>1. IsFiniteSet(1 .. Len(m.items)) /\ DoneItems(m.items) \subseteq 1 .. Len(m.items)
    <3>1. PICK n0 \in Nat : n0 = Len(m.items)
      BY <1>1
    <3>2. IsFiniteSet(1 .. n0)
      BY <3>1, FS_Interval
    <3> QED BY <3>1, <3>2 DEF DoneItems
  <2> QED BY <1>1, <2>1, FS_Subset
<1>4. /\ InOrder(DoneItems(m.items)) \in Seq(Nat)
      /\ Carried([output |-> InOrder(DoneItems(m.items))]) = DoneItems(m.items)
  BY <1>3, InOrderSeq
<1>5. /\ c \in ResponsePart /\ c.kind = kind /\ c.output = InOrder(DoneItems(m.items))
      /\ Carried(c) = DoneItems(m.items)
  <2>1. c \in ResponsePart
    BY <1>4 DEF ResponsePart
  <2>2. Carried(c) = Carried([output |-> InOrder(DoneItems(m.items))])
    BY DEF Carried
  <2> QED BY <1>4, <2>1, <2>2
<1> HIDE DEF c, s
<1>6. /\ t \in Seq(ResponsePart) /\ t # <<>> /\ n \in Nat
      /\ Len(t) = n + 1 /\ t[n + 1] = c
      /\ \A k \in 1 .. n : t[k] = s[k]
      /\ \A k \in 1 .. n + 1 : k \in 1 .. n \/ k = n + 1
      /\ (n + 1) - 1 = n
  BY <1>1, <1>5, OnePart
<1>7. n # 0 /\ DOMAIN t = 1 .. n + 1
  <2> HIDE DEF t
  <2> QED BY <1>1, <1>6, EmptySeq, LenProperties
<1> HIDE DEF t
<1>8. /\ \A x : Named(t, n, x) = Named(s, n, x)
      /\ \A k \in 1 .. n : LegalPart(s, k) => LegalPart(t, k)
  BY <1>6, NamedBefore
<1>9. /\ Named(t, n, "added") = 1 .. Len(m.items) /\ Named(t, n, "done") = DoneItems(m.items)
      /\ \A k \in 1 .. n : LegalPart(t, k) /\ t[k].kind \notin Terminal
  BY <1>1, <1>6, <1>8 DEF GoesOn
<1> HIDE DEF n
<1>10. LegalPart(t, n + 1)
  <2>1. /\ kind # "created" /\ kind # "added" /\ kind # "delta" /\ kind # "done"
        /\ n + 1 # 1
    BY <1>6, <1>7 DEF Terminal
  <2>2. Named(t, (n + 1) - 1, "added") = 1 .. Len(m.items)
        /\ Named(t, (n + 1) - 1, "done") = DoneItems(m.items)
        /\ \A i \in 1 .. (n + 1) - 1 : t[i].kind \notin Terminal
    BY <1>6, <1>9
  <2> QED BY <1>5, <1>6, <2>1, <2>2 DEF LegalPart
<1>11. \A k \in DOMAIN t : LegalPart(t, k)
  BY <1>6, <1>7, <1>9, <1>10
<1>12. n + 1 \in DOMAIN t
  BY <1>6, <1>7
<1> QED BY <1>2, <1>5, <1>6, <1>11, <1>12 DEF Whole

-----------------------------------------------------------------------------
(* The steps.                                                              *)

LEMMA InitAssemblerInv == ResponsesInit => AssemblerInv
<1> SUFFICES ASSUME ResponsesInit PROVE AssemblerInv
    OBVIOUS
<1> DEFINE c == Part("created", 0)
           a == Assembler
<1>1. /\ a.items = <<>> /\ a.active = [b \in ActiveBlock |-> 0] /\ a.provisional = FALSE
      /\ a.out = <<c>>
      /\ a = [items |-> a.items, active |-> a.active, provisional |-> a.provisional,
              out |-> a.out]
  BY DEF Assembler, ResponsesInit
<1>2. /\ <<>> \in Seq(Item) /\ Len(<<>>) = 0 /\ <<c>> \in Seq(ResponsePart)
      /\ Len(<<c>>) = 1 /\ <<c>>[1] = c /\ <<c>> # <<>>
  <2>1. c \in ResponsePart
    BY PartIs
  <2> HIDE DEF c
  <2> QED BY <2>1
<1>3. c.kind = "created" /\ c.kind \notin Terminal
  BY PartIs DEF Terminal
<1> HIDE DEF a, c
<1>4. a \in AssemblerType
  <2>1. a.active \in [ActiveBlock -> Nat]
    BY <1>1
  <2>2. a.items \in Seq(Item) /\ a.out \in Seq(ResponsePart) /\ a.provisional \in BOOLEAN
    BY <1>1, <1>2
  <2> QED BY <1>1, <2>1, <2>2 DEF AssemblerType
<1>5. GoesOn(a.out, 1 .. Len(a.items), DoneItems(a.items))
  <2>1. 1 .. Len(a.items) = {} /\ DoneItems(a.items) = {}
    BY <1>1, <1>2 DEF DoneItems
  <2>2. \A k \in 1 .. Len(a.out) : k = 1 /\ a.out[k] = c
    BY <1>1, <1>2
  <2>3. Named(a.out, Len(a.out), "added") = {} /\ Named(a.out, Len(a.out), "done") = {}
    BY <1>3, <2>2 DEF Named
  <2>4. \A k \in 1 .. Len(a.out) : LegalPart(a.out, k) /\ a.out[k].kind \notin Terminal
    <3>1. LegalPart(a.out, 1)
      <4>1. a.out[1] = c /\ \A i \in 1 .. 1 - 1 : FALSE
        BY <1>1, <1>2
      <4> QED BY <1>3, <4>1 DEF LegalPart, Terminal
    <3> QED BY <1>3, <2>2, <3>1
  <2> QED BY <1>1, <1>2, <2>1, <2>3, <2>4 DEF GoesOn
<1>6. Activity(a) /\ ItemsAccounted(a)
  BY <1>1, <1>2 DEF Activity, ItemsAccounted
<1>7. EveryBlockHasAnItem
  <2>1. given = <<>> /\ items = <<>>
    BY DEF ResponsesInit
  <2>2. <<>> \in Seq(Input!Event) /\ Len(<<>>) = 0 /\ DOMAIN <<>> = {}
    OBVIOUS
  <2>3. Input!Blocks(<<>>, "open") = {}
    BY <2>2 DEF Input!Blocks
  <2> QED BY <2>1, <2>2, <2>3, FS_EmptySet DEF EveryBlockHasAnItem
<1> QED BY <1>4, <1>5, <1>6, <1>7 DEF AssemblerInv, Sound, a, ResponsesInit

\* What one more event of the message does to its blocks.
GivenMore(kind, block) ==
    /\ given' \in Seq(Input!Event)
    /\ kind # "open" => Input!Blocks(given, "open")' = Input!Blocks(given, "open")
    /\ kind = "open" =>
         /\ block \notin Input!Blocks(given, "open")
         /\ Input!Blocks(given, "open")' = Input!Blocks(given, "open") \cup {block}

LEMMA GiveDoes ==
    ASSUME EveryBlockHasAnItem, NEW kind, NEW block, NEW type, Give(kind, block, type)
    PROVE  GivenMore(kind, block)
<1> DEFINE e == [kind |-> kind, block |-> block, type |-> type]
<1>1. PICK s : s = given
  OBVIOUS
<1>2. PICK t : t = given'
  OBVIOUS
<1>3. s \in Seq(Input!Event) /\ t = Append(s, e)
  BY <1>1, <1>2 DEF EveryBlockHasAnItem, Give
<1>4. PICK d : /\ d \in Input!Event /\ t = Append(s, d) /\ Input!Legal(s, d)
  BY <1>1, <1>2 DEF Give, Input!Send
<1> HIDE DEF e
<1>5. /\ t \in Seq(Input!Event) /\ Len(s) \in Nat /\ Len(t) = Len(s) + 1
      /\ t[Len(s) + 1] = d /\ \A k \in 1 .. Len(s) : t[k] = s[k]
      /\ DOMAIN s = 1 .. Len(s) /\ DOMAIN t = 1 .. Len(s) + 1
  BY <1>3, <1>4, AppendProperties, LenProperties
<1>6. d = e
  <2> DEFINE Seen == Input!Event \cup {e}
  <2>1. s \in Seq(Seen) /\ e \in Seen
    <3>1. Input!Event \subseteq Seen
      OBVIOUS
    <3> HIDE DEF Seen
    <3> QED BY <1>3, <3>1, SeqMonotonic DEF Seen
  <2>2. Append(s, e)[Len(s) + 1] = e
    <3> HIDE DEF Seen
    <3> QED BY <2>1, AppendProperties
  <2> QED BY <1>3, <1>5, <2>2
<1>7. d.kind = kind /\ d.block = block
  BY <1>6 DEF e
<1>8. \A k : k \in DOMAIN t <=> k \in DOMAIN s \/ k = Len(s) + 1
  BY <1>5
<1>9. \A b : b \in Input!Blocks(t, "open") <=>
               b \in Input!Blocks(s, "open") \/ (kind = "open" /\ b = block)
  BY <1>5, <1>7, <1>8 DEF Input!Blocks
<1>10. kind = "open" => block \notin Input!Blocks(s, "open")
  BY <1>4, <1>7 DEF Input!Legal
<1> HIDE DEF Input!Blocks
<1>11. kind # "open" => Input!Blocks(t, "open") = Input!Blocks(s, "open")
  BY <1>9
<1>12. kind = "open" => Input!Blocks(t, "open") = Input!Blocks(s, "open") \cup {block}
  BY <1>9
<1>13. /\ Input!Blocks(given, "open") = Input!Blocks(s, "open")
       /\ Input!Blocks(given, "open")' = Input!Blocks(t, "open")
  BY <1>1, <1>2 DEF Input!Blocks
<1> QED BY <1>2, <1>5, <1>10, <1>11, <1>12, <1>13 DEF GivenMore

LEMMA GoingKeeps ==
    ASSUME NEW a, Sound(a), Became(a, ""), EveryBlockHasAnItem'
    PROVE  AssemblerInv'
<1>1. /\ a.out # <<>>
      /\ a = [items |-> a.items, active |-> a.active, provisional |-> a.provisional,
              out |-> a.out]
  BY SoundFacts
<1>2. Assembler' = a
  BY <1>1 DEF Became, Assembler
<1>3. over' = ""
  BY DEF Became
<1>4. Sound(Assembler)'
  <2>1. Sound(Assembler') <=> Sound(a)
    BY <1>2, Zenon
  <2> QED BY <2>1 DEF Sound, GoesOn, LegalPart, Named, Activity, ItemsAccounted
<1> QED BY <1>3, <1>4 DEF AssemblerInv

\* The end of the response.
LEMMA EndKeeps ==
    ASSUME NEW m, Sound(m), NEW kind \in Terminal,
           kind # "failed" => DoneItems(m.items) = 1 .. Len(m.items),
           Became(EndWith(m, kind), kind), EveryBlockHasAnItem'
    PROVE  AssemblerInv'
<1> DEFINE done == DoneItems(m.items)
           n == Len(m.items)
<1>1. PICK t : t = EndWith(m, kind).out
  OBVIOUS
<1>2. Whole(t, kind, InOrder(done))
  BY <1>1, EndWithIsWhole DEF Terminal
<1>3. /\ m \in AssemblerType /\ n \in Nat
  BY SoundFacts
<1>4. response' = t /\ items' = m.items /\ over' = kind
  <2>1. EndWith(m, kind).items = m.items
    BY <1>3 DEF EndWith, AssemblerType
  <2> QED BY <1>1, <2>1 DEF Became
<1>5. ResponseIsWellFormed'
  <2>1. \A k \in DOMAIN t : LegalPart(t, k)
    BY <1>2 DEF Whole
  <2>2. (\A k \in DOMAIN response : LegalPart(response, k))'
    <3>1. \A k \in DOMAIN response' : LegalPart(response', k)
      BY <1>4, <2>1, Zenon
    <3> QED BY <3>1 DEF LegalPart, Named
  <2> QED BY <2>2 DEF ResponseIsWellFormed
<1>6. \E k \in DOMAIN t : t[k].kind \in Terminal
  BY <1>2 DEF Whole
<1>7. ASSUME kind # "failed"
      PROVE  /\ Len(InOrder(done)) = n
             /\ \A i \in DOMAIN InOrder(done) : ~ Invalid(m.items[InOrder(done)[i]])
  <2>1. done = 1 .. n
    BY <1>7
  <2>2. IsFiniteSet(1 .. n) /\ Cardinality(1 .. n) = n
    <3> HIDE DEF n
    <3> QED BY <1>3, FS_Interval
  <2>3. 1 .. n \in SUBSET Nat
    OBVIOUS
  <2>4. ASSUME NEW k \in done PROVE ~ Invalid(m.items[k])
    <3>1. ItemsAccounted(m) /\ k \in 1 .. n /\ m.items[k].done
      BY <2>4 DEF Sound, DoneItems
    <3> QED BY <3>1 DEF ItemsAccounted
  <2> HIDE DEF done, n
  <2>5. Len(InOrder(done)) = n /\ \A i \in DOMAIN InOrder(done) : InOrder(done)[i] \in done
    BY <2>1, <2>2, <2>3, InOrderSeq
  <2> QED BY <2>4, <2>5
<1>8. ResponseAccountsForBlocks'
  <2>1. t[Len(t)].output = InOrder(done)
    BY <1>2 DEF Whole
  <2>2. Cardinality(Input!Blocks(given, "open"))' = n
    BY <1>4 DEF EveryBlockHasAnItem
  <2>3. (over \in Terminal <=> \E k \in DOMAIN response : response[k].kind \in Terminal)'
    BY <1>4, <1>6
  <2>4. ASSUME kind \in {"completed", "incomplete"}
        PROVE  /\ Len(t[Len(t)].output) = Cardinality(Input!Blocks(given, "open"))'
               /\ \A i \in DOMAIN t[Len(t)].output : ~ Invalid(items'[t[Len(t)].output[i]])
    <3>1. kind # "failed"
      BY <2>4
    <3> HIDE DEF done, n
    <3> QED BY <1>4, <1>7, <2>1, <2>2, <3>1, Zenon
  <2> HIDE DEF done, n
  <2> QED BY <1>4, <2>3, <2>4 DEF ResponseAccountsForBlocks, Invalid
<1> QED BY <1>4, <1>5, <1>8 DEF AssemblerInv, ResponseIsFaithful, Terminal

\* Nothing is active any more: what is not done makes the response fail.
LEMMA FlushActiveKeeps ==
    ASSUME NEW a, Sound(a)
    PROVE  LET m == FlushActive(a)
           IN  /\ Sound(m) /\ Len(m.items) = Len(a.items)
               /\ ~ m.provisional => DoneItems(m.items) = 1 .. Len(m.items)
<1>1. PICK m : m = FlushActive(a)
  OBVIOUS
<1>2. BlocksEnded(a, m, ActiveBlock)
  BY <1>1, CompleteBlocksKeeps DEF FlushActive
<1>3. Sound(m) /\ Len(m.items) = Len(a.items) /\ \A b \in ActiveBlock : m.active[b] = 0
  BY <1>2 DEF BlocksEnded
<1>4. ASSUME ~ m.provisional, NEW k \in 1 .. Len(m.items) PROVE m.items[k].done
  <2>1. ItemsAccounted(m) /\ k # 0
    BY <1>3, SoundFacts DEF Sound
  <2> QED BY <1>3, <1>4, <2>1 DEF ItemsAccounted
<1>5. ~ m.provisional => DoneItems(m.items) = 1 .. Len(m.items)
  BY <1>4 DEF DoneItems
<1> QED BY <1>1, <1>3, <1>5

\* The items stay as many as they were until the response is finished or failed.
LEMMA ResponseFinishKeeps ==
    ASSUME Sound(Assembler), EveryBlockHasAnItem, FinishResponse \/ FailResponse,
           given' \in Seq(Input!Event),
           Input!Blocks(given, "open")' = Input!Blocks(given, "open")
    PROVE  AssemblerInv'
<1>1. PICK a : a = Assembler
  OBVIOUS
<1>2. PICK m : m = FlushActive(a)
  OBVIOUS
<1>3. /\ Sound(m) /\ Len(m.items) = Len(a.items) /\ a.items = items
      /\ ~ m.provisional => DoneItems(m.items) = 1 .. Len(m.items)
  <2>1. a.items = items
    BY <1>1 DEF Assembler
  <2>2. Sound(a)
    BY <1>1
  <2> QED BY <1>2, <2>1, <2>2, FlushActiveKeeps
<1>4. PICK kind : /\ kind \in Terminal /\ Became(EndWith(m, kind), kind)
                  /\ kind # "failed" => ~ m.provisional
  <2>1. CASE FinishResponse
    <3>1. Became(EndWith(m, Verdict(m)), Verdict(m))
      BY <1>1, <1>2, <2>1 DEF FinishResponse
    <3>2. Verdict(m) \in Terminal /\ (Verdict(m) # "failed" => ~ m.provisional)
      BY DEF Verdict, Terminal
    <3> QED BY <3>1, <3>2
  <2>2. CASE FailResponse
    <3>1. Became(EndWith(m, "failed"), "failed")
      BY <1>1, <1>2, <2>2 DEF FailResponse
    <3> QED BY <3>1 DEF Terminal
  <2> QED BY <2>1, <2>2
<1>5. EveryBlockHasAnItem'
  <2>1. items' = m.items
    <3>1. m \in AssemblerType
      BY <1>3, SoundFacts
    <3>2. EndWith(m, kind).items = m.items
      BY <3>1 DEF EndWith, AssemblerType
    <3> QED BY <1>4, <3>2 DEF Became
  <2> QED BY <1>3, <2>1 DEF EveryBlockHasAnItem
<1> QED BY <1>3, <1>4, <1>5, EndKeeps

LEMMA BlockOpensKeeps ==
    ASSUME AssemblerInv, NEW b \in ActiveBlock, NEW kind \in ItemKind, BlockOpens(b, kind)
    PROVE  AssemblerInv'
<1>1. Sound(Assembler) /\ EveryBlockHasAnItem
  BY DEF AssemblerInv, BlockOpens, Give
<1>2. PICK a : a = Assembler
  OBVIOUS
<1>3. PICK m : m = StartItem(a, b, kind)
  OBVIOUS
<1>4. Sound(a) /\ a.items = items
  BY <1>1, <1>2 DEF Assembler
<1>5. Sound(m) /\ Len(m.items) = Len(items) + 1
  BY <1>3, <1>4, StartItemKeeps
<1>6. Became(m, "")
  BY <1>2, <1>3 DEF BlockOpens
<1>7. GivenMore("open", b)
  BY <1>1, GiveDoes DEF BlockOpens
<1>8. EveryBlockHasAnItem'
  <2>1. /\ IsFiniteSet(Input!Blocks(given, "open"))
        /\ Cardinality(Input!Blocks(given, "open")) = Len(items)
    BY <1>1 DEF EveryBlockHasAnItem
  <2>2. /\ IsFiniteSet(Input!Blocks(given, "open") \cup {b})
        /\ Cardinality(Input!Blocks(given, "open") \cup {b}) = Len(items) + 1
    BY <1>7, <2>1, FS_AddElement DEF GivenMore
  <2>3. items' = m.items
    BY <1>6 DEF Became
  <2> QED BY <1>5, <1>7, <2>2, <2>3 DEF GivenMore, EveryBlockHasAnItem
<1> QED BY <1>5, <1>6, <1>8, GoingKeeps

\* The steps that open no block and end nothing.
LEMMA OtherEventKeeps ==
    ASSUME AssemblerInv, over = "", NEW a, Sound(a), Len(a.items) = Len(items), Became(a, ""),
           NEW kind \in {"start", "delta", "stop", "usage"}, NEW block, NEW type,
           Give(kind, block, type)
    PROVE  AssemblerInv'
<1>1. EveryBlockHasAnItem
  BY DEF AssemblerInv
<1>2. GivenMore(kind, block) /\ kind # "open"
  BY <1>1, GiveDoes
<1>3. EveryBlockHasAnItem'
  <2>1. items' = a.items
    BY DEF Became
  <2> QED BY <1>1, <1>2, <2>1 DEF GivenMore, EveryBlockHasAnItem
<1> QED BY <1>3, GoingKeeps

LEMMA NextAssemblerInv == AssemblerInv /\ [ResponsesNext]_responsesVars => AssemblerInv'
<1> SUFFICES ASSUME AssemblerInv, [ResponsesNext]_responsesVars PROVE AssemblerInv'
    OBVIOUS
<1>1. CASE UNCHANGED responsesVars
  <2>1. /\ given' = given /\ response' = response /\ items' = items /\ active' = active
        /\ provisional' = provisional /\ over' = over
    BY <1>1 DEF responsesVars
  <2>2. Assembler' = Assembler
    BY <2>1 DEF Assembler
  <2>3. Sound(Assembler') <=> Sound(Assembler)
    BY <2>2, Zenon
  <2>4. EveryBlockHasAnItem' <=> EveryBlockHasAnItem
    BY <2>1 DEF EveryBlockHasAnItem, Input!Blocks
  <2>5. ResponseIsFaithful' <=> ResponseIsFaithful
    BY <2>1 DEF ResponseIsFaithful, ResponseIsWellFormed, ResponseAccountsForBlocks,
                Input!Blocks, LegalPart, Named, Invalid, Carried
  <2> QED BY <2>1, <2>3, <2>4, <2>5 DEF AssemblerInv, Sound, GoesOn, LegalPart, Named, Activity,
                                        ItemsAccounted
<1>2. ASSUME over = "" PROVE Sound(Assembler) /\ Assembler.items = items /\ EveryBlockHasAnItem
  BY <1>2 DEF AssemblerInv, Assembler
<1>3. ASSUME MessageStarts \/ MessageDelta PROVE AssemblerInv'
  <2>1. PICK a : a = Assembler
    OBVIOUS
  <2>2. over = "" /\ Became(a, "")
    BY <1>3, <2>1 DEF MessageStarts, MessageDelta, Give
  <2>3. \E kind \in {"start", "usage"} : Give(kind, 0, "message")
    BY <1>3 DEF MessageStarts, MessageDelta
  <2>4. Sound(a) /\ a.items = items
    BY <1>2, <2>1, <2>2
  <2> QED BY <2>2, <2>3, <2>4, OtherEventKeeps
<1>4. ASSUME MessageStops \/ ErrorEvent PROVE AssemblerInv'
  <2>1. over = "" /\ \E kind \in {"end", "error"} : Give(kind, 0, "message")
    BY <1>4 DEF MessageStops, ErrorEvent, Give
  <2>2. Sound(Assembler) /\ EveryBlockHasAnItem
    BY <1>2, <2>1
  <2>3. /\ given' \in Seq(Input!Event)
        /\ Input!Blocks(given, "open")' = Input!Blocks(given, "open")
    <3>1. PICK kind \in {"end", "error"} : Give(kind, 0, "message")
      BY <2>1
    <3>2. GivenMore(kind, 0) /\ kind # "open"
      BY <2>2, <3>1, GiveDoes
    <3> QED BY <3>2 DEF GivenMore
  <2> QED BY <1>4, <2>2, <2>3, ResponseFinishKeeps DEF MessageStops, ErrorEvent
<1>5. ASSUME over = "", UNCHANGED given
      PROVE  EveryBlockHasAnItem /\ given' \in Seq(Input!Event)
             /\ Input!Blocks(given, "open")' = Input!Blocks(given, "open")
  BY <1>2, <1>5 DEF EveryBlockHasAnItem, Input!Blocks
<1>6. CASE InputEnds
  BY <1>2, <1>5, <1>6, ResponseFinishKeeps DEF InputEnds
<1>7. CASE InputFails
  <2>1. CASE response = <<>>
    <3>1. over' = "raised" /\ response' = <<>>
      BY <1>7, <2>1 DEF InputFails
    <3>2. DOMAIN response' = {}
      BY <3>1
    <3>3. ResponseIsWellFormed'
      BY <3>2 DEF ResponseIsWellFormed
    <3>4. ResponseAccountsForBlocks'
      BY <3>1, <3>2 DEF ResponseAccountsForBlocks, Terminal
    <3> QED BY <3>1, <3>3, <3>4 DEF AssemblerInv, ResponseIsFaithful
  <2>2. CASE response # <<>>
    BY <1>2, <1>5, <1>7, <2>2, ResponseFinishKeeps DEF InputFails
  <2> QED BY <2>1, <2>2
<1>8. ASSUME NEW b \in ActiveBlock, BlockStops(b) PROVE AssemblerInv'
  <2>1. PICK a : a = Assembler
    OBVIOUS
  <2>2. PICK m : m = CompleteBlocks(a, {b})
    OBVIOUS
  <2>3. over = "" /\ Became(m, "") /\ \E type : Give("stop", b, type)
    BY <1>8, <2>1, <2>2 DEF BlockStops, Give
  <2>4. Sound(a) /\ a.items = items
    BY <1>2, <2>1, <2>3
  <2>5. Sound(m) /\ Len(m.items) = Len(items)
    BY <2>2, <2>4, CompleteBlocksKeeps DEF BlocksEnded
  <2> QED BY <2>3, <2>5, OtherEventKeeps
<1>9. ASSUME NEW b \in ActiveBlock, NEW args \in {"partial", "whole"}, BlockContinues(b, args)
      PROVE  AssemblerInv'
  <2>1. PICK a : a = Assembler
    OBVIOUS
  <2>2. PICK m : m = ContinueItem(a, b, args)
    OBVIOUS
  <2>3. over = "" /\ Became(m, "") /\ \E type : Give("delta", b, type)
    BY <1>9, <2>1, <2>2 DEF BlockContinues, Give
  <2>4. Sound(a) /\ a.items = items
    BY <1>2, <2>1, <2>3
  <2>5. Sound(m) /\ Len(m.items) = Len(items)
    BY <2>2, <2>4, ContinueItemKeeps
  <2> QED BY <2>3, <2>5, OtherEventKeeps
<1> QED BY <1>1, <1>3, <1>4, <1>6, <1>7, <1>8, <1>9, BlockOpensKeeps DEF ResponsesNext

(***************************************************************************)
(* Until the response is over its assembler is sound, and then the         *)
(* response is faithful.                                                   *)
(***************************************************************************)
THEOREM ResponseInductive == ResponsesSpec => []AssemblerInv
<1> QED BY InitAssemblerInv, NextAssemblerInv, PTL DEF ResponsesSpec

LEMMA NothingNamed == ASSUME response = <<>> PROVE \A k \in DOMAIN response : FALSE
<1>1. response \in Seq(Nat) /\ Len(response) = 0
  BY EmptySeq
<1>2. DOMAIN response = 1 .. Len(response)
  BY <1>1, LenProperties
<1> QED BY <1>1, <1>2

LEMMA FaithfulByAssemblerInv == AssemblerInv => ResponseIsFaithful
<1> SUFFICES ASSUME AssemblerInv, over = "" PROVE ResponseIsFaithful
    BY DEF AssemblerInv
<1>1. Sound(Assembler) /\ over \notin Terminal /\ over \notin {"completed", "incomplete"}
  BY DEF AssemblerInv, Terminal
<1>2. CASE response = <<>>
  <2>1. \A k \in DOMAIN response : FALSE
    BY <1>2, NothingNamed
  <2> QED BY <1>1, <2>1 DEF ResponseIsFaithful, ResponseIsWellFormed, ResponseAccountsForBlocks
<1>3. CASE response # <<>>
  <2>1. Assembler.out = response
    BY <1>3 DEF Assembler
  <2>2. /\ response \in Seq(ResponsePart)
        /\ \A k \in 1 .. Len(response) : LegalPart(response, k) /\ response[k].kind \notin Terminal
    BY <1>1, <2>1 DEF Sound, GoesOn
  <2>3. DOMAIN response = 1 .. Len(response)
    BY <2>2, LenProperties
  <2> QED BY <1>1, <2>2, <2>3
          DEF ResponseIsFaithful, ResponseIsWellFormed, ResponseAccountsForBlocks
<1> QED BY <1>2, <1>3

(***************************************************************************)
(* For any number of blocks, however they overlap and wherever the message *)
(* breaks off: the Responses stream is well formed, ends once and carries  *)
(* an item for every block, or fails (process_anthropic_event,             *)
(* finish_response).                                                       *)
(***************************************************************************)
THEOREM ResponseIsFaithfulCorrect == ResponsesSpec => []ResponseIsFaithful
<1> QED BY ResponseInductive, FaithfulByAssemblerInv, PTL
=============================================================================
