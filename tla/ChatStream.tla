----------------------------- MODULE ChatStream -----------------------------
(***************************************************************************)
(* One answer of the OpenAI transport: OpenAIChatStreamAdapter.run         *)
(* (src/providers/transports/openai_chat/stream.py) with its               *)
(* RecoveryController and holdback (core/anthropic/streaming/recovery.py)  *)
(* and OpenAIChatRecovery (transports/openai_chat/recovery.py).            *)
(*                                                                         *)
(* The adapter is a generator: it turns what the upstream sends into       *)
(* events, holds the first ones back for a while, and hands the others to  *)
(* the client one by one, going on only when they have been taken.  When   *)
(* the upstream fails it starts again, as long as the client has seen      *)
(* nothing; or continues the message with the help of further requests;    *)
(* or ends it with an error.                                               *)
(***************************************************************************)
EXTENDS StreamLedger

CONSTANTS
    MaxEarly,        \* EARLY_TRANSPARENT_MAX_RETRIES
    MaxAttempts,     \* MIDSTREAM_RECOVERY_ATTEMPTS, of requests and of repairs
    MaxChunks,       \* bound: chunks of one upstream stream
    ReusesLedger     \* is this OllamaContextStreamAdapter?

ASSUME StreamAssumption ==
    /\ MaxEarly \in Nat /\ MaxAttempts \in Nat \ {0} /\ MaxChunks \in Nat
    /\ ReusesLedger \in BOOLEAN

VARIABLES
    sent,            \* what the client has taken
    out,             \* events the generator is about to yield
    held,            \* RecoveryHoldbackBuffer._events
    committed,       \* RecoveryHoldbackBuffer.committed
    ledger,
    phase,           \* where run is
    chunks,          \* chunks read from this upstream stream
    finished,        \* has a finish_reason been seen
    early,           \* _early_retry_count
    todo,            \* blocks of the tools still to be repaired
    repairs,         \* answers refused for the first of them
    requests         \* requests of collect_text that failed

streamVars   == <<chunks, finished, early>>
recoveryVars == <<todo, repairs, requests>>
vars == <<sent, out, held, committed, ledger, phase, streamVars, recoveryVars>>

Ended == {"completed", "recovered", "failed", "gone"}
Phase == {"start", "open", "chunks", "continue", "repair"} \cup Ended

\* The adapter's own ledger, or the one that Ollama's reasoning phase has used: the
\* message is started, and a closed block of thinking is on its way to the client.
Reasoned ==
    LET l == EnsureThinking(StartMessage(NewLedger))
    IN  {CloseContent(l), CloseContent(Think(l))}

Init ==
    /\ sent = <<>> /\ held = <<>> /\ committed = FALSE
    /\ \E l \in (IF ReusesLedger THEN Reasoned ELSE {NewLedger}) :
         ledger = Logged(l) /\ out = l.log
    /\ phase = "start" /\ chunks = 0 /\ finished = FALSE /\ early = 0
    /\ todo = <<>> /\ repairs = 0 /\ requests = 0

\* _new_ledger.  Held arguments that have aliases are not kept in the ledger.
Renewed(l) ==
    IF ~ ReusesLedger THEN NewLedger
    ELSE [l EXCEPT !.log = <<>>,
                   !.tools = [c \in Calls |->
                     IF @[c].kind = "alias" THEN [@[c] EXCEPT !.held = FALSE] ELSE @[c]]]

-----------------------------------------------------------------------------
(* The client takes an event, or goes away.                                *)

Yield ==
    /\ out # <<>>
    /\ sent' = Append(sent, Head(out))
    /\ out' = Tail(out)
    /\ UNCHANGED <<held, committed, ledger, phase, streamVars, recoveryVars>>

Disconnect ==
    /\ phase # "gone" /\ (out # <<>> \/ phase \notin Ended)
    /\ phase' = "gone" /\ out' = <<>> /\ held' = <<>>
    /\ UNCHANGED <<sent, committed, ledger, streamVars, recoveryVars>>

-----------------------------------------------------------------------------
(* The holdback.                                                           *)

\* push, of everything that one chunk led to.  An event is never the first of its
\* buffer and the one that fills it: the clock and the size run from the first.
Push(l) ==
    /\ ledger' = Logged(l)
    /\ \/ committed /\ out' = l.log /\ UNCHANGED <<held, committed>>
       \/ ~ committed /\ held' = held \o l.log /\ UNCHANGED <<out, committed>>
       \/ /\ ~ committed /\ l.log # <<>> /\ Len(held \o l.log) > 1
          /\ committed' = TRUE /\ out' = held \o l.log /\ held' = <<>>

\* Seeded fault: the end of the message does not flush the holdback.
ReleaseTail(l, end) ==
    /\ out' = l.log /\ held' = <<>>
    /\ committed' = (committed \/ held # <<>>)
    /\ ledger' = Logged(l) /\ phase' = end

\* What is held, if it is not released yet, and then the end of the message.
Release(l, end) ==
    /\ out' = held \o l.log /\ held' = <<>>
    /\ committed' = (committed \/ held # <<>>)
    /\ ledger' = Logged(l) /\ phase' = end

-----------------------------------------------------------------------------
(* Failures.                                                               *)

\* What a failed attempt to recover has put into the ledger stays there; its events
\* are lost.
FinalError ==
    /\ Release(ErrorTail(IF ~ committed /\ held = <<>> THEN Renewed(ledger)
                         ELSE Logged(ledger)), "failed")
    /\ UNCHANGED <<sent, streamVars, recoveryVars>>

\* Seeded faults: the events of the broken stream stay in the holdback, and a
\* retry is not counted.
EarlyRetryKeepsHeld ==
    /\ early' = early + 1 /\ held' = held /\ committed' = FALSE
    /\ ledger' = Renewed(ledger) /\ finished' = FALSE /\ chunks' = 0
    /\ phase' = "start"
    /\ UNCHANGED <<sent, out, recoveryVars>>

EarlyRetryUncounted ==
    /\ held' = <<>> /\ committed' = FALSE
    /\ ledger' = Renewed(ledger) /\ finished' = FALSE /\ chunks' = 0
    /\ phase' = "start"
    /\ UNCHANGED <<sent, out, early, recoveryVars>>

EarlyRetry ==
    /\ early' = early + 1 /\ held' = <<>> /\ committed' = FALSE
    /\ ledger' = Renewed(ledger) /\ finished' = FALSE /\ chunks' = 0
    /\ phase' = "start"
    /\ UNCHANGED <<sent, out, recoveryVars>>

\* Blocks of the calls whose arguments are incomplete.
ToRepair(l) == InOrder({b \in BlocksOf(l, Calls) : l.blocks[b].args # "whole"})

\* OpenAIChatRecovery.events, up to its first request.
Recover ==
    \/ /\ AllToolsWhole(ledger)
       /\ Release(SuccessTail(ledger), "recovered")
       /\ UNCHANGED <<sent, streamVars, recoveryVars>>
    \/ /\ HasTool(ledger) /\ ~ AllToolsWhole(ledger) /\ ToRepair(ledger) # <<>>
       /\ phase' = "repair" /\ todo' = ToRepair(ledger)
       /\ repairs' = 0 /\ requests' = 0
       /\ UNCHANGED <<sent, out, held, committed, ledger, streamVars>>
    \/ /\ ~ HasTool(ledger) /\ (ledger.said \/ ledger.thought)
       /\ phase' = "continue" /\ requests' = 0
       /\ UNCHANGED <<sent, out, held, committed, ledger, streamVars, todo, repairs>>
    \/ /\ ~ AllToolsWhole(ledger)
       /\ IF HasTool(ledger) THEN ToRepair(ledger) = <<>>
          ELSE ~ ledger.said /\ ~ ledger.thought
       /\ FinalError

\* Seeded fault: committed or not.
MayStartWhenever(opened) == opened /\ ~ AllToolsWhole(ledger) /\ early < MaxEarly

\* advance_failure.  A recovery ends the stream, so that it is never tried twice.
MayStartAgain(opened) ==
    opened /\ ~ committed /\ ~ AllToolsWhole(ledger) /\ early < MaxEarly

Fail(opened, retryable) ==
    \/ retryable /\ MayStartAgain(opened) /\ EarlyRetry
    \/ retryable /\ ~ MayStartAgain(opened) /\ Generated(ledger) /\ Recover
    \/ ~ (retryable /\ (MayStartAgain(opened) \/ Generated(ledger))) /\ FinalError

-----------------------------------------------------------------------------
(* The stream.                                                             *)

\* The generator runs when the client has taken what it yielded.
At(p) == phase = p /\ out = <<>>

Begin ==
    /\ At("start")
    /\ Push(IF ledger.started THEN ledger ELSE StartMessage(ledger))
    /\ phase' = "open"
    /\ UNCHANGED <<sent, streamVars, recoveryVars>>

CreateSucceeds ==
    /\ At("open")
    /\ phase' = "chunks"
    /\ UNCHANGED <<sent, out, held, committed, ledger, streamVars, recoveryVars>>

CreateFails(retryable) == At("open") /\ Fail(FALSE, retryable)

Chunk(ledgers) ==
    /\ At("chunks") /\ chunks < MaxChunks /\ chunks' = chunks + 1
    /\ \E l \in ledgers : Push(l)
    /\ UNCHANGED <<sent, phase, finished, early, recoveryVars>>

ThinkingChunk == Chunk({Think(ledger)})
TextChunk     == Chunk({Say(ledger)})
ToolTextChunk == Chunk({HeuristicTool(ledger, args) : args \in {"partial", "whole"}})

CallChunk(c) ==
    \E kind \in ToolKind \cup {"unnamed"}, hasArgs \in BOOLEAN :
      Chunk(CallDelta(ledger, c, kind, hasArgs))

FinishChunk ==
    /\ At("chunks") /\ ~ finished
    /\ finished' = TRUE
    /\ UNCHANGED <<sent, out, held, committed, ledger, phase, chunks, early, recoveryVars>>

StreamBreaks(retryable) == At("chunks") /\ Fail(TRUE, retryable)

\* The stream ends without a finish_reason: TruncatedProviderStreamError.
Truncated == At("chunks") /\ ~ finished /\ Fail(TRUE, TRUE)

\* What the parsers of text still have, at most one text and one tool, comes first.
Completes ==
    /\ At("chunks") /\ finished
    /\ \E l \in {ledger, Think(ledger), Say(ledger)} :
       \E m \in {l} \cup {HeuristicTool(l, args) : args \in {"partial", "whole"}} :
         Release(SuccessTail(FlushHeld(Fill(m))), "completed")
    /\ UNCHANGED <<sent, streamVars, recoveryVars>>

-----------------------------------------------------------------------------
(* Midstream recovery.                                                     *)

\* A request of collect_text fails.
RequestFails(retryable) ==
    /\ At("continue") \/ At("repair")
    /\ IF retryable /\ requests + 1 < MaxAttempts
       THEN /\ requests' = requests + 1
            /\ UNCHANGED <<sent, out, held, committed, ledger, phase, streamVars,
                           todo, repairs>>
       ELSE FinalError

\* The answer continues the thinking, the text, or both.
Continued ==
    /\ At("continue")
    /\ \E l \in {Think(ledger), Say(ledger), Say(Think(ledger))} :
         Release(SuccessTail(l), "recovered")
    /\ UNCHANGED <<sent, streamVars, recoveryVars>>

ContinuesNothing == At("continue") /\ FinalError

\* The answer completes the arguments of the first tool to be repaired.
Repaired ==
    /\ At("repair")
    /\ LET l == Delta(ledger, Head(todo), "whole")
       IN  IF Tail(todo) # <<>>
           THEN /\ ledger' = l /\ todo' = Tail(todo)
                /\ repairs' = 0 /\ requests' = 0
                /\ UNCHANGED <<sent, out, held, committed, phase, streamVars>>
           ELSE /\ Release(IF AllToolsWhole(l) THEN SuccessTail(l)
                           ELSE ErrorTail(Logged(l)),
                           IF AllToolsWhole(l) THEN "recovered" ELSE "failed")
                /\ UNCHANGED <<sent, streamVars, recoveryVars>>

RepairRefused ==
    /\ At("repair")
    /\ IF repairs + 1 < MaxAttempts
       THEN /\ repairs' = repairs + 1 /\ requests' = 0
            /\ UNCHANGED <<sent, out, held, committed, ledger, phase, streamVars, todo>>
       ELSE FinalError

-----------------------------------------------------------------------------
Upstream ==
    \/ Begin \/ CreateSucceeds \/ \E r \in BOOLEAN : CreateFails(r)
    \/ ThinkingChunk \/ TextChunk \/ ToolTextChunk \/ \E c \in Calls : CallChunk(c)
    \/ FinishChunk \/ Truncated \/ Completes \/ \E r \in BOOLEAN : StreamBreaks(r)
    \/ \E r \in BOOLEAN : RequestFails(r)
    \/ Continued \/ ContinuesNothing \/ Repaired \/ RepairRefused

Next == Yield \/ Disconnect \/ Upstream

Spec == Init /\ [][Next]_vars

\* The upstream answers or times out, and the client takes what it is sent.
FairSpec == Spec /\ WF_vars(Yield) /\ WF_vars(Upstream)
-----------------------------------------------------------------------------
(* Properties.                                                             *)

Contract == INSTANCE StreamContract WITH sent <- sent

\* Types of the variables of run, of the holdback and of the controller.
TypeOK ==
    /\ sent \in Seq(Contract!Event) /\ out \in Seq(Contract!Event)
    /\ held \in Seq(Contract!Event)
    /\ committed \in BOOLEAN /\ finished \in BOOLEAN
    /\ phase \in Phase
    /\ chunks \in 0 .. MaxChunks /\ early \in 0 .. MaxEarly
    /\ \A i \in DOMAIN todo : todo[i] \in DOMAIN ledger.blocks
    /\ repairs \in 0 .. MaxAttempts - 1 /\ requests \in 0 .. MaxAttempts - 1

\* Whatever fails, and however often the stream starts again or is continued, the
\* client is sent one well-formed message: the adapter implements the contract
\* (stream.py run, recovery.py, ledger.py).
ContractSpec == Contract!Spec

\* A stream starts again only while the client has seen nothing of it
\* (RecoveryController.advance_failure).
RetryIsInvisible == [][early' # early => sent = <<>> /\ out = <<>>]_vars

Received(kind, b) == Cardinality({i \in DOMAIN sent : sent[i].kind = kind /\ sent[i].block = b})

\* A message that was not ended by an error has reached the client in full, each block
\* with every delta that the ledger has recorded for it: nothing stays in the holdback,
\* and nothing is lost between a broken stream and its continuation.
DeliveredInFull ==
    phase \in {"completed", "recovered"} /\ out = <<>> =>
      \A b \in DOMAIN ledger.blocks :
        /\ Received("open", b) = 1 /\ Received("stop", b) = 1
        /\ Received("delta", b) = ledger.blocks[b].deltas

\* A broken stream is passed off as a tool use only if every tool the client has been
\* sent got complete arguments (OpenAIChatRecovery.events and _repair_tool_args).
RecoveredToolsAreWhole ==
    phase = "recovered" =>
      \A b \in DOMAIN ledger.blocks :
        ledger.blocks[b].type = "tool" => ledger.blocks[b].args = "whole"

\* Every answer ends, for a client that stays: with its last event, after however many
\* retries (the bounds of advance_failure and collect_text).
StreamEnds == <>(phase = "gone" \/ Contract!Has(sent, "end"))
=============================================================================
