--------------------------- MODULE ResponsesStream ---------------------------
(***************************************************************************)
(* An answer of the gateway as an OpenAI Responses stream:                 *)
(* iter_responses_sse_from_anthropic (src/core/openai_responses/stream.py) *)
(* with ResponsesStreamAssembler, ResponseBlockCompleter and               *)
(* ResponsesOutputLedger (openai_responses/streaming/).                    *)
(*                                                                         *)
(* Its input is any stream of StreamContract, cut off or failing anywhere. *)
(* Items are numbered from 1 in the order of their output slots; the       *)
(* events for the parts of an item are one with those of the item.         *)
(***************************************************************************)
EXTENDS Naturals, Sequences, FiniteSets, NumberSets

CONSTANTS
    MaxIndex,           \* bound: blocks of the Anthropic message
    MaxInput            \* bound: events of the Anthropic message

VARIABLES
    given,              \* the events of the Anthropic message so far
    response,           \* the events of the Responses stream so far
    items,              \* the output slots
    active,             \* _active_blocks: from block to slot, 0 for none
    provisional,        \* is _provisional_error set
    stopReason,
    over                \* "", or how the stream ended

responsesVars == <<given, response, items, active, provisional, stopReason, over>>

Input == INSTANCE StreamContract WITH sent <- given

ActiveBlock == 1 .. MaxIndex

\* The arguments of a call are "whole" when they parse; a custom tool takes any text.
ItemKind == {"text", "thinking", "function", "custom"}
StopReason == {"end_turn", "tool_use", "max_tokens"}

Part(kind, slot) == [kind |-> kind, slot |-> slot, output |-> <<>>]

-----------------------------------------------------------------------------
(* The assembler, from [items, active, provisional, out] to another one;   *)
(* out is the Responses stream with the events that are added to it.       *)

\* _ensure_started.
Assembler ==
    [items |-> items, active |-> active, provisional |-> provisional,
     out |-> IF response = <<>> THEN <<Part("created", 0)>> ELSE response]

\* A function call whose arguments are no object stays without an end, and the
\* response is to fail.  _fail_invalid_function_call.
Invalid(item) == item.kind = "function" /\ item.args = "partial"

\* The assembler when the blocks are no longer active, and of their slots these are done.
Completed(a, blocks, slots, done) ==
    LET order == InOrder(done)
    IN  [items |-> [k \in DOMAIN a.items |-> [a.items[k] EXCEPT !.done = @ \/ k \in done]],
         active |-> [b \in ActiveBlock |-> IF b \in blocks THEN 0 ELSE a.active[b]],
         provisional |-> a.provisional \/ done # slots,
         out |-> a.out \o [i \in DOMAIN order |-> Part("done", order[i])]]

Slots(a, blocks) == {a.active[b] : b \in blocks} \ {0}

\* Seeded fault: a call that does not parse is passed over.
CompleteAnything(a, blocks) == Completed(a, blocks, Slots(a, blocks), Slots(a, blocks))

\* complete_block for those of some blocks that are active, in the order of their slots.
\* What was kept of a call's arguments is sent with its end.
CompleteBlocks(a, blocks) ==
    LET slots == Slots(a, blocks)
    IN  Completed(a, blocks, slots, {k \in slots : ~ Invalid(a.items[k])})

\* _start_text_block, _start_reasoning_block and _start_tool_block.
StartItem(a, b, kind) ==
    LET m    == CompleteBlocks(a, {b})
        slot == Len(m.items) + 1
    IN  [items  |-> Append(m.items, [kind |-> kind, args |-> "none", done |-> FALSE]),
         active |-> [m.active EXCEPT ![b] = slot],
         provisional |-> m.provisional,
         out    |-> Append(m.out, Part("added", slot))]

\* Text is passed on at once, arguments are kept until the call is complete.
ContinueItem(a, b, args) ==
    LET slot == a.active[b]
    IN  IF slot = 0 THEN a
        ELSE IF a.items[slot].kind \in {"text", "thinking"}
             THEN [a EXCEPT !.out = Append(@, Part("delta", slot))]
        ELSE [a EXCEPT !.items[slot].args = args]

FlushActive(a) == CompleteBlocks(a, ActiveBlock)

\* The last event, with the items that were committed.
EndWith(a, kind) ==
    [a EXCEPT !.out = Append(@, [kind |-> kind, slot |-> 0,
                                 output |-> InOrder({k \in DOMAIN a.items : a.items[k].done})])]

\* finish_response.
Verdict(a) ==
    IF a.provisional THEN "failed"
    ELSE IF stopReason = "max_tokens" THEN "incomplete"
    ELSE "completed"

Became(a, end) ==
    /\ items' = a.items /\ active' = a.active /\ provisional' = a.provisional
    /\ response' = a.out /\ over' = end

FinishResponse ==
    LET a == FlushActive(Assembler) IN Became(EndWith(a, Verdict(a)), Verdict(a))

FailResponse == Became(EndWith(FlushActive(Assembler), "failed"), "failed")

-----------------------------------------------------------------------------

ResponsesInit ==
    /\ given = <<>> /\ response = <<>> /\ items = <<>>
    /\ active = [b \in ActiveBlock |-> 0] /\ provisional = FALSE
    /\ stopReason = "end_turn" /\ over = ""

\* The provider's stream goes on.
Give(kind, block, type) ==
    /\ over = "" /\ Len(given) < MaxInput
    /\ given' = Append(given, [kind |-> kind, block |-> block, type |-> type])
    /\ Input!Send

BlockOpens(b, kind) ==
    /\ Give("open", b, IF kind \in {"text", "thinking"} THEN kind ELSE "tool")
    /\ Became(StartItem(Assembler, b, kind), "") /\ UNCHANGED stopReason

BlockContinues(b, args) ==
    /\ \E type \in {"text", "thinking", "tool"} : Give("delta", b, type)
    /\ Became(ContinueItem(Assembler, b, args), "") /\ UNCHANGED stopReason

BlockStops(b) ==
    /\ \E type \in {"text", "thinking", "tool"} : Give("stop", b, type)
    /\ Became(CompleteBlocks(Assembler, {b}), "") /\ UNCHANGED stopReason

MessageStarts == Give("start", 0, "message") /\ Became(Assembler, "") /\ UNCHANGED stopReason

\* _record_message_delta.
MessageDelta ==
    /\ Give("usage", 0, "message") /\ stopReason' \in StopReason /\ Became(Assembler, "")

MessageStops == Give("end", 0, "message") /\ FinishResponse /\ UNCHANGED stopReason

ErrorEvent == Give("error", 0, "message") /\ FailResponse /\ UNCHANGED stopReason

\* The provider's stream ends without a message_stop: finish_if_needed.
InputEnds == over = "" /\ FinishResponse /\ UNCHANGED <<given, stopReason>>

\* It raises: before the first event the caller gets the exception.
InputFails ==
    /\ over = "" /\ UNCHANGED <<given, stopReason>>
    /\ IF response = <<>> THEN over' = "raised" /\ UNCHANGED <<response, items, active, provisional>>
       ELSE FailResponse

ResponsesNext ==
    \/ MessageStarts \/ MessageDelta \/ MessageStops \/ ErrorEvent \/ InputEnds \/ InputFails
    \/ \E b \in ActiveBlock :
         \/ BlockStops(b)
         \/ \E kind \in ItemKind : BlockOpens(b, kind)
         \/ \E args \in {"partial", "whole"} : BlockContinues(b, args)

ResponsesSpec == ResponsesInit /\ [][ResponsesNext]_responsesVars
-----------------------------------------------------------------------------
(* Properties.                                                             *)

Terminal == {"completed", "incomplete", "failed"}

\* The slots that the first n events of a stream name in events of a kind.
Named(s, n, kind) == {s[i].slot : i \in {j \in 1 .. n : s[j].kind = kind}}
Carried(c) == {c.output[i] : i \in DOMAIN c.output}

\* May event k of a stream follow those before it?
LegalPart(s, k) ==
    LET c     == s[k]
        added == Named(s, k - 1, "added")
        done  == Named(s, k - 1, "done")
    IN  /\ c.kind = "created" <=> k = 1
        /\ \A i \in 1 .. k - 1 : s[i].kind \notin Terminal
        /\ c.kind = "added" => c.slot = Cardinality(added) + 1
        /\ c.kind \in {"delta", "done"} => c.slot \in added \ done
        /\ c.kind \in Terminal => Carried(c) = done
        /\ c.kind = "completed" => done = added

\* However the blocks of the message overlap and wherever it breaks off, each output item
\* is added under the next free index and ended at most once before the one terminal
\* event, which carries the items that were ended; a response is completed only with all
\* of its items (process_anthropic_event, finish_response).
ResponseIsWellFormed == \A k \in DOMAIN response : LegalPart(response, k)

\* A response is over when and only when its terminal event was sent; then it holds as
\* many items as the message had blocks, unless it failed, and no function call among
\* them has arguments that do not parse (_fail_invalid_function_call).
ResponseAccountsForBlocks ==
    /\ over \in Terminal <=> \E k \in DOMAIN response : response[k].kind \in Terminal
    /\ over \in {"completed", "incomplete"} =>
         LET output == response[Len(response)].output
         IN  /\ Len(output) = Cardinality(Input!Blocks(given, "open"))
             /\ \A i \in DOMAIN output : ~ Invalid(items[output[i]])

\* A client of /v1/responses gets a well-formed response with an item for every block.
ResponseIsFaithful == ResponseIsWellFormed /\ ResponseAccountsForBlocks
=============================================================================
