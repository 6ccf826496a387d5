---------------------------- MODULE NativeLedger ----------------------------
(***************************************************************************)
(* The blocks of an answer that comes as Anthropic events already:         *)
(* transform_native_sse_block_event                                        *)
(* (src/core/anthropic/native_sse_block_policy.py), which renumbers the    *)
(* upstream's blocks, closes those that overlap and drops thinking that is *)
(* not wanted, and what AnthropicStreamLedger records of its output and    *)
(* adds to it (streaming/ledger.py), as operators from ledger to ledger.   *)
(*                                                                         *)
(* Blocks are numbered from 1 in the order of their start, downstream.  An *)
(* event may stray: it is passed on with the upstream's own number.        *)
(***************************************************************************)
EXTENDS Naturals, Sequences, FiniteSets, NumberSets

CONSTANT Index      \* the numbers the upstream gives to blocks

NewNative ==
    [blocks     |-> <<>>,                   \* _content_blocks: type, args, open
     segment    |-> [u \in Index |-> 0],    \* by_upstream: the block it is now
     order      |-> <<>>,                   \* by_upstream: its keys as they came
     dropped    |-> {},                     \* dropped_indexes
     suppressed |-> {},                     \* pending_suppressed_stops
     unseen     |-> {},                     \* blocks ended by a stray stop, which by_upstream
                                            \* has open
     text |-> 0, thinking |-> 0,            \* text_index, thinking_index when started
     started |-> FALSE,                     \* message_started
     usage   |-> FALSE,                     \* is stop_reason set
     stopped |-> FALSE,                     \* message_stopped
     log     |-> <<>>]

Note(n, kind, block, type) ==
    [n EXCEPT !.log = Append(@, [kind |-> kind, block |-> block, type |-> type])]

OfMessage(n, kind) ==
    [Note(n, kind, 0, "message") EXCEPT
       !.started = @ \/ kind = "start", !.usage = @ \/ kind = "usage",
       !.stopped = @ \/ kind = "end"]

BeginBlock(n, type) ==
    LET b == Len(n.blocks) + 1
    IN  [Note(n, "open", b, type) EXCEPT
           !.blocks   = Append(@, [type |-> type, args |-> "none", open |-> TRUE]),
           !.text     = IF type = "text" THEN b ELSE @,
           !.thinking = IF type = "thinking" THEN b ELSE @]

WriteBlock(n, b, args) ==
    [Note(n, "delta", b, n.blocks[b].type) EXCEPT !.blocks[b].args = args]

\* An event for each of several blocks, in that order.
EventEach(n, kind, order) ==
    [i \in DOMAIN order |->
       [kind |-> kind, block |-> order[i], type |-> n.blocks[order[i]].type]]

StopBlocks(n, order) ==
    LET stopped == {order[i] : i \in DOMAIN order}
    IN  [n EXCEPT
           !.log    = @ \o EventEach(n, "stop", order),
           !.blocks = [b \in DOMAIN n.blocks |->
                         [n.blocks[b] EXCEPT
                            !.open = n.blocks[b].open /\ b \notin stopped]],
           !.text     = IF @ \in stopped THEN 0 ELSE @,
           !.thinking = IF @ \in stopped THEN 0 ELSE @]

StillOpen(n) == {b \in DOMAIN n.blocks : n.blocks[b].open}
IsOpen(n, u) == n.segment[u] \in StillOpen(n) \cup n.unseen

-----------------------------------------------------------------------------
(* The block policy, of one event of the upstream.                         *)

\* The blocks that the numbers U are now, as by_upstream lists them.
SegmentsOf(n, U) ==
    LET keys == InOrder({i \in DOMAIN n.order : n.order[i] \in U})
    IN  [k \in DOMAIN keys |-> n.segment[n.order[keys[k]]]]

\* _synthetic_close_other_open_blocks.
CloseOthers(n, u) ==
    LET others == {v \in Index \ {u} : IsOpen(n, v)}
    IN  [StopBlocks(n, SegmentsOf(n, others)) EXCEPT
           !.suppressed = @ \cup others, !.unseen = @ \ {n.segment[v] : v \in others}]

\* _allocate_new_segment, of the block begun last.
NewSegment(n, u) ==
    [n EXCEPT !.segment[u] = Len(n.blocks),
              !.order      = IF n.segment[u] = 0 THEN Append(@, u) ELSE @]

PolicyStart(n, u, type, wanted) ==
    IF type = "thinking" /\ ~ wanted THEN [n EXCEPT !.dropped = @ \cup {u}]
    ELSE NewSegment(BeginBlock(CloseOthers(n, u), type), u)

\* Was u never opened?  A start or delta that is dropped opens nothing.
Unopened(n, u) == n.segment[u] = 0 /\ u \notin n.dropped

\* Does a delta stray, of a type that is not the block's, or of thinking that nothing
\* opened?  Does a stop?
DeltaStrays(n, u, type, wanted) ==
    /\ u \notin n.dropped /\ (type = "thinking" => wanted)
    /\ IF IsOpen(n, u) THEN n.blocks[n.segment[u]].type # type
       ELSE type = "thinking" /\ Unopened(n, u)
StopStrays(n, u, wanted) == Unopened(n, u) /\ wanted

\* What the ledger records of a delta for block b, which need not be there, or be of its
\* type.
StrayDelta(n, b, type) ==
    [Note(n, "delta", b, type) EXCEPT
       !.blocks = [c \in DOMAIN n.blocks |->
                     IF c = b /\ n.blocks[c].type = type
                     THEN [n.blocks[c] EXCEPT !.args = "partial"] ELSE n.blocks[c]]]

StrayStop(n, b) ==
    IF b \in DOMAIN n.blocks
    THEN [StopBlocks(n, <<b>>) EXCEPT !.unseen = @ \cup ({b} \cap StillOpen(n))]
    ELSE Note(n, "stop", b, "text")

\* A block that was closed for another one goes on as a new block; one that was never
\* opened is opened.
PolicyDelta(n, u, type, args, wanted) ==
    IF u \in n.dropped \/ (type = "thinking" /\ ~ wanted) THEN n
    ELSE IF DeltaStrays(n, u, type, wanted)
    THEN StrayDelta(n, IF IsOpen(n, u) THEN n.segment[u] ELSE u, type)
    ELSE IF IsOpen(n, u) THEN WriteBlock(n, n.segment[u], args)
    ELSE LET m == BeginBlock(n, type)
         IN  NewSegment([WriteBlock(m, Len(m.blocks), args) EXCEPT !.suppressed = @ \ {u}], u)

\* A stop is passed on if it is the first for its block, or strays.
PolicyStop(n, u, wanted) ==
    IF u \in n.dropped THEN n
    ELSE IF u \in n.suppressed THEN [n EXCEPT !.suppressed = @ \ {u}]
    ELSE IF IsOpen(n, u)
    THEN [StopBlocks(n, <<n.segment[u]>>) EXCEPT !.unseen = @ \ {n.segment[u]}]
    ELSE IF StopStrays(n, u, wanted) THEN StrayStop(n, u) ELSE n

-----------------------------------------------------------------------------
(* What the ledger adds.                                                   *)

ToolBlocks(n) == {b \in DOMAIN n.blocks : n.blocks[b].type = "tool"}
BrokenTools(n) == {b \in ToolBlocks(n) : n.blocks[b].args # "whole"}
Salvageable(n) == ToolBlocks(n) # {} /\ BrokenTools(n) = {}
Said(n, type) == \E b \in DOMAIN n.blocks : n.blocks[b].type = type /\ n.blocks[b].args # "none"

\* close_unclosed_blocks, the last one first.
CloseUnclosed(n) == StopBlocks(n, Backwards(StillOpen(n)))

CanAppend(n) == ~ n.usage /\ ~ n.stopped

\* append_text_suffix and append_thinking_suffix: the one ends the other, and it is added
\* to the last open block of its type.
AppendSuffix(n, type) ==
    LET other == IF type = "text" THEN n.thinking ELSE n.text
        m     == IF other # 0 THEN StopBlocks(n, <<other>>) ELSE n
        k     == IF (IF type = "text" THEN m.text ELSE m.thinking) # 0 THEN m
                 ELSE BeginBlock(m, type)
        open  == {b \in StillOpen(k) : k.blocks[b].type = type}
    IN  IF CanAppend(n) THEN WriteBlock(k, InOrder(open)[Cardinality(open)], "partial")
        ELSE n

\* append_tool_repair_suffix completes each tool, even one that has been stopped.
RepairTools(n) ==
    IF CanAppend(n)
    THEN [n EXCEPT
            !.log    = @ \o EventEach(n, "delta", InOrder(BrokenTools(n))),
            !.blocks = [b \in DOMAIN n.blocks |->
                          [n.blocks[b] EXCEPT
                             !.args = IF b \in BrokenTools(n) THEN "whole"
                                      ELSE n.blocks[b].args]]]
    ELSE n

UsageOnce(n) == IF n.usage THEN n ELSE OfMessage(n, "usage")
EndOnce(n) == IF n.stopped THEN n ELSE OfMessage(n, "end")
NativeSuccess(n) == EndOnce(UsageOnce(CloseUnclosed(n)))

\* emit_error.
ErrorText(n) ==
    LET m == BeginBlock(n, "text")
        b == Len(m.blocks)
    IN  StopBlocks(WriteBlock(m, b, "partial"), <<b>>)

\* midstream_error_tail.
NativeErrorTail(n) ==
    LET m == CloseUnclosed(n)
    IN  EndOnce(IF CanAppend(m) THEN OfMessage(ErrorText(m), "usage")
                ELSE OfMessage(m, "error"))

\* iter_provider_stream_error_sse_events, when nothing was sent.
ErrorMessage ==
    OfMessage(OfMessage(ErrorText(OfMessage(NewNative, "start")), "usage"), "end")
=============================================================================
