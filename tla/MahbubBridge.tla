---------------------------- MODULE MahbubBridge ----------------------------
(***************************************************************************)
(* One answer of the bridge: MahbubProvider.stream_response                *)
(* (src/providers/mahbub/client.py).  The stream of a head model is shown  *)
(* to the client as thinking; then the request goes, with what the head    *)
(* has decided, to the stream of a coding or a tooling model, whose blocks *)
(* are renumbered to follow the block of thinking.                         *)
(*                                                                         *)
(* Of the target the bridge relies on what a client relies on: its stream  *)
(* is one that StreamContract allows, and it has one block of text or      *)
(* thinking open at a time; but it may break off.                          *)
(***************************************************************************)
EXTENDS StreamLedger

CONSTANTS
    MaxHead,       \* bound: events of the head's stream
    MaxTarget      \* bound: events of the target's

ASSUME BridgeAssumption == MaxTarget \in Nat

VARIABLES
    bridgeSent,    \* what the client has taken
    bridgeOut,     \* events the generator is about to yield
    bridgeLedger,
    bridgePhase,   \* where stream_response is
    headEvents,    \* events read from the head
    target         \* what the target has sent

bridgeVars == <<bridgeSent, bridgeOut, bridgeLedger, bridgePhase, headEvents, target>>

Client   == INSTANCE StreamContract WITH sent <- bridgeSent
Theirs   == INSTANCE StreamContract WITH sent <- target

\* "raised": the exception left the generator; "broken": the target broke off; "cut":
\* it did while one of its tools was open.
Over == {"done", "raised", "broken", "cut"}

BridgeInit ==
    /\ bridgeSent = <<>> /\ bridgeOut = <<>> /\ bridgeLedger = NewLedger
    /\ bridgePhase = "start" /\ headEvents = 0 /\ target = <<>>

BridgeYield ==
    /\ bridgeOut # <<>>
    /\ bridgeSent' = Append(bridgeSent, Head(bridgeOut)) /\ bridgeOut' = Tail(bridgeOut)
    /\ UNCHANGED <<bridgeLedger, bridgePhase, headEvents, target>>

AtPhase(p) == bridgePhase = p /\ bridgeOut = <<>>

\* What a step has put into the ledger's log is what it yields.
Yields(l) == bridgeLedger' = Logged(l) /\ bridgeOut' = l.log

-----------------------------------------------------------------------------
(* The head.                                                               *)

\* Resolving the head's provider may fail, when nothing has been sent.
HeadUnavailable ==
    /\ AtPhase("start") /\ bridgePhase' = "raised"
    /\ UNCHANGED <<bridgeSent, bridgeOut, bridgeLedger, headEvents, target>>

BeginHead ==
    /\ AtPhase("start") /\ bridgePhase' = "head"
    /\ Yields(OpenBlock(StartMessage(bridgeLedger), "thinking"))
    /\ UNCHANGED <<bridgeSent, headEvents, target>>

ThinkOn(l) == Delta(l, l.thinking, "none")

\* Thinking is passed on.  Of a text the leader parser returns thinking, other text, both
\* or neither, and may learn the delegate; an error is passed on as it is.
HeadEvent ==
    /\ AtPhase("head") /\ headEvents < MaxHead /\ headEvents' = headEvents + 1
    /\ \E l \in {bridgeLedger, ThinkOn(bridgeLedger), ThinkOn(ThinkOn(bridgeLedger)),
                 TopLevelError(bridgeLedger)} : Yields(l)
    /\ UNCHANGED <<bridgeSent, bridgePhase, target>>

\* The head's stream is over, and what it has said is its decision.
Decide(l) ==
    /\ Yields(StopBlock(l, l.thinking)) /\ bridgePhase' = "delegate"
    /\ UNCHANGED <<bridgeSent, headEvents, target>>

HeadEnds  == AtPhase("head") /\ Decide(bridgeLedger)
HeadFails == AtPhase("head") /\ Decide(ThinkOn(bridgeLedger))

-----------------------------------------------------------------------------
(* The target: the coding model, or the tooling model if the delegate says *)
(* so, which the stream does not depend on.                                *)

\* The request of the target is built; resolving its provider is not guarded.
TargetUnavailable ==
    /\ AtPhase("delegate") /\ bridgePhase' = "raised"
    /\ UNCHANGED <<bridgeSent, bridgeOut, bridgeLedger, headEvents, target>>

BeginTarget ==
    /\ AtPhase("delegate") /\ bridgePhase' = "target"
    /\ UNCHANGED <<bridgeSent, bridgeOut, bridgeLedger, headEvents, target>>

\* Seeded fault: blocks keep their numbers.
ShiftedNot(block) == block

\* The target's blocks follow the block of thinking.
Shifted(block) == block + 1

\* content_block_start, content_block_delta and content_block_stop of the ledger, for a
\* block whose number is given.
StartAt(l, b, type) ==
    [Emit(l, "open", b, type) EXCEPT
       !.blocks       = [i \in DOMAIN l.blocks \cup {b} |->
                           IF i = b THEN [type |-> type, args |-> "none", deltas |-> 0]
                           ELSE l.blocks[i]],
       !.text         = IF type = "text" THEN b ELSE @,
       !.textOpen     = @ \/ type = "text",
       !.thinking     = IF type = "thinking" THEN b ELSE @,
       !.thinkingOpen = @ \/ type = "thinking"]

Forward(l, e) ==
    CASE e.kind = "start" -> l
      [] e.kind = "open"  -> StartAt(l, Shifted(e.block), e.type)
      [] e.kind = "delta" -> Delta(l, Shifted(e.block), "none")
      [] e.kind = "stop"  -> StopBlock(l, Shifted(e.block))
      [] e.kind = "usage" -> Usage(l)
      [] e.kind = "end"   -> EndMessage(l)
      [] e.kind = "error" -> TopLevelError(l)

\* What the target may send next.  Blocks are numbered one after the other; there is one
\* message_delta, after the blocks, and at most one error.
TargetMaySend(e) ==
    /\ Theirs!Legal(target, e)
    /\ e.kind \in {"usage", "error"} => ~ Theirs!Has(target, e.kind)
    /\ e.kind \in {"open", "delta"} => ~ Theirs!Has(target, "usage")
    /\ e.kind = "stop" =>
         \E i \in DOMAIN target : target[i] = [e EXCEPT !.kind = "open"]
    /\ e.kind = "open" =>
         /\ e.block = Cardinality(Theirs!Blocks(target, "open")) + 1
         /\ \A b \in Theirs!OpenBlocks(target) :
              \E i \in DOMAIN target : target[i].kind = "open" /\ target[i].block = b
                                         /\ target[i].type = "tool"

TargetEvent ==
    /\ AtPhase("target") /\ Len(target) < MaxTarget
    /\ \E kind \in {"start", "open", "delta", "stop", "error", "usage", "end"},
          type \in BlockTypes, b \in 1 .. MaxTarget :
         LET e == IF kind \in {"open", "delta", "stop"}
                  THEN [kind |-> kind, block |-> b, type |-> type]
                  ELSE [kind |-> kind, block |-> 0, type |-> "message"]
         IN  /\ TargetMaySend(e) /\ target' = Append(target, e)
             /\ \/ Yields(Forward(bridgeLedger, e))
                \* a delta of stray tags only is not passed on
                \/ e.kind = "delta" /\ e.type # "tool" /\ Yields(bridgeLedger)
    /\ UNCHANGED <<bridgeSent, bridgePhase, headEvents>>

TargetEnded == Theirs!Has(target, "end")
ToolOpen    == \E i \in DOMAIN target : target[i].type = "tool" /\
                 target[i].block \in Theirs!OpenBlocks(target)

\* close_all_blocks: the text or the thinking that is open.  Tools that were opened by
\* their number are not among its tool_states.
CloseOpen(l) == CloseAll(l)

\* The target raises: the message is ended for it.
TargetFails ==
    /\ AtPhase("target") /\ ~ TargetEnded
    /\ Yields(EndMessage(Usage(TopLevelError(CloseOpen(bridgeLedger)))))
    /\ bridgePhase' = IF ToolOpen THEN "cut" ELSE "broken"
    /\ UNCHANGED <<bridgeSent, headEvents, target>>

\* The target's stream is over, as it should be or before its message_stop.
TargetEnds ==
    /\ AtPhase("target")
    /\ IF TargetEnded THEN Yields(bridgeLedger)
       ELSE LET l == CloseOpen(bridgeLedger)
            IN  Yields(EndMessage(IF Theirs!Has(target, "usage") THEN l ELSE Usage(l)))
    /\ bridgePhase' = IF TargetEnded THEN "done" ELSE IF ToolOpen THEN "cut" ELSE "broken"
    /\ UNCHANGED <<bridgeSent, headEvents, target>>

BridgeWorks ==
    \/ HeadUnavailable \/ BeginHead \/ HeadEvent \/ HeadEnds \/ HeadFails
    \/ TargetUnavailable \/ BeginTarget \/ TargetEvent \/ TargetFails \/ TargetEnds

BridgeNext == BridgeYield \/ BridgeWorks
BridgeSpec == BridgeInit /\ [][BridgeNext]_bridgeVars
-----------------------------------------------------------------------------
(* Properties.                                                             *)

\* From two streams the client gets one message of its contract, whatever fails in them;
\* but for the blocks of tools that a broken target has left open, which close_all_blocks
\* does not know (stream_response; assert_anthropic_stream_contract would refuse them).
BridgeKeepsContract ==
    /\ Client!Init
    /\ [][Client!Send \/ bridgePhase = "cut"]_bridgeSent

\* The openings and closings of blocks in a stream, by their places.
Marks(s) == {i \in DOMAIN s : s[i].kind \in {"open", "stop"}}

\* When all is over the client has its message_stop, unless the provider of one of the two
\* models could not be had; and a target that completed its message has reached it in
\* full: its blocks, opened and closed in the target's order, after the thinking.
TargetReachesClient ==
    bridgePhase \in Over \ {"raised"} /\ bridgeOut = <<>> =>
      /\ Client!Has(bridgeSent, "end")
      /\ bridgePhase = "done" =>
           LET Reached(k, i) == bridgeSent[k] = [target[i] EXCEPT !.block = @ + 1]
           IN  /\ \A i, j \in Marks(target) : i <= j =>
                    \E k, m \in Marks(bridgeSent) : k <= m /\ Reached(k, i) /\ Reached(m, j)
               /\ \A k, m \in Marks(bridgeSent) : bridgeSent[k].block > 1 =>
                    /\ \E i \in Marks(target) : Reached(k, i)
                    /\ bridgeSent[m].block = 1 => m < k

\* The client of the bridge sees one stream of the contract, with all of the target's.
BridgeIsTransparent == BridgeKeepsContract /\ []TargetReachesClient
=============================================================================
