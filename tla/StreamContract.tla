--------------------------- MODULE StreamContract ---------------------------
(***************************************************************************)
(* What a client may be sent as the answer to one request: the shape that  *)
(* assert_anthropic_stream_contract checks                                 *)
(* (src/core/anthropic/stream_contracts.py), event by event.  It is the    *)
(* abstract specification of every stream of the gateway.                  *)
(*                                                                         *)
(* An event is a record with the fields kind, block and type:              *)
(*   "start"   message_start                                               *)
(*   "open"    content_block_start, of a block and its type                *)
(*   "delta"   content_block_delta                                         *)
(*   "stop"    content_block_stop                                          *)
(*   "error"   error                                                       *)
(*   "usage"   message_delta                                               *)
(*   "end"     message_stop                                                *)
(* Blocks are numbered from 1; the events of the whole message name 0.     *)
(***************************************************************************)
EXTENDS Naturals, Sequences

VARIABLE sent          \* the events that the client has been sent

BlockType == {"text", "thinking", "tool"}

Event ==
    [kind : {"start", "error", "usage", "end"}, block : {0}, type : {"message"}]
      \cup [kind : {"open", "delta", "stop"}, block : Nat \ {0}, type : BlockType]

Blocks(s, kind) == {s[i].block : i \in {j \in DOMAIN s : s[j].kind = kind}}
OpenBlocks(s)   == Blocks(s, "open") \ Blocks(s, "stop")
Has(s, kind)    == \E i \in DOMAIN s : s[i].kind = kind

(***************************************************************************)
(* May e follow the events s?  The assertions on single blocks, and the    *)
(* frame around them: one message_start, first, and one message_stop,      *)
(* last, when every block is closed and there was at least one.            *)
(***************************************************************************)
Legal(s, e) ==
    /\ e.kind = "start" <=> s = <<>>
    /\ ~ Has(s, "end")
    /\ e.kind = "open" => e.block \notin Blocks(s, "open")
    /\ e.kind = "delta" =>
         /\ e.block \in OpenBlocks(s)
         /\ \E i \in DOMAIN s :
              s[i].kind = "open" /\ s[i].block = e.block /\ s[i].type = e.type
    /\ e.kind = "stop" => e.block \in OpenBlocks(s)
    /\ e.kind = "end" => OpenBlocks(s) = {} /\ Has(s, "open")

Init == sent = <<>>

Send ==
    /\ sent' # <<>>
    /\ LET e == sent'[Len(sent')]
       IN  e \in Event /\ sent' = Append(sent, e) /\ Legal(sent, e)

Spec == Init /\ [][Send]_sent
=============================================================================
