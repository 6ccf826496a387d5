---------------------------- MODULE LeaderParser ----------------------------
(***************************************************************************)
(* LeaderOutputParser (src/providers/mahbub/client.py): what the bridge    *)
(* makes of the text of its head model, chunk by chunk.                    *)
(*                                                                         *)
(* Text is a sequence of units.  A tag is two units, its "<..." and its    *)
(* rest, so that a chunk can end inside it; a "word" is longer than any    *)
(* tag and has no "<"; "lt" is a "<" that begins no tag.                   *)
(***************************************************************************)
EXTENDS Naturals, Sequences, FiniteSetsExt

Tag  == {"thinking", "delegate", "plan", "memory", "context"}
Held == {"plan", "memory", "context"}       \* tags that are read as a whole

Open(t)  == <<<<"open", t, 1>>, <<"open", t, 2>>>>
Close(t) == <<<<"close", t, 1>>, <<"close", t, 2>>>>
Word(w)  == <<<<"word", w, 1>>>>
Lt       == <<<<"lt", "<", 1>>>>

From(s, i) == SubSeq(s, i, Len(s))

\* str.find: 0 for -1.
Find(s, mark) ==
    LET at == {i \in 1 .. Len(s) - 1 : SubSeq(s, i, i + 1) = mark}
    IN  IF at = {} THEN 0 ELSE Min(at)

(***************************************************************************)
(* How much of a text without tags can be passed on: all that comes before *)
(* its last "<", if that is so near the end that it can begin a tag (24    *)
(* characters, 11 inside a tag).                                           *)
(***************************************************************************)
Cutoff(s) ==
    LET lts == {i \in DOMAIN s : s[i][1] # "word" /\ s[i][3] = 1}
    IN  IF lts = {} \/ \E i \in DOMAIN s : i > Max(lts) /\ s[i][1] = "word"
        THEN Len(s) ELSE Max(lts) - 1

NewParser ==
    [buffer |-> <<>>, mode |-> "text", plan |-> <<>>, memory |-> <<>>, context |-> <<>>,
     delegate |-> <<>>,      \* delegate_target
     thinking |-> <<>>,      \* what feed has returned as thinking
     said     |-> <<>>,      \* what it has returned as other text: guidance_text
     busy     |-> FALSE]     \* does the loop of feed go on

\* Text outside tags.  Several occurrences of a tag are read one after the other.
Outside(p) ==
    LET at(t)    == Find(p.buffer, Open(t))
        found    == {t \in Tag : at(t) # 0}
        first    == CHOOSE t \in found : \A u \in found : at(t) <= at(u)
        rest     == From(p.buffer, at(first) + 2)
        end      == Find(rest, Close(first))
        before   == [p EXCEPT !.said = @ \o SubSeq(p.buffer, 1, at(first) - 1)]
        cut      == Cutoff(p.buffer)
    IN  CASE found = {} ->
               [p EXCEPT !.said = @ \o SubSeq(p.buffer, 1, cut),
                         !.buffer = From(@, cut + 1), !.busy = FALSE]
          [] found # {} /\ first \notin Held ->
               [before EXCEPT !.buffer = rest, !.mode = first]
          [] found # {} /\ first \in Held /\ end = 0 ->
               [before EXCEPT !.buffer = From(@, at(first)), !.busy = FALSE]
          [] found # {} /\ first \in Held /\ end # 0 ->
               [before EXCEPT ![first] = SubSeq(rest, 1, end - 1),
                              !.buffer = From(rest, end + 2)]

\* Inside <thinking> and <delegate>, whose text is taken as it comes.
Inside(p) ==
    LET end == Find(p.buffer, Close(p.mode))
        cut == IF end # 0 THEN end - 1 ELSE Cutoff(p.buffer)
        q   == [p EXCEPT ![p.mode] = @ \o SubSeq(p.buffer, 1, cut)]
    IN  IF end = 0 THEN [q EXCEPT !.buffer = From(@, cut + 1), !.busy = FALSE]
        ELSE [q EXCEPT !.buffer = From(@, end + 2), !.mode = "text"]

RECURSIVE Loop(_)
Loop(p) == IF ~ p.busy THEN p
           ELSE Loop(IF p.mode = "text" THEN Outside(p) ELSE Inside(p))

Feed(p, chunk) == Loop([p EXCEPT !.buffer = @ \o chunk, !.busy = TRUE])

\* finalize: what the buffer still has of complete tags; the rest is dropped.
Finalize(p) ==
    LET start(t) == Find(p.buffer, Open(t))
        rest(t)  == From(p.buffer, start(t) + 2)
        end(t)   == Find(rest(t), Close(t))
        Has(t)   == start(t) # 0 /\ end(t) # 0
        Get(t, old) == IF Has(t) /\ (old = <<>> \/ t = "memory")
                       THEN SubSeq(rest(t), 1, end(t) - 1) ELSE old
    IN  [p EXCEPT !.plan = Get("plan", @), !.memory = Get("memory", @),
                  !.context = Get("context", @), !.delegate = Get("delegate", @),
                  !.buffer = <<>>]
=============================================================================
