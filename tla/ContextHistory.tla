--------------------------- MODULE ContextHistory ---------------------------
(***************************************************************************)
(* What a model is shown of a conversation: the gateway's and the          *)
(* providers' compression of the history (src/core/context/compressor.py), *)
(* the flattening of its blocks to text (providers/ollama/client.py), the  *)
(* token budget (core/context/budget.py), and the cache of the files that  *)
(* the history reads and writes (core/context/store.py).                   *)
(*                                                                         *)
(* A block is text, a call, a result or an attachment, with its size; a    *)
(* message is a sequence of them, or a string.  In a request to            *)
(* /v1/messages blocks are models when the gateway compresses them;        *)
(* requests to /v1/responses are compressed by the provider alone, which   *)
(* makes them texts first.  The content of a file is named by the file.    *)
(***************************************************************************)
EXTENDS Naturals, Sequences, FiniteSets, SequencesExt

CONSTANTS
    File,
    NoFile,
    MaxMessages,    \* bound: messages of a conversation
    MaxCalls,       \* bound: calls of one message
    MaxFiles,       \* max_files_per_session
    RecentTurns,    \* recent_turn_count
    HeadTurns,      \* context_head_recent_turns
    MaxResult,      \* max_result_chars
    Budget          \* available_history_budget

\* The store has room for a file; a result that is cut is no shorter than a summary.
ASSUME ContextAssumption ==
    /\ NoFile \notin File
    /\ MaxCalls \in Nat /\ MaxFiles \in Nat \ {0} /\ MaxResult \in Nat \ {0}
    /\ RecentTurns \in Nat /\ HeadTurns \in Nat

VARIABLES
    wire,           \* "messages" or "responses"
    conversation,   \* its messages, as the client sends them
    fileCache,      \* SessionData.active_files, in the order of insertion
    turn,           \* SessionData.current_turn
    coderShown,     \* what the last request showed the coding model: messages, each with
                    \* its place
    headShown       \* what it showed the reasoning model before

contextVars == <<wire, conversation, fileCache, turn, coderShown, headShown>>

Of(kind, f, n) == [kind |-> kind, file |-> f, size |-> n, flat |-> FALSE]
Text == Of("text", NoFile, 1)
Attachment == Of("other", NoFile, 1)
Read(f)  == Of("read", f, 1)
Write(f) == Of("write", f, 2)
Result(f, n) == Of("result", f, n)      \* f: what it shows, if a file

FileCall == {Read(f) : f \in File} \cup {Write(f) : f \in File}
IsCall(b) == b.kind \in {"read", "write"}

SizeOf(blocks) == FoldLeft(LAMBDA n, b : n + b.size, 0, blocks)
SizeOfAll(msgs) == FoldLeft(LAMBDA n, m : n + 1 + SizeOf(m.blocks), 0, msgs)

-----------------------------------------------------------------------------
(* The store.                                                              *)

At(cache, f) == {i \in DOMAIN cache : cache[i].file = f}

\* update_file: an entry is replaced in place; a new one evicts the first of those that
\* were updated in the oldest turn.
UpdateFile(cache, f, content, now) ==
    LET entry == [file |-> f, content |-> content, updated |-> now]
        oldest == CHOOSE i \in DOMAIN cache : \A j \in DOMAIN cache :
                    cache[i].updated < cache[j].updated
                      \/ (cache[i].updated = cache[j].updated /\ i <= j)
    IN  IF At(cache, f) # {}
        THEN [i \in DOMAIN cache |-> IF i \in At(cache, f) THEN entry ELSE cache[i]]
        ELSE Append(IF Len(cache) >= MaxFiles THEN RemoveAt(cache, oldest) ELSE cache, entry)

-----------------------------------------------------------------------------
(* The compressions.                                                       *)

\* format_anthropic_messages_as_text: all but attachments become texts.
Flatten(msgs) ==
    LET AsText(b) == [b EXCEPT !.flat = b.kind # "other"]
    IN  [i \in DOMAIN msgs |->
           IF msgs[i].plain THEN msgs[i]
           ELSE [msgs[i] EXCEPT !.blocks = [k \in DOMAIN msgs[i].blocks |-> AsText(msgs[i].blocks[k])]]]

\* What the compression walks through: the blocks it has kept of the message, the cache,
\* and last_requested_file.
Walk(cache) == [kept |-> <<>>, cache |-> cache, wanted |-> NoFile]

Capped(b, recent) ==
    IF recent THEN [b EXCEPT !.size = IF @ > MaxResult THEN MaxResult ELSE @]
    ELSE [b EXCEPT !.size = 1, !.kind = "summary"]

\* A result is the content of the file last asked for; an old one gives way to a summary,
\* a long one is cut.
ResultBlock(w, b, recent, now) ==
    [kept   |-> Append(w.kept, Capped(b, recent)),
     cache  |-> IF w.wanted = NoFile THEN w.cache ELSE UpdateFile(w.cache, w.wanted, b.file, now),
     wanted |-> NoFile]

\* smart_compress_history, one block: what is not text is left out.
Block(w, b, recent, now) ==
    IF ~ b.flat THEN w
    ELSE CASE b.kind = "read"   -> [w EXCEPT !.kept = Append(@, b), !.wanted = b.file]
           [] b.kind = "write"  -> [w EXCEPT !.kept = Append(@, b),
                                             !.cache = UpdateFile(@, b.file, b.file, now)]
           [] b.kind = "result" -> ResultBlock(w, b, recent, now)
           [] OTHER -> [w EXCEPT !.kept = Append(@, b)]

\* A message stays as it is if fewer than so many of the assistant's come after it.
Recent(msgs, i, turns) ==
    Cardinality({j \in DOMAIN msgs : j > i /\ msgs[j].role = "assistant"}) < turns

\* All blocks of a message.
Walked(w, blocks, recent, now) ==
    LET upTo[k \in 0 .. Len(blocks)] ==
          IF k = 0 THEN w ELSE Block(upTo[k - 1], blocks[k], recent, now)
    IN  upTo[Len(blocks)]

\* A message that is a string stays one.
Passed(acc, m, recent, now) ==
    LET w == Walked([acc.walk EXCEPT !.kept = <<>>], m.blocks, recent, now)
    IN  IF m.plain THEN [acc EXCEPT !.out = Append(@, m)]
        ELSE [walk |-> w, out |-> Append(acc.out, [m EXCEPT !.blocks = w.kept])]

\* The whole history, with the cache that results.
Compress(msgs, cache, now) ==
    LET upTo[n \in 0 .. Len(msgs)] ==
          IF n = 0 THEN [walk |-> Walk(cache), out |-> <<>>]
          ELSE Passed(upTo[n - 1], msgs[n], Recent(msgs, n, RecentTurns), now)
    IN  upTo[Len(msgs)]

\* MessagesHandler.create compresses too, with a session of its own and before anything
\* is made text, so that of a list no block is kept.
Gateway(msgs) == IF wire = "messages" THEN Compress(msgs, <<>>, 0).out ELSE msgs

\* compress_message_history, for the reasoning model: results are shortened likewise, and
\* what an old call writes; no block is left out.
HeadBlock(b, recent) ==
    CASE b.kind = "result" -> Capped(b, recent)
      [] b.kind = "write" /\ ~ recent -> [b EXCEPT !.size = 1]
      [] OTHER -> b

HeadCompress(msgs) ==
    [i \in DOMAIN msgs |->
       [msgs[i] EXCEPT !.blocks =
          [k \in DOMAIN msgs[i].blocks |-> HeadBlock(msgs[i].blocks[k], Recent(msgs, i, HeadTurns))]]]

\* Seeded fault: a message that does not fit is passed over, the older ones are tried.
FitAround(msgs) ==
    IF SizeOfAll(msgs) <= Budget THEN msgs
    ELSE FoldRight(LAMBDA m, out : IF SizeOfAll(out) + 1 + SizeOf(m.blocks) <= Budget
                                   THEN <<m>> \o out ELSE out,
                   Front(msgs), <<Last(msgs)>>)

\* fit_messages_to_budget: the last message, and as many before it as fit.
Fit(msgs) ==
    LET Tails == {n \in 1 .. Len(msgs) : SizeOfAll(SubSeq(msgs, n, Len(msgs))) <= Budget}
    IN  IF SizeOfAll(msgs) <= Budget THEN msgs
        ELSE IF Tails = {} THEN <<Last(msgs)>>
        ELSE SubSeq(msgs, CHOOSE n \in Tails : \A k \in Tails : n <= k, Len(msgs))

-----------------------------------------------------------------------------
ContextInit ==
    /\ wire \in {"messages", "responses"}
    /\ conversation = <<>> /\ fileCache = <<>> /\ turn = 0
    /\ coderShown = <<>> /\ headShown = <<>>

Speak(role, blocks, plain) ==
    conversation' = Append(conversation,
      [role |-> role, blocks |-> blocks, plain |-> plain, at |-> Len(conversation) + 1])

LastSpeaker == IF conversation = <<>> THEN "assistant" ELSE Last(conversation).role

\* The calls of the last message follow its text.  They are answered together and in order;
\* a file that is read is shown, in a result of any size.
Called == IF conversation = <<>> THEN <<>> ELSE Tail(Last(conversation).blocks)

Answers ==
    {[k \in DOMAIN Called |->
        Result(IF Called[k].kind = "read" THEN Called[k].file ELSE NoFile, n)] : n \in {1, MaxResult + 1}}

UserSpeaks ==
    /\ Len(conversation) < MaxMessages /\ LastSpeaker = "assistant"
    /\ IF Called # <<>>
       THEN \E answers \in Answers : Speak("user", answers, FALSE)
       ELSE \/ Speak("user", <<Text>>, TRUE)
            \/ Speak("user", <<Text>>, FALSE)
            \/ Speak("user", <<Attachment, Text>>, FALSE)
    /\ UNCHANGED <<wire, fileCache, turn, coderShown, headShown>>

AssistantSpeaks ==
    /\ Len(conversation) < MaxMessages /\ LastSpeaker = "user"
    /\ \E n \in 0 .. MaxCalls : \E calls \in [1 .. n -> FileCall] :
         Speak("assistant", <<Text>> \o calls, FALSE)
    /\ UNCHANGED <<wire, fileCache, turn, coderShown, headShown>>

\* A request: the gateway's compression, the provider's for the reasoning model, and that
\* for the coding model with the budget.
Serve ==
    /\ LastSpeaker = "user"
    /\ IF coderShown = <<>> THEN TRUE ELSE Last(coderShown).at # Len(conversation)
    /\ turn' = turn + 1
    /\ LET flat == Flatten(Gateway(conversation))
           c    == Compress(flat, fileCache, turn + 1)
       IN  /\ headShown' = HeadCompress(flat)
           /\ fileCache' = c.walk.cache
           /\ coderShown' = Fit(c.out)
    /\ UNCHANGED <<wire, conversation>>

ContextNext == UserSpeaks \/ AssistantSpeaks \/ Serve
ContextSpec == ContextInit /\ [][ContextNext]_contextVars
-----------------------------------------------------------------------------
\* The coding model is shown the last messages without a gap, within the budget or one
\* message alone.
ShownIsTheEnd ==
    /\ \A i \in DOMAIN coderShown : coderShown[i].at = Last(coderShown).at - (Len(coderShown) - i)
    /\ SizeOfAll(coderShown) <= Budget \/ Len(coderShown) = 1

\* It is shown nothing that the model which plans for it was not shown, if that is shown as
\* many turns, and as long or longer but for what an old call writes.
PlannerWasShown ==
    \A i \in DOMAIN coderShown : \A k \in DOMAIN coderShown[i].blocks :
      \E n \in DOMAIN headShown[coderShown[i].at].blocks :
        LET b == headShown[coderShown[i].at].blocks[n]
        IN  /\ b.file = coderShown[i].blocks[k].file
            /\ HeadTurns >= RecentTurns /\ b.kind # "write" => b.size >= coderShown[i].blocks[k].size

\* All of a message that is text is kept, in its order and whole but for a long result.
AllText(kept, given) ==
    LET texts == {k \in DOMAIN given : given[k].kind # "other"}
    IN  \E at \in [DOMAIN kept -> texts] :
          /\ \A j, k \in DOMAIN kept : j < k => at[j] < at[k]
          /\ \A n \in texts : \E k \in DOMAIN kept : at[k] = n
          /\ \A k \in DOMAIN kept :
               /\ kept[k].file = given[at[k]].file
               /\ RecentTurns > 0 => kept[k].size = HeadBlock(given[at[k]], TRUE).size

\* Of the last message of a conversation that came as text blocks it is shown all of that.
LastTurnIsWhole ==
    wire = "responses" =>
      AllText(Last(coderShown).blocks, conversation[Last(coderShown).at].blocks)

ShownIsTheLatest == coderShown # <<>> => ShownIsTheEnd /\ PlannerWasShown /\ LastTurnIsWhole

\* A read is the only call of its message.
ReadsAreAlone ==
    \A m \in DOMAIN conversation : \A j, k \in DOMAIN conversation[m].blocks :
      conversation[m].blocks[j].kind = "read" /\ IsCall(conversation[m].blocks[k]) => j = k

\* Of a conversation without parallel reads, each file is cached once with a content of its
\* own, never with what another call answered; and no more of them than there is room for.
CacheIsOfItsFiles ==
    /\ Len(fileCache) <= MaxFiles
    /\ \A i, j \in DOMAIN fileCache : i # j => fileCache[i].file # fileCache[j].file
    /\ ReadsAreAlone => \A i \in DOMAIN fileCache : fileCache[i].content = fileCache[i].file

\* budget.py says of the trimming that the latest user turn is always preserved; of the
\* model's view of a request, that its text is there.
LatestTurnReachesModel ==
    coderShown # <<>> => \E k \in DOMAIN Last(coderShown).blocks : Last(coderShown).blocks[k].kind \in {"text", "result"}

\* smart_compress_history says of itself (R4) that what an old call writes is shortened.
OldWritesAreShortened ==
    LET served == SubSeq(conversation, 1, Last(coderShown).at)
    IN  \A i \in DOMAIN coderShown : ~ Recent(served, coderShown[i].at, RecentTurns) =>
          \A k \in DOMAIN coderShown[i].blocks :
            coderShown[i].blocks[k].kind = "write" => coderShown[i].blocks[k].size = 1

\* What a model is told of a conversation is its end, and its files are the files
\* (smart_compress_history, fit_messages_to_budget, update_file).
ContextIsCurrent == ShownIsTheLatest /\ CacheIsOfItsFiles
=============================================================================
