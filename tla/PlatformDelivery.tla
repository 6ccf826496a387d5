-------------------------- MODULE PlatformDelivery --------------------------
(***************************************************************************)
(* One call of a platform messenger: Telegram's, with its retry policy     *)
(* (src/messaging/platforms/telegram_io.py, _with_retry) and its deletion  *)
(* in batches that falls back to single messages, and Discord's            *)
(* (discord_io.py), which calls once.  The platform's API is external: a   *)
(* call takes effect or not, and may time out after it did; what it cannot *)
(* do it rejects.  python-telegram-bot raises a rejection as a subclass of *)
(* NetworkError or as a TelegramError of its own: both are modelled.       *)
(***************************************************************************)
EXTENDS Naturals, Sequences, FiniteSets

CONSTANTS
    MaxIds,     \* bound: messages in one deletion
    Batch,      \* TELEGRAM_DELETE_MESSAGES_BATCH_SIZE
    Tries       \* max_retries

ASSUME DeliveryAssumption ==
    MaxIds \in Nat \ {0} /\ Batch \in Nat \ {0} /\ Tries \in Nat \ {0}

VARIABLES
    platform,   \* "telegram" or "discord"
    op,         \* "send", "edit" or "delete"
    remaining,  \* ids the deletion has still to ask for, in order
    batch,      \* ids that the API call under way is about
    falling,    \* ids of the batch that failed, to be deleted one by one
    attempt, again, parsed,     \* of _with_retry: its round, whether the call is the one
                                \* after RetryAfter or without markup, and parse_mode
    chatIds,    \* of each id: "present", "gone", or "fixed" for one that cannot be changed
    copies,     \* messages that the send has put up
    edited,     \* the edit's text is in place
    unheard,    \* history: calls that took effect and were reported as timed out
    skipped,    \* history: ids that the deletion has left out without a call or an error
    outcome     \* "none", "returned" or "raised"

deliveryVars == <<platform, op, remaining, batch, falling, attempt, again, parsed, chatIds,
                  copies, edited, unheard, skipped, outcome>>

MsgId == 1 .. MaxIds
Take(s, n) == SubSeq(s, 1, IF Len(s) < n THEN Len(s) ELSE n)
From(s, n) == SubSeq(s, n + 1, Len(s))

\* Telegram's deletion drops the ids that are no integers, which may as well be the last,
\* and goes through the others one by one when the bot has no delete_messages.
DeletionStarts ==
    \E n \in 0 .. MaxIds :
      LET ids == [i \in 1 .. n |-> i]
      IN  /\ platform = "discord" => n = MaxIds
          /\ skipped = MsgId \ 1 .. n /\ outcome = IF n = 0 THEN "returned" ELSE "none"
          /\ \/ /\ falling = <<>>
                /\ LET k == IF platform = "telegram" THEN Batch ELSE 1
                   IN  remaining = From(ids, k) /\ batch = Take(ids, k)
             \/ /\ platform = "telegram"
                /\ falling = ids /\ batch = Take(ids, 1) /\ remaining = <<>>

DeliveryInit ==
    /\ platform \in {"telegram", "discord"} /\ op \in {"send", "edit", "delete"}
    /\ parsed \in BOOLEAN /\ attempt = 0 /\ again = FALSE
    /\ chatIds \in [MsgId -> {"present", "gone", "fixed"}]
    /\ copies = 0 /\ edited = FALSE /\ unheard = 0
    /\ IF op = "delete" THEN DeletionStarts
       ELSE /\ remaining = <<>> /\ batch = <<1>> /\ falling = <<>> /\ skipped = {}
            /\ outcome = "none"

Deleting == op = "delete"
Bulk == Deleting /\ platform = "telegram" /\ falling = <<>>

\* What the API does with the call, and with no other.
TakesEffect ==
    CASE op = "send" -> copies' = copies + 1 /\ UNCHANGED <<chatIds, edited>>
      [] op = "edit" -> edited' = TRUE /\ UNCHANGED <<chatIds, copies>>
      [] OTHER -> /\ chatIds' = [i \in MsgId |-> IF \E k \in DOMAIN batch : batch[k] = i
                                              THEN "gone" ELSE chatIds[i]]
                  /\ UNCHANGED <<copies, edited>>
NoEffect == UNCHANGED <<chatIds, copies, edited>>

Targets == {chatIds[batch[k]] : k \in DOMAIN batch}
Possible == op = "send" \/ Targets = {"present"}

\* Seeded fault: the fallback is over with its first message.
NextBatchAtOnce ==
    /\ attempt' = 0 /\ again' = FALSE /\ falling' = <<>>
    /\ batch' = Take(remaining, Batch) /\ remaining' = From(remaining, Batch)
    /\ outcome' = IF remaining = <<>> THEN "returned" ELSE outcome

\* The next id of the fallback, or the next batch, or the end; Discord has batches of one.
NextBatch ==
    LET n == IF platform = "telegram" THEN Batch ELSE 1
    IN  /\ attempt' = 0 /\ again' = FALSE
        /\ IF Len(falling) > 1
           THEN /\ falling' = Tail(falling) /\ batch' = <<falling[2]>>
                /\ UNCHANGED <<remaining, outcome>>
           ELSE /\ falling' = <<>>
                /\ batch' = Take(remaining, n) /\ remaining' = From(remaining, n)
                /\ outcome' = IF remaining = <<>> THEN "returned" ELSE outcome

\* The call returns to send_message, edit_message, delete_message or delete_messages.
Returns ==
    IF Deleting THEN NextBatch
    ELSE outcome' = "returned" /\ UNCHANGED <<remaining, batch, falling, attempt, again>>

\* It raises: a batch falls back to its messages one by one, the rest gives up.
Raises ==
    IF Bulk
    THEN /\ falling' = batch /\ batch' = Take(batch, 1) /\ attempt' = 0 /\ again' = FALSE
         /\ UNCHANGED <<remaining, outcome>>
    ELSE outcome' = "raised" /\ UNCHANGED <<remaining, batch, falling, attempt, again>>

\* A round of _with_retry after a failure: the last of them raises.
Retried ==
    IF platform = "discord" \/ again \/ attempt >= Tries - 1
    THEN Raises
    ELSE attempt' = attempt + 1 /\ UNCHANGED <<remaining, batch, falling, again, outcome>>

-----------------------------------------------------------------------------
CallSucceeds ==
    /\ outcome = "none" /\ Possible /\ TakesEffect /\ Returns
    /\ UNCHANGED <<platform, op, parsed, unheard, skipped>>

\* TimeoutError or NetworkError, of a call that was carried out or not.
CallTimesOut ==
    /\ outcome = "none" /\ Retried
    /\ \/ Possible /\ TakesEffect /\ unheard' = unheard + 1
       \/ NoEffect /\ UNCHANGED unheard
    /\ UNCHANGED <<platform, op, parsed, skipped>>

\* RetryAfter: one more call, outside the try.
CallLimited ==
    /\ outcome = "none" /\ platform = "telegram"
    /\ IF again THEN Raises
       ELSE again' = TRUE /\ UNCHANGED <<remaining, batch, falling, attempt, outcome>>
    /\ NoEffect /\ UNCHANGED <<platform, op, parsed, unheard, skipped>>

\* "Message is not modified", of an edit whose text is in place: nothing is left to do.
NotModified ==
    /\ outcome = "none" /\ platform = "telegram" /\ op = "edit" /\ edited
    /\ IF again THEN Raises ELSE Returns
    /\ NoEffect /\ UNCHANGED <<platform, op, parsed, unheard, skipped>>

\* The message is gone or cannot be changed.  Suppressed, except in a batch; raised as a
\* NetworkError it is tried again like one.
TargetRejected ==
    /\ outcome = "none" /\ ~ Possible
    /\ \/ platform = "telegram" /\ Retried
       \/ platform = "telegram" /\ (IF again \/ Bulk THEN Raises ELSE Returns)
       \/ /\ platform = "discord"
          /\ IF Deleting \/ "gone" \in Targets THEN Returns ELSE Raises
    /\ NoEffect /\ UNCHANGED <<platform, op, parsed, unheard, skipped>>

\* Discord's delete_message returns when it does not know the channel.
ChannelUnknown ==
    /\ outcome = "none" /\ platform = "discord" /\ Deleting
    /\ skipped' = skipped \cup {batch[k] : k \in DOMAIN batch}
    /\ Returns /\ NoEffect /\ UNCHANGED <<platform, op, parsed, unheard>>

\* "Can't parse entities": one more call without markup; as a NetworkError, the same again.
MarkupRejected ==
    /\ outcome = "none" /\ platform = "telegram" /\ op # "delete" /\ parsed
    /\ \/ Retried /\ UNCHANGED parsed
       \/ IF again THEN Raises /\ UNCHANGED parsed
          ELSE /\ again' = TRUE /\ parsed' = FALSE
               /\ UNCHANGED <<remaining, batch, falling, attempt, outcome>>
    /\ NoEffect /\ UNCHANGED <<platform, op, unheard, skipped>>

\* Any other error.
CallRefused ==
    /\ outcome = "none" /\ Raises /\ NoEffect /\ UNCHANGED <<platform, op, parsed, unheard, skipped>>

DeliveryNext ==
    \/ CallSucceeds \/ CallTimesOut \/ CallLimited \/ NotModified \/ TargetRejected
    \/ ChannelUnknown \/ MarkupRejected \/ CallRefused

DeliverySpec == DeliveryInit /\ [][DeliveryNext]_deliveryVars
-----------------------------------------------------------------------------
\* What the messenger reports is so: a send that returned has put up its message, and a
\* second one only for a call that was carried out and reported as timed out; a failed
\* send without such a call has put up none; an edit that returned is in place, or its
\* message gone or unchangeable; and after a deletion that returned every message it was
\* asked for is gone or cannot be deleted, whichever batches failed, except those that it
\* skips in silence: an id that is no integer, or one of a channel that Discord's client
\* does not know.
DeliveryIsHonest ==
    /\ op = "send" => copies <= unheard + 1
    /\ outcome = "returned" =>
         CASE op = "send" -> copies = unheard + 1
           [] op = "edit" -> edited \/ chatIds[1] # "present"
           [] OTHER -> \A i \in MsgId \ skipped : chatIds[i] # "present"
    /\ outcome = "raised" /\ op = "send" => copies = unheard
=============================================================================
