---------------------------- MODULE MCMessaging -----------------------------
(***************************************************************************)
(* What the application starts and stops, checked in one run: the pool of  *)
(* Claude CLIs, the conversations with their store, voice notes, the calls *)
(* to a chat platform, the status message of a run; and the providers of   *)
(* the gateway.  They share nothing here, and a behaviour is one of one of *)
(* them, which the first state chooses.                                    *)
(***************************************************************************)
EXTENDS MCManagedSessions, VoiceNotes, Conversations, PlatformDelivery, ProviderRuntimes,
        StatusMessage

VARIABLE component      \* which of them this behaviour is about

-----------------------------------------------------------------------------
voiceState == <<noteStep, noteStatus, pendingIds, cancelling, cancelledNotes>>

RoughIds == {<<"t1", "u1">>}

Component == {"sessions", "chat", "voice", "delivery", "status", "runtime"}

\* A component that the behaviour is not about has one first state, and stays in it.
MessagingInit ==
    /\ component \in Component /\ Init
    /\ ChatInit
    /\ VoiceInit
    /\ DeliveryInit
    /\ component # "delivery" =>
         /\ platform = "telegram"
         /\ op = "send"
         /\ parsed
         /\ chatIds = [i \in 1 .. 3 |-> "present"]
    /\ StatusInit
    /\ RuntimeInit

Others(c) ==
    /\ UNCHANGED component
    /\ IF c = "sessions" THEN TRUE ELSE UNCHANGED vars
    /\ IF c = "chat" THEN TRUE ELSE UNCHANGED chatVars
    /\ IF c = "voice" THEN TRUE ELSE UNCHANGED voiceState
    /\ IF c = "delivery" THEN TRUE ELSE UNCHANGED deliveryVars
    /\ IF c = "status" THEN TRUE ELSE UNCHANGED statusVars
    /\ IF c = "runtime" THEN TRUE ELSE UNCHANGED runtimeVars

MessagingNext ==
    \/ component = "sessions" /\ Next /\ Others("sessions")
    \/ component = "chat" /\ ChatNext /\ Others("chat")
    \/ component = "voice" /\ VoiceNext /\ Others("voice")
    \/ component = "delivery" /\ DeliveryNext /\ Others("delivery")
    \/ component = "status" /\ StatusNext /\ Others("status")
    \/ component = "runtime" /\ RuntimeNext /\ Others("runtime")

messagingVars == <<component, vars, chatVars, voiceState, deliveryVars,
                   statusVars, runtimeVars>>
MessagingSpec == MessagingInit /\ [][MessagingNext]_messagingVars
=============================================================================
