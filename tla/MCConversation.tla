--------------------------- MODULE MCConversation ---------------------------
(***************************************************************************)
(* A conversation, checked in one run: the queue of its messages in the    *)
(* chat, and what a model is told of its history.  They share nothing, and *)
(* a behaviour is one of one of them, which the first state chooses.       *)
(***************************************************************************)
EXTENDS MCTreeQueue, ChatConversion

VARIABLE component      \* which of them this behaviour is about

-----------------------------------------------------------------------------
\* A component that the behaviour is not about has one first state, and stays in it.
ConversationInit ==
    /\ component \in {"tree", "history"}
    /\ Init
    /\ ConvInit
    /\ component = "tree" => client = "messages" /\ replay = "disabled"

ConversationNext ==
    \/ component = "tree" /\ Next /\ UNCHANGED <<component, convVars>>
    \/ component = "history" /\ ConvNext /\ UNCHANGED <<component, vars>>

conversationVars == <<component, vars, convVars>>

ConversationSpec ==
    ConversationInit /\ [][ConversationNext]_conversationVars /\ Fairness
=============================================================================
