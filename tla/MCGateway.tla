----------------------------- MODULE MCGateway ------------------------------
(***************************************************************************)
(* The gateway and what is around it, checked in one run: the agent that   *)
(* asks it, the requests it routes, the limiter that the calls to a        *)
(* provider share, and the streams of three kinds that it answers with;    *)
(* and, as the first of them, the outbox of the messaging side.  They      *)
(* share nothing here, and a behaviour is one of one of them, which the    *)
(* first state chooses.                                                    *)
(***************************************************************************)
EXTENDS MCMessageLimiter, AgentLoop, MessagesGateway, ContextHistory, MahbubBridge,
        NativeStream, ResponsesStream, ProviderLimiter, TLC

CONSTANTS x, y          \* streams of one provider

VARIABLE component      \* which of them this behaviour is about

VARIABLES text, unread, leader, model

Feed == INSTANCE TextFeed WITH Allowed <- {"Bash", "Write", "Read"}, MaxItems <- 4

-----------------------------------------------------------------------------
MCCaller == {x, y}
MCSymmetry == Permutations(MCCaller)

textState == <<text, unread, leader, model>>

Component == {"outbox", "agent", "context", "gateway", "text", "bridge", "native",
              "responses", "limiter"}

\* A component that the behaviour is not about has one first state, and stays in it.
GatewayInit ==
    /\ component \in Component /\ Init
    /\ AgentInit /\ (component = "agent" \/ contextFile.users = "none")
    /\ ContextInit /\ (component = "context" \/ wire = "messages")
    /\ GateInit
    /\ Feed!TextInit
    /\ component # "text" =>
         /\ text.reader = "leader"
         /\ text.units = <<>>
    /\ BridgeInit
    /\ NativeInit /\ (component = "native" \/ thinks)
    /\ ResponsesInit
    /\ LimiterInit

Others(c) ==
    /\ UNCHANGED component
    /\ IF c = "outbox" THEN TRUE ELSE UNCHANGED vars
    /\ IF c = "agent" THEN TRUE ELSE UNCHANGED agentVars
    /\ IF c = "context" THEN TRUE ELSE UNCHANGED contextVars
    /\ IF c = "gateway" THEN TRUE ELSE UNCHANGED gateVars
    /\ IF c = "text" THEN TRUE ELSE UNCHANGED textState
    /\ IF c = "bridge" THEN TRUE ELSE UNCHANGED bridgeVars
    /\ IF c = "native" THEN TRUE ELSE UNCHANGED nativeVars
    /\ IF c = "responses" THEN TRUE ELSE UNCHANGED responsesVars
    /\ IF c = "limiter" THEN TRUE ELSE UNCHANGED allVars

GatewayNext ==
    \/ component = "outbox" /\ Next /\ Others("outbox")
    \/ component = "agent" /\ AgentNext /\ Others("agent")
    \/ component = "context" /\ ContextNext /\ Others("context")
    \/ component = "gateway" /\ GateNext /\ Others("gateway")
    \/ component = "text" /\ Feed!TextNext /\ Others("text")
    \/ component = "bridge" /\ BridgeNext /\ Others("bridge")
    \/ component = "native" /\ NativeNext /\ Others("native")
    \/ component = "responses" /\ ResponsesNext /\ Others("responses")
    \/ component = "limiter" /\ LimiterNext /\ Others("limiter")

gatewayVars == <<component, vars, agentVars, contextVars, gateVars,
                 textState, bridgeVars, nativeVars, responsesVars, allVars>>
GatewaySpec == GatewayInit /\ [][GatewayNext]_gatewayVars
-----------------------------------------------------------------------------
=============================================================================
