---------------------------- MODULE NativeStream ----------------------------
(***************************************************************************)
(* One answer of the Anthropic transport:                                  *)
(* AnthropicMessagesStreamAdapter.run                                      *)
(* (src/providers/transports/anthropic_messages/stream.py) with its        *)
(* recovery.py, and the holdback and classification of failures of         *)
(* core/anthropic/streaming/recovery.py.                                   *)
(*                                                                         *)
(* The upstream may send any events of blocks in any order: let blocks     *)
(* overlap, use a number twice, go on with a block that has ended or was   *)
(* never opened, leave one open; and break off anywhere.  Of the frame,    *)
(* message_start comes first, and message_delta and message_stop last.     *)
(***************************************************************************)
EXTENDS NativeLedger

CONSTANTS
    MaxEarlyRetries,    \* EARLY_TRANSPARENT_MAX_RETRIES
    MaxEvents           \* bound: events of one upstream stream

VARIABLES
    nativeSent,         \* what the client has taken
    nativeOut,          \* events the generator is about to yield
    nativeHeld,         \* the holdback's events
    nativeCommitted,    \* RecoveryHoldbackBuffer.committed
    native,             \* ledger and block policy
    nativePhase, nativeRetries, events,
    strayed,            \* history: something that the policy cannot put right was passed on
    thinks              \* is thinking wanted

nativeVars == <<nativeSent, nativeOut, nativeHeld, nativeCommitted, native,
                nativePhase, nativeRetries, events, strayed, thinks>>
upstreamVars == <<nativeRetries, events, strayed, thinks>>

NativeClient == INSTANCE StreamContract WITH sent <- nativeSent

\* "reopened": a tool that had been stopped was completed; "late": the connection failed
\* after message_stop had been passed on.
NativeOver == {"completed", "recovered", "failed", "reopened", "late"}

\* is_retryable_stream_error and retryable_transient_status.
Failure   == {"truncated", "rate limit", "server error", "overloaded", "connection",
              "authentication", "bad request", "other"}
Retryable == Failure \ {"authentication", "bad request", "other"}

NativeInit ==
    /\ nativeSent = <<>> /\ nativeOut = <<>> /\ nativeHeld = <<>>
    /\ nativeCommitted = FALSE /\ native = NewNative
    /\ nativePhase = "opening" /\ nativeRetries = 0 /\ events = 0
    /\ strayed = FALSE /\ thinks \in BOOLEAN

NativeYield ==
    /\ nativeOut # <<>>
    /\ nativeSent' = Append(nativeSent, Head(nativeOut)) /\ nativeOut' = Tail(nativeOut)
    /\ UNCHANGED <<nativeHeld, nativeCommitted, native, nativePhase, upstreamVars>>

During(p) == nativePhase = p /\ nativeOut = <<>>
Logless(n) == [n EXCEPT !.log = <<>>]

\* RecoveryHoldbackBuffer.push, of what one event led to: the first of a buffer never
\* fills it.
Hold(n) ==
    /\ native' = Logless(n)
    /\ \/ nativeCommitted /\ nativeOut' = n.log /\ UNCHANGED <<nativeHeld, nativeCommitted>>
       \/ /\ ~ nativeCommitted /\ nativeHeld' = nativeHeld \o n.log
          /\ UNCHANGED <<nativeOut, nativeCommitted>>
       \/ /\ ~ nativeCommitted /\ n.log # <<>> /\ Len(nativeHeld \o n.log) > 1
          /\ nativeCommitted' = TRUE /\ nativeHeld' = <<>>
          /\ nativeOut' = nativeHeld \o n.log

\* What is held, and then the end of the message.
Deliver(n, end) ==
    /\ nativeOut' = nativeHeld \o n.log /\ nativeHeld' = <<>>
    /\ nativeCommitted' = (nativeCommitted \/ nativeHeld # <<>>)
    /\ native' = Logless(n) /\ nativePhase' = end
    /\ UNCHANGED <<nativeSent, upstreamVars>>

-----------------------------------------------------------------------------
(* Failures.                                                               *)

\* Seeded fault: the events of the broken stream stay held.
RestartKeepsHeld ==
    /\ nativeRetries' = nativeRetries + 1 /\ nativeCommitted' = FALSE
    /\ native' = NewNative /\ events' = 0 /\ strayed' = FALSE
    /\ nativePhase' = "opening"
    /\ UNCHANGED <<nativeSent, nativeOut, nativeHeld, thinks>>

Restart ==
    /\ nativeRetries' = nativeRetries + 1 /\ nativeHeld' = <<>> /\ nativeCommitted' = FALSE
    /\ native' = NewNative /\ events' = 0 /\ strayed' = FALSE
    /\ nativePhase' = "opening"
    /\ UNCHANGED <<nativeSent, nativeOut, thinks>>

EndInError ==
    IF nativeCommitted \/ nativeHeld # <<>>
    THEN Deliver(NativeErrorTail(native), IF native.stopped THEN "late" ELSE "failed")
    ELSE Deliver(ErrorMessage, "failed")

\* AnthropicMessagesRecovery.events: what its requests are answered decides between an
\* end that continues the message and the end in error.  Nothing is yielded meanwhile.
NativeRecover ==
    \/ EndInError
    \/ /\ ToolBlocks(native) # {}
       /\ LET n == RepairTools(native)
              b == {c \in BrokenTools(native) : ~ native.blocks[c].open}
          IN  /\ Salvageable(n)
              /\ Deliver(NativeSuccess(n), IF b # {} THEN "reopened" ELSE "recovered")
    \/ /\ ToolBlocks(native) = {} /\ CanAppend(native)
       /\ Said(native, "text") \/ Said(native, "thinking")
       /\ \E n \in {AppendSuffix(native, "text"), AppendSuffix(native, "thinking"),
                    AppendSuffix(AppendSuffix(native, "thinking"), "text")} :
            Deliver(NativeSuccess(n), "recovered")

\* advance_failure.  A recovery ends the stream, so that it is tried once.
MayRestart == ~ nativeCommitted /\ ~ Salvageable(native) /\ nativeRetries < MaxEarlyRetries

NativeBreaks(failure, opened) ==
    IF failure \in Retryable /\ opened /\ MayRestart THEN Restart
    ELSE IF failure \in Retryable /\ native.blocks # <<>> THEN NativeRecover
    ELSE EndInError

-----------------------------------------------------------------------------
(* The stream.                                                             *)

NativeAccepted ==
    /\ During("opening") /\ nativePhase' = "streaming"
    /\ UNCHANGED <<nativeSent, nativeOut, nativeHeld, nativeCommitted, native, upstreamVars>>

NativeRefused == During("opening") /\ \E f \in Failure : NativeBreaks(f, FALSE)

UpstreamSends(n, strays) ==
    /\ During("streaming") /\ events < MaxEvents /\ events' = events + 1
    /\ strayed' = (strayed \/ strays)
    /\ Hold(n) /\ UNCHANGED <<nativeSent, nativePhase, nativeRetries, thinks>>

NativeStarts == ~ native.started /\ UpstreamSends(OfMessage(native, "start"), FALSE)

NativeFlowing == native.started /\ ~ native.usage /\ ~ native.stopped

UpstreamOpens(u, type) ==
    NativeFlowing /\ UpstreamSends(PolicyStart(native, u, type, thinks), FALSE)

UpstreamWrites(u, type, args) ==
    /\ NativeFlowing /\ (args = "whole" => type = "tool")
    /\ UpstreamSends(PolicyDelta(native, u, type, args, thinks),
                     DeltaStrays(native, u, type, thinks))

UpstreamStops(u) ==
    NativeFlowing /\ UpstreamSends(PolicyStop(native, u, thinks), StopStrays(native, u, thinks))

\* message_delta, and message_stop, which the policy passes on; a message whose every block
\* is dropped is left out.
NativeUsage ==
    NativeFlowing /\ native.blocks # <<>> /\ UpstreamSends(OfMessage(native, "usage"), FALSE)
NativeEnd ==
    /\ native.usage /\ ~ native.stopped
    /\ UpstreamSends(OfMessage(native, "end"), StillOpen(native) # {})

UpstreamEnds ==
    /\ During("streaming")
    /\ IF native.stopped THEN Deliver(native, "completed") ELSE NativeBreaks("truncated", TRUE)

UpstreamBreaks == During("streaming") /\ \E f \in Failure : NativeBreaks(f, TRUE)

NativeNext ==
    \/ NativeYield \/ NativeAccepted \/ NativeRefused \/ UpstreamEnds \/ UpstreamBreaks
    \/ NativeStarts \/ NativeUsage \/ NativeEnd
    \/ \E u \in Index : UpstreamStops(u) \/ \E type \in {"text", "thinking", "tool"} :
         \/ UpstreamOpens(u, type)
         \/ \E args \in {"partial", "whole"} : UpstreamWrites(u, type, args)

NativeSpec == NativeInit /\ [][NativeNext]_nativeVars
-----------------------------------------------------------------------------
(* Properties.                                                             *)

\* Whatever order the upstream's blocks come in and wherever it fails, the client is sent
\* one message of the contract; but for a tool that is completed after its block was
\* stopped (append_tool_repair_suffix), for an error of the connection that follows the
\* message_stop (midstream_error_tail), and for an upstream that goes astray: writes a type
\* into a block of another, thinks or stops where it opened nothing (thinking being wanted),
\* or ends with a block open, as when a number used twice leaves one.  What strayed in a
\* stream that was given up for a retry does not count.
NativeKeepsContract ==
    /\ NativeClient!Init
    /\ [][NativeClient!Send \/ nativePhase \in {"reopened", "late"} \/ strayed]_nativeSent

\* A broken answer is passed off as a tool use only with every tool complete, and every
\* answer that is over has been delivered to its message_stop (events, success_tail).
NativeEndsWhole ==
    nativePhase \in NativeOver /\ nativeOut = <<>> /\ ~ strayed =>
      /\ NativeClient!Has(nativeSent, "end")
      /\ nativePhase = "recovered" /\ ToolBlocks(native) # {} => Salvageable(native)

\* The native transport refines the contract of a stream, and ends it whole.
NativeIsTransparent == NativeKeepsContract /\ []NativeEndsWhole
=============================================================================
