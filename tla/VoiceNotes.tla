----------------------------- MODULE VoiceNotes -----------------------------
(***************************************************************************)
(* Voice notes (src/messaging/platforms/voice_flow.py, messaging/voice.py):*)
(* a status message is sent, the note is registered as pending, downloaded *)
(* and transcribed in a thread, and its text is handed to the intake of    *)
(* prompts, unless /clear as a reply to the note or to its status          *)
(* cancelled it meanwhile (messaging/commands.py).                         *)
(*                                                                         *)
(* Steps are what asyncio runs between two awaits that really wait.  The   *)
(* registry's lock is never held across one, so that looking a note up and *)
(* completing it is one step.                                              *)
(***************************************************************************)
EXTENDS Naturals, FiniteSets

CONSTANTS Note      \* voice notes

VARIABLES
    noteStep,       \* "new", "sending", "shown", "working", "handed"; over: "taken",
                    \* "dropped", "failed", "turnedDown", "lost"
    noteStatus,     \* its status message: "none", "shown", "deleted", or "prompt's"
    pendingIds,     \* PendingVoiceRegistry._pending
    cancelling,     \* cancelled notes whose messages are still to be deleted
    cancelledNotes  \* history: notes whose cancellation was confirmed

voiceVars == <<noteStep, noteStatus, pendingIds, cancelling, cancelledNotes>>

Both(n) == {"voice", "status"} \X {n}

VoiceInit ==
    /\ noteStep = [n \in Note |-> "new"] /\ noteStatus = [n \in Note |-> "none"]
    /\ pendingIds = {} /\ cancelling = {} /\ cancelledNotes = {}

NoteGoes(n, from, to) == noteStep[n] = from /\ noteStep' = [noteStep EXCEPT ![n] = to]
StatusBecomes(n, s) == noteStatus' = [noteStatus EXCEPT ![n] = s]

-----------------------------------------------------------------------------
\* VoiceNoteFlow.handle up to its first await; disabled, unauthorised and unhandled notes
\* leave nothing behind and are not modelled.
ReceiveNote(n) ==
    /\ NoteGoes(n, "new", "sending")
    /\ UNCHANGED <<noteStatus, pendingIds, cancelling, cancelledNotes>>

\* The status is out, and the flow does not know yet; or it could not be sent, and the
\* exception leaves the flow before its try.
StatusSent(n) ==
    /\ NoteGoes(n, "sending", "shown") /\ StatusBecomes(n, "shown")
    /\ UNCHANGED <<pendingIds, cancelling, cancelledNotes>>

StatusLost(n) ==
    /\ NoteGoes(n, "sending", "lost")
    /\ UNCHANGED <<noteStatus, pendingIds, cancelling, cancelledNotes>>

\* PendingVoiceRegistry.register, under both ids.
RegisterNote(n) ==
    /\ NoteGoes(n, "shown", "working") /\ pendingIds' = pendingIds \cup Both(n)
    /\ UNCHANGED <<noteStatus, cancelling, cancelledNotes>>

\* Seeded fault: the transcript is handed on whether or not the note is still pending.
HandOffAnyway(n) ==
    /\ NoteGoes(n, "working", "handed") /\ pendingIds' = pendingIds \ Both(n)
    /\ UNCHANGED <<noteStatus, cancelling, cancelledNotes>>

\* Downloaded and transcribed.  A note that is still pending is completed and handed on.
HandOff(n) ==
    /\ <<"voice", n>> \in pendingIds
    /\ NoteGoes(n, "working", "handed") /\ pendingIds' = pendingIds \ Both(n)
    /\ UNCHANGED <<noteStatus, cancelling, cancelledNotes>>

\* One that is not is dropped, with its status.
DropNote(n) ==
    /\ <<"voice", n>> \notin pendingIds
    /\ NoteGoes(n, "working", "dropped") /\ StatusBecomes(n, "deleted")
    /\ UNCHANGED <<pendingIds, cancelling, cancelledNotes>>

\* The download or the transcription raised: _clear_failed_pending_voice.
WorkFails(n) ==
    /\ NoteGoes(n, "working", "failed") /\ StatusBecomes(n, "deleted")
    /\ pendingIds' = pendingIds \ Both(n)
    /\ UNCHANGED <<cancelling, cancelledNotes>>

\* The intake makes the status its own, or raises: then the status stays.
TurnTaken(n) ==
    /\ NoteGoes(n, "handed", "taken") /\ StatusBecomes(n, "prompt's")
    /\ UNCHANGED <<pendingIds, cancelling, cancelledNotes>>

TurnFails(n) ==
    /\ NoteGoes(n, "handed", "turnedDown") /\ pendingIds' = pendingIds \ Both(n)
    /\ UNCHANGED <<noteStatus, cancelling, cancelledNotes>>

\* PendingVoiceRegistry.cancel through either id, before the messages are deleted.  An id
\* that is not pending is answered with "nothing to clear".
CancelNote(id) ==
    /\ id \in pendingIds
    /\ pendingIds' = pendingIds \ Both(id[2]) /\ cancelling' = cancelling \cup {id[2]}
    /\ UNCHANGED <<noteStep, noteStatus, cancelledNotes>>

DeleteCancelled(n) ==
    /\ n \in cancelling
    /\ cancelling' = cancelling \ {n} /\ cancelledNotes' = cancelledNotes \cup {n}
    /\ StatusBecomes(n, "deleted")
    /\ UNCHANGED <<noteStep, pendingIds>>

VoiceNext ==
    \/ \E n \in Note :
         \/ ReceiveNote(n) \/ StatusSent(n) \/ StatusLost(n) \/ RegisterNote(n)
         \/ HandOff(n) \/ DropNote(n) \/ WorkFails(n) \/ TurnTaken(n) \/ TurnFails(n)
         \/ DeleteCancelled(n)
    \/ \E id \in {"voice", "status"} \X Note : CancelNote(id)

VoiceSpec == VoiceInit /\ [][VoiceNext]_voiceVars
-----------------------------------------------------------------------------
\* A note whose cancellation is under way or confirmed is never handed to the intake, and
\* a confirmed cancellation leaves no status message behind, however it falls between
\* the download, the transcription and the flow's own clean-up.
CancelledNoteIsNotRun ==
    \A n \in cancelling \cup cancelledNotes :
      /\ noteStep[n] \in {"working", "dropped", "failed"}
      /\ n \in cancelledNotes => noteStatus[n] = "deleted"

\* The two ids of a note are pending together, and only while it is worked on; and a note
\* that is over without a prompt has no status message, unless the prompt's intake
\* failed with it.
NotesSettle ==
    \A n \in Note :
      /\ Both(n) \subseteq pendingIds \/ Both(n) \cap pendingIds = {}
      /\ Both(n) \cap pendingIds # {} => noteStep[n] = "working"
      /\ noteStep[n] \in {"dropped", "failed"} => noteStatus[n] = "deleted"
      /\ noteStatus[n] = "prompt's" <=> noteStep[n] = "taken"

\* Every note comes to one end, and it is the one its user was told: a prompt, a
\* cancellation or a failure (VoiceNoteFlow.handle, PendingVoiceRegistry).
NotesEndAsTold == CancelledNoteIsNotRun /\ NotesSettle
=============================================================================
