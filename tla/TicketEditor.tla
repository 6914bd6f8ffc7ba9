---------------------------- MODULE TicketEditor ----------------------------
(***************************************************************************)
(* The ticket designer: the reducer of lib/ticket-editor.ts with its       *)
(* history, the gestures of the canvas (press, drag, release), and the     *)
(* page's save, which sends the design it closed over and marks the editor *)
(* saved when the answer comes back.                                       *)
(*                                                                         *)
(* A design is a model value: layers and geometry are left out, and so is  *)
(* the selection, but for what it does to coalescing.                      *)
(***************************************************************************)
EXTENDS Integers, Sequences

CONSTANTS
    Designs,       \* designs of a ticket
    Fields,        \* coalescing keys: one per field being typed in
    HistoryLimit,  \* HISTORY_LIMIT
    NoDesign       \* nothing is being sent

ASSUME EditorAssumption ==
    /\ HistoryLimit \in Nat \ {0}
    /\ NoDesign \notin Designs

VARIABLES
    edDesign,    \* design
    edPast,      \* past
    edFuture,    \* future
    edField,     \* lastCoalesce: a field, or "none"
    edDirty,     \* dirty
    edGesture,   \* a pointer is down on a layer
    edSending,   \* the design being saved, or NoDesign
    edServer,    \* the design the buyers receive
    edLoaded,    \* the design the page was opened with
    edTrimmed,   \* the history dropped its oldest step, or a gesture outlived its checkpoint
    edMissed     \* the last save answered was that of an older design

edVars == <<edDesign, edPast, edFuture, edField, edDirty, edGesture, edSending,
            edServer, edLoaded, edTrimmed, edMissed>>

NoField == "none"

\* Mutant: the history is never trimmed.
LastSteps_Unbounded(past) == past

\* slice(-HISTORY_LIMIT)
LastSteps(past) ==
    IF Len(past) > HistoryLimit
       THEN SubSeq(past, Len(past) - HistoryLimit + 1, Len(past)) ELSE past

\* [...past, design].slice(-HISTORY_LIMIT), and nothing left to redo.
PushStep ==
    /\ edPast' = LastSteps(Append(edPast, edDesign))
    /\ edFuture' = <<>>

EdInit ==
    /\ edDesign \in Designs
    /\ edPast = <<>> /\ edFuture = <<>>
    /\ edField = NoField
    /\ edDirty = FALSE
    /\ edGesture = FALSE
    /\ edSending = NoDesign
    /\ edServer = edDesign
    /\ edLoaded = edDesign
    /\ edTrimmed = FALSE
    /\ edMissed = FALSE

Shows(d) ==
    /\ edDesign' = d
    /\ edDirty' = TRUE
    /\ UNCHANGED edMissed

\* A change of its own, or the first of a field: one step of history.
Edit(d, field) ==
    /\ field = NoField \/ field # edField
    /\ Shows(d)
    /\ PushStep
    /\ edField' = field
    /\ edTrimmed' = (edTrimmed \/ Len(edPast) = HistoryLimit)
    /\ UNCHANGED <<edGesture, edSending, edServer, edLoaded>>

\* The next letters of the same field belong to the same step.
TypeOn(d, field) ==
    /\ field # NoField /\ field = edField
    /\ Shows(d)
    /\ edFuture' = <<>>
    /\ UNCHANGED <<edPast, edField, edGesture, edSending, edServer, edLoaded, edTrimmed>>

Select ==
    /\ edField' = NoField
    /\ UNCHANGED <<edDesign, edPast, edFuture, edDirty, edGesture, edSending, edServer,
                   edLoaded, edTrimmed, edMissed>>

\* Pressing a layer: the checkpoint the whole gesture is undone to.
StartGesture ==
    /\ ~edGesture
    /\ edGesture' = TRUE
    /\ PushStep
    /\ edField' = NoField
    /\ edTrimmed' = (edTrimmed \/ Len(edPast) = HistoryLimit)
    /\ UNCHANGED <<edDesign, edDirty, edSending, edServer, edLoaded, edMissed>>

\* Dragging writes no step. Ctrl+Z works during a drag: what follows it then
\* stands on no checkpoint.
Drag(d) ==
    /\ edGesture
    /\ Shows(d)
    /\ edFuture' = <<>>
    /\ edTrimmed' = (edTrimmed \/ edPast = <<>>)
    /\ UNCHANGED <<edPast, edField, edGesture, edSending, edServer, edLoaded>>

EndGesture ==
    /\ edGesture
    /\ edGesture' = FALSE
    /\ UNCHANGED <<edDesign, edPast, edFuture, edField, edDirty, edSending, edServer,
                   edLoaded, edTrimmed, edMissed>>

\* Mutant: going back to an earlier step does not mark the design modified.
Undo_Clean ==
    /\ edPast # <<>>
    /\ edDesign' = edPast[Len(edPast)]
    /\ edPast' = SubSeq(edPast, 1, Len(edPast) - 1)
    /\ edFuture' = <<edDesign>> \o edFuture
    /\ edField' = NoField
    /\ UNCHANGED <<edDirty, edMissed, edGesture, edSending, edServer, edLoaded, edTrimmed>>

Undo ==
    /\ edPast # <<>>
    /\ Shows(edPast[Len(edPast)])
    /\ edPast' = SubSeq(edPast, 1, Len(edPast) - 1)
    /\ edFuture' = <<edDesign>> \o edFuture
    /\ edField' = NoField
    /\ UNCHANGED <<edGesture, edSending, edServer, edLoaded, edTrimmed>>

Redo ==
    /\ edFuture # <<>>
    /\ Shows(Head(edFuture))
    /\ edPast' = Append(edPast, edDesign)
    /\ edFuture' = Tail(edFuture)
    /\ edField' = NoField
    /\ UNCHANGED <<edGesture, edSending, edServer, edLoaded, edTrimmed>>

\* Ctrl+S saves a clean design too; a second save waits for the first.
Save ==
    /\ edSending = NoDesign
    /\ edSending' = edDesign
    /\ UNCHANGED <<edDesign, edPast, edFuture, edField, edDirty, edGesture, edServer,
                   edLoaded, edTrimmed, edMissed>>

\* markSaved, whatever was edited since the request left.
SaveAnswered ==
    /\ edSending # NoDesign
    /\ edServer' = edSending
    /\ edSending' = NoDesign
    /\ edDirty' = FALSE
    /\ edMissed' = (edDesign # edSending)
    /\ UNCHANGED <<edDesign, edPast, edFuture, edField, edGesture, edLoaded, edTrimmed>>

\* The request is refused, or its answer is lost.
SaveFailed ==
    /\ edSending # NoDesign
    /\ \/ edServer' = edSending
       \/ UNCHANGED edServer
    /\ edSending' = NoDesign
    /\ UNCHANGED <<edDesign, edPast, edFuture, edField, edDirty, edGesture, edLoaded,
                   edTrimmed, edMissed>>

EdNext ==
    \/ \E d \in Designs, f \in Fields \cup {NoField} : Edit(d, f) \/ TypeOn(d, f)
    \/ \E d \in Designs : Drag(d)
    \/ Select \/ StartGesture \/ EndGesture \/ Undo \/ Redo
    \/ Save \/ SaveAnswered \/ SaveFailed

EdSpec == EdInit /\ [][EdNext]_edVars

-----------------------------------------------------------------------------
EdTypeOK ==
    /\ edDesign \in Designs /\ edServer \in Designs /\ edLoaded \in Designs
    /\ edPast \in Seq(Designs) /\ edFuture \in Seq(Designs)
    /\ edField \in Fields \cup {NoField}
    /\ {edDirty, edGesture, edTrimmed, edMissed} \subseteq BOOLEAN
    /\ edSending \in Designs \cup {NoDesign}

\* Undoing and redoing never hold more than HISTORY_LIMIT steps between them,
\* although redoing trims nothing, and as long as none was dropped, undoing
\* everything brings back the design the page was opened with
\* (editorReducer: commit, checkpoint, undo, redo).
HistoryReachesLoaded ==
    /\ Len(edPast) + Len(edFuture) <= HistoryLimit
    /\ edTrimmed \/ Head(Append(edPast, edDesign)) = edLoaded

\* An editor that says nothing is unsaved shows what the buyers receive, unless
\* the design was changed while it was being saved: markSaved does not look at
\* what was sent (ticket-editor.ts, designer page save).
CleanIsSaved ==
    ~edDirty /\ ~edMissed => edDesign = edServer
=============================================================================
