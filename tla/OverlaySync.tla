----------------------------- MODULE OverlaySync ----------------------------
(***************************************************************************)
(* The overlay: the state the Worker keeps in memory, the copy of it in    *)
(* the Plugin's status snapshot, and the texts that OBS shows.             *)
(*                                                                         *)
(* The Worker changes recording_state with every recording command.  The   *)
(* Dock changes the rest, but always sends the whole overlay: what it does *)
(* not change it takes from the snapshot, which the heartbeat thread       *)
(* fetches in one step and stores in a later one.  The timer's refresh     *)
(* copies the snapshot, acts on it, and brings the texts up to date with   *)
(* its copy at the very end; while it waits for a screenshot in between,   *)
(* the UI thread serves the operator and other refreshes.                  *)
(*                                                                         *)
(* The texts are text sources of OBS, which the Plugin creates when it is  *)
(* missing them at its start or when its settings are saved.  Their names  *)
(* are the user's to remove or to give to something else, and an update    *)
(* that finds no text source counts as applied.  The five sources are      *)
(* treated alike: one stands for all of them.                              *)
(*                                                                         *)
(* deck stands for deck_name, sequence_number and opponent_deck, which are *)
(* always sent together.                                                   *)
(***************************************************************************)
EXTENDS Naturals

CONSTANTS
    Deck,          \* what the operator names in the Dock
    NoDeck,        \* the empty text
    MaxChanges     \* bound on commands, updates and restarts

ASSUME ConstantsAssumption == NoDeck \notin Deck /\ MaxChanges \in Nat

INSTANCE RecordingState WITH Session <- {}, NoSession <- NoDeck

VARIABLES
    up,         \* the Worker serves
    recording,  \* its recording state
    overlay,    \* its overlay state
    late,       \* an update whose sender no longer waits for the answer
    running,    \* status_.state is "running", and the heartbeat thread lives
    snap,       \* overlay_state of the status snapshot, if available
    fetched,    \* what the heartbeat has fetched and not stored yet
    ui,         \* the update the UI thread is in the middle of
    copy,       \* the snapshot a refresh in progress has copied
    last,       \* last_applied_overlay_state_, if overlay_state_applied_
    source,     \* what OBS has under the names of the text sources
    shown,      \* their texts, or those they had when they were removed
    disturbed,  \* history: the sources came or went since they were ensured
    changes,    \* number of commands, updates and restarts
    past        \* history: every overlay state the Worker has had

workerVars == <<up, recording, overlay, late, past>>
heartbeatVars == <<running, snap, fetched>>
sourceVars == <<source, shown, disturbed>>
dockVars == <<ui, copy, last, sourceVars>>
vars == <<workerVars, heartbeatVars, dockVars, changes>>

Result == {"unknown", "win"}

Overlay == [deck : Deck \cup {NoDeck}, result : Result, recording : {"idle", "recording", "unknown"}]

\* recording_state of the overlay, for a state of the recording
Shows(state) == OverlayOf([state |-> state])

StartupOverlay(state) == [deck |-> NoDeck, result |-> "unknown", recording |-> Shows(state)]

\* The default texts, which also stand in for the empty ones.
Blank == [deck |-> NoDeck, result |-> "", recording |-> ""]

None == [none |-> TRUE]
Idle == [doing |-> "nothing"]
Sending(o) == [doing |-> "sending", overlay |-> o]
Accepted(o) == [doing |-> "accepted", overlay |-> o]

Init ==
    /\ up = TRUE
    /\ recording = "idle"
    /\ overlay = StartupOverlay("idle")
    /\ late = None
    /\ running = TRUE
    /\ snap = None
    /\ fetched = None
    /\ ui = Idle
    /\ copy = None
    /\ last = None
    /\ source \in {"text", "other", "missing"} /\ shown = Blank /\ disturbed = FALSE
    /\ changes = 0
    /\ past = {overlay}

Change == changes < MaxChanges /\ changes' = changes + 1

WorkerShows(o) == overlay' = o /\ past' = past \cup {o}

-----------------------------------------------------------------------------
(***************************************************************************)
(* The Worker.                                                             *)
(***************************************************************************)

\* A recording command of the Dock, of OBS or of the detection.  When the
\* state cannot be saved the request ends before the overlay is updated.
Command(action) ==
    /\ up
    /\ recording \in AcceptingStates(action)
    /\ Change
    /\ recording' = TargetState(action)
    /\ \/ WorkerShows([overlay EXCEPT !.recording = Shows(recording')])
       \/ UNCHANGED <<overlay, past>>
    /\ UNCHANGED <<up, late, heartbeatVars, dockVars>>

\* An update is carried out that its sender gave up on.
LatePut ==
    /\ up
    /\ late # None
    /\ WorkerShows(late)
    /\ late' = None
    /\ UNCHANGED <<up, recording, heartbeatVars, dockVars, changes>>

Crash ==
    /\ up
    /\ Change
    /\ up' = FALSE
    /\ late' = None
    /\ UNCHANGED <<recording, overlay, past, heartbeatVars, dockVars>>

-----------------------------------------------------------------------------
(***************************************************************************)
(* The heartbeat thread.                                                   *)
(***************************************************************************)

HeartbeatFetch ==
    /\ running /\ up
    /\ fetched = None
    /\ fetched' = overlay
    /\ UNCHANGED <<workerVars, running, snap, dockVars, changes>>

HeartbeatStore ==
    /\ fetched # None
    /\ snap' = fetched
    /\ fetched' = None
    /\ UNCHANGED <<workerVars, running, dockVars, changes>>

\* The process has exited: the thread says so and ends.  The overlay of the
\* snapshot stays as it is.
HeartbeatEnds ==
    /\ running /\ ~up
    /\ fetched = None
    /\ running' = FALSE
    /\ UNCHANGED <<workerVars, snap, fetched, dockVars, changes>>

-----------------------------------------------------------------------------
(***************************************************************************)
(* The text sources.                                                       *)
(***************************************************************************)

\* update_overlay_sources: no text changes that is not there to be changed
UpdateSources(o) ==
    /\ shown' = IF source = "text" THEN o ELSE shown
    /\ UNCHANGED <<source, disturbed>>

\* What the Dock remembers of an update, whether a text has changed or not.
ApplySources(o) == UpdateSources(o) /\ last' = o

\* ensure_overlay_text_sources: a source that is missing is created, if it can
\* be, with the default text; one of another kind is left alone.
EnsureSources ==
    /\ \/ source = "missing" /\ source' = "text" /\ shown' = Blank
       \/ UNCHANGED <<source, shown>>
    /\ disturbed' = FALSE

\* The user removes the sources or changes to a collection without them, and
\* has them back with the texts they had, or has others of their name.
UserChangesSources ==
    /\ Change
    /\ source' \in {"text", "other", "missing"} \ {source}
    /\ disturbed' = TRUE
    /\ UNCHANGED <<workerVars, heartbeatVars, ui, copy, last, shown>>

-----------------------------------------------------------------------------
(***************************************************************************)
(* The Dock's updates.                                                     *)
(***************************************************************************)

\* overlay_state_base
Base ==
    IF snap # None THEN snap
    ELSE IF last # None THEN last
    ELSE [deck |-> NoDeck, result |-> "unknown", recording |-> "unknown"]

\* The start of a recording names a deck and forgets the result; saved
\* metadata name a deck, and a result if there is one.
PutBegin ==
    /\ ui = Idle
    /\ running
    /\ Change
    /\ \E deck \in Deck, result \in {"unknown", "win", Base.result} :
          ui' = Sending([Base EXCEPT !.deck = deck, !.result = result])
    /\ UNCHANGED <<workerVars, heartbeatVars, copy, last, sourceVars>>

PutAccepted ==
    /\ ui.doing = "sending"
    /\ up
    /\ WorkerShows(ui.overlay)
    /\ ui' = Accepted(ui.overlay)
    /\ UNCHANGED <<up, recording, late, heartbeatVars, copy, last, sourceVars, changes>>

\* Mutation: the Dock does not remember what it showed at once.
PutShownUnremembered ==
    /\ ui.doing = "accepted"
    /\ snap' = None
    /\ UpdateSources(ui.overlay)
    /\ ui' = Idle
    /\ UNCHANGED <<workerVars, running, fetched, copy, last, changes>>

\* The snapshot counts as outdated, and the texts change at once.
PutShown ==
    /\ ui.doing = "accepted"
    /\ snap' = None
    /\ ApplySources(ui.overlay)
    /\ ui' = Idle
    /\ UNCHANGED <<workerVars, running, fetched, copy, changes>>

\* Mutation: the texts change although the update failed.
PutFailsShown ==
    /\ ui.doing = "sending"
    /\ late' \in {late} \cup (IF up THEN {ui.overlay} ELSE {})
    /\ ApplySources(ui.overlay)
    /\ ui' = Idle
    /\ UNCHANGED <<up, recording, overlay, past, heartbeatVars, copy, changes>>

\* No answer in time: the update was lost, or the Worker has yet to take it up.
PutFails ==
    /\ ui.doing = "sending"
    /\ late' \in {late} \cup (IF up THEN {ui.overlay} ELSE {})
    /\ ui' = Idle
    /\ UNCHANGED <<up, recording, overlay, past, heartbeatVars, copy, last, sourceVars, changes>>

-----------------------------------------------------------------------------
(***************************************************************************)
(* The timer.                                                              *)
(***************************************************************************)

RefreshBegin ==
    /\ ui = Idle
    /\ copy = None
    /\ snap # None
    /\ copy' = snap
    /\ UNCHANGED <<workerVars, heartbeatVars, ui, last, sourceVars, changes>>

\* The texts change only when the snapshot differs from what was applied last.
Refreshed(o) == IF o # last THEN ApplySources(o) ELSE UNCHANGED <<last, sourceVars>>

RefreshEnd ==
    /\ ui = Idle
    /\ copy # None
    /\ Refreshed(copy)
    /\ copy' = None
    /\ UNCHANGED <<workerVars, heartbeatVars, ui, changes>>

\* A refresh that waits for nothing, perhaps while another one waits.
Refresh ==
    /\ ui = Idle
    /\ snap # None
    /\ Refreshed(snap)
    /\ UNCHANGED <<workerVars, heartbeatVars, ui, copy, changes>>

\* save_settings_and_restart: the sources are ensured, and what was applied to
\* them is forgotten.  The heartbeat thread stores what it has fetched
\* and ends.  A Worker of the Plugin's own stops and starts again, with what it
\* recovers of the recording and nothing of the overlay; another one goes on.
RestartWorker ==
    /\ ui = Idle
    /\ Change
    /\ \/ /\ up' = TRUE
          /\ recording' = Recover([state |-> recording, command_source |-> ""]).state
          /\ WorkerShows(StartupOverlay(recording'))
          /\ late' = None
       \/ up /\ UNCHANGED workerVars
    /\ running' = TRUE
    /\ snap' = IF fetched # None THEN fetched ELSE snap
    /\ fetched' = None
    /\ last' = None
    /\ EnsureSources
    /\ UNCHANGED <<ui, copy>>

-----------------------------------------------------------------------------

Next ==
    \/ \E action \in COMMAND_ACTIONS : Command(action)
    \/ LatePut
    \/ Crash
    \/ HeartbeatFetch
    \/ HeartbeatStore
    \/ HeartbeatEnds
    \/ PutBegin
    \/ PutAccepted
    \/ PutShown
    \/ PutFails
    \/ RefreshBegin
    \/ RefreshEnd
    \/ Refresh
    \/ RestartWorker
    \/ UserChangesSources

Spec == Init /\ [][Next]_vars

\* The heartbeat and the timer recur, and the UI thread ends what it began.
Fairness ==
    /\ WF_vars(HeartbeatFetch) /\ WF_vars(HeartbeatStore)
    /\ WF_vars(PutAccepted \/ PutFails) /\ WF_vars(PutShown)
    /\ WF_vars(RefreshEnd) /\ WF_vars(Refresh)

FairSpec == Spec /\ Fairness

-----------------------------------------------------------------------------
(***************************************************************************)
(* Properties.                                                             *)
(***************************************************************************)

\* Every copy of the overlay is well-formed.
TypeOK ==
    /\ up \in BOOLEAN /\ running \in BOOLEAN
    /\ recording \in RECORDING_STATES
    /\ {overlay} \cup past \subseteq Overlay /\ shown \in Overlay \cup {Blank}
    /\ source \in {"text", "other", "missing"} /\ disturbed \in BOOLEAN
    /\ {late, snap, fetched, copy, last} \subseteq Overlay \cup {None}
    /\ ui \in {Idle} \cup {Sending(o) : o \in Overlay} \cup {Accepted(o) : o \in Overlay}
    /\ changes \in 0 .. MaxChanges

\* OBS shows the default texts or what the Worker had accepted: an update that
\* failed, or one put together from outdated copies, is not shown unless the
\* Worker took it.
ShownWasAccepted == shown \in past \cup {Blank}

\* The polling brings OBS up to date: while the Worker runs and nothing
\* changes any more, the texts become the Worker's overlay and stay so,
\* whatever outdated copies the heartbeat and the refresh still held, and
\* whatever updates found no text to change, provided the sources have been
\* there since they were ensured.
OverlayReachesObs ==
    <>[](up /\ running /\ source = "text" /\ ~disturbed) => <>[](shown = overlay)

=============================================================================
