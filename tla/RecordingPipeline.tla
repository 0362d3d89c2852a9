-------------------------- MODULE RecordingPipeline -------------------------
(***************************************************************************)
(* How a recording comes about between the Dock, OBS and the Worker.       *)
(*                                                                         *)
(* The Dock lives on the UI thread: the operator's buttons, a timer that   *)
(* acts on automatic recordings and feeds frames to the detection, and the *)
(* events OBS reports.  All of them decide on a snapshot of the Worker     *)
(* that a heartbeat thread refreshes: it fetches the recording state in    *)
(* one step and stores it in a later one, so the snapshot can be older     *)
(* than what the UI thread has done since.  OBS starts and stops in its    *)
(* own time, and its user has buttons of his own.                          *)
(*                                                                         *)
(* The Worker answers a command in one step here (RecordingWorker takes    *)
(* the step apart); while it uploads it answers nothing, and a command     *)
(* whose sender gave up may be carried out when the upload is over.        *)
(***************************************************************************)
EXTENDS Naturals, Sequences

CONSTANTS
    MaxSession,      \* bound on the number of sessions
    MaxEvents,       \* bound on OBS events the UI thread has not seen yet
    NoSession,
    StartConfirmations, EndConfirmations,
    WorkerBlocks,    \* whether the Worker uploads now and then
    WorkerFails,     \* whether the Worker dies and is started again
    ObsRefuses,      \* whether OBS may refuse to start a recording
    ObsButtons       \* whether the operator also uses the buttons of OBS

Session == 1 .. MaxSession

ASSUME ConstantsAssumption ==
    /\ MaxSession \in Nat /\ MaxEvents \in Nat
    /\ NoSession \notin Session
    /\ StartConfirmations \in Nat \ {0}
    /\ EndConfirmations \in Nat \ {0}
    /\ {WorkerBlocks, WorkerFails, ObsRefuses, ObsButtons} \subseteq BOOLEAN

INSTANCE RecordingState
Detect == INSTANCE DetectionLifecycle

VARIABLES
    worker,     \* "up", "busy" with an upload, or "down"
    recording,  \* the Worker's recording state, in memory and on disk
    detection,  \* its detection lifecycle
    sessions,   \* number of sessions started
    matches,    \* sessions handed over
    late,       \* a command whose sender no longer waits for the answer
    snap,       \* the Plugin's status snapshot: whether the Worker is "running"
                \* and its recording state, if available
    fetched,    \* what the heartbeat has fetched and not stored yet
    ui,         \* what the UI thread is in the middle of
    key,        \* automatic_recording_request_key_
    feeding,    \* a frame is being captured for the detection
    obs,        \* the recording output of OBS
    events,     \* OBS events the UI thread has not handled yet
    stopped     \* history: sessions that were asked to stop

workerVars == <<recording, detection, sessions, matches, stopped>>
vars == <<worker, workerVars, late, snap, fetched, ui, key, feeding, obs, events>>

NoCommand == [action |-> "none"]
Unavailable == [state |-> "unavailable", command_source |-> ""]
NoFetch == [state |-> "none"]
Idle == [doing |-> "nothing"]
Acting(r) == [doing |-> "tick", session_id |-> r.session_id, state |-> r.state]
Doing(what) == [doing |-> what]
NoKey == <<>>

Init ==
    /\ worker = "up"
    /\ recording = InitialRecording
    /\ detection = Detect!NoDuel
    /\ sessions = 0
    /\ matches = {}
    /\ late = NoCommand
    /\ snap = [running |-> TRUE, recording |-> Unavailable]
    /\ fetched = NoFetch
    /\ ui = Idle
    /\ key = NoKey
    /\ feeding = FALSE
    /\ obs = "off"
    /\ events = <<>>
    /\ stopped = {}

\* obs_frontend_recording_active()
ObsActive == obs \in {"on", "stopping"}

\* What a request to start leaves when OBS is not active.
StartedObs == {"starting"} \cup (IF ObsRefuses THEN {obs} ELSE {})

-----------------------------------------------------------------------------
(***************************************************************************)
(* The Worker carries out a command.                                       *)
(***************************************************************************)

Applied(action, source) == Transition(recording, action, source, sessions + 1)

Apply(action, source) ==
    LET next == Applied(action, source) IN
    /\ action = "start" => sessions < MaxSession
    /\ recording' = next
    /\ sessions' = IF action = "start" THEN sessions + 1 ELSE sessions
    /\ matches' = IF next.state = "completed" /\ next.command_source = "manual"
                  THEN matches \cup {next.session_id} ELSE matches
    /\ stopped' = IF action = "stop" THEN stopped \cup {next.session_id} ELSE stopped

Carry(action, source) ==
    \/ Accepts(recording, action) /\ Apply(action, source)
    \/ ~Accepts(recording, action) /\ UNCHANGED <<recording, sessions, matches, stopped>>

-----------------------------------------------------------------------------
(***************************************************************************)
(* send_recording_command: not sent when the snapshot does not say that    *)
(* the Worker runs; an accepted command updates the snapshot.              *)
(***************************************************************************)

Answered(action) == snap.running /\ worker = "up" /\ Accepts(recording, action)

Send(action, source) ==
    \/ /\ ~snap.running
       /\ snap' = [snap EXCEPT !.recording = Unavailable]
       /\ UNCHANGED <<workerVars, late>>
    \/ /\ Answered(action)
       /\ Apply(action, source)
       /\ snap' = [snap EXCEPT !.recording = Applied(action, source)]
       /\ UNCHANGED <<detection, late>>
    \/ /\ snap.running
       /\ ~Answered(action)
       /\ late' \in {late} \cup (IF worker = "busy" /\ late = NoCommand
                                 THEN {[action |-> action, source |-> source]} ELSE {})
       /\ UNCHANGED <<workerVars, snap>>

-----------------------------------------------------------------------------
(***************************************************************************)
(* The operator's buttons.                                                 *)
(***************************************************************************)

ManualStart ==
    /\ ui = Idle
    /\ snap.running
    /\ Send("start", "manual")
    /\ ui' = IF Answered("start") THEN Doing("starting") ELSE Idle
    /\ UNCHANGED <<worker, fetched, key, feeding, obs, events>>

ManualStarted ==
    /\ ui = Doing("starting")
    /\ \/ /\ ObsActive
          /\ Send("confirm_started", "manual")
          /\ UNCHANGED obs
       \/ /\ ~ObsActive
          /\ obs' \in StartedObs
          /\ UNCHANGED <<workerVars, late, snap>>
    /\ ui' = Idle
    /\ UNCHANGED <<worker, fetched, key, feeding, events>>

ManualStop ==
    /\ ui = Idle
    /\ snap.running
    /\ Send("stop", "manual")
    /\ ui' = IF Answered("stop") THEN Doing("stopping") ELSE Idle
    /\ UNCHANGED <<worker, fetched, key, feeding, obs, events>>

\* Mutation: nothing is confirmed when OBS has stopped by itself.
ManualStoppedUnconfirmed ==
    /\ ui = Doing("stopping")
    /\ obs' = IF ObsActive THEN "stopping" ELSE obs
    /\ ui' = Idle
    /\ UNCHANGED <<worker, workerVars, late, snap, fetched, key, feeding, events>>

ManualStopped ==
    /\ ui = Doing("stopping")
    /\ \/ /\ ObsActive
          /\ obs' = "stopping"
          /\ UNCHANGED <<workerVars, late, snap>>
       \/ /\ ~ObsActive
          /\ Send("confirm_stopped", "manual")
          /\ UNCHANGED obs
    /\ ui' = Idle
    /\ UNCHANGED <<worker, fetched, key, feeding, events>>

-----------------------------------------------------------------------------
(***************************************************************************)
(* The timer: refresh copies the snapshot and acts on it, if it shows an   *)
(* automatic recording.  OBS events that are due come before the timer.    *)
(***************************************************************************)

TickBegin ==
    /\ ui = Idle
    /\ events = <<>>
    /\ snap.recording.command_source = "automatic"
    /\ ui' = Acting(snap.recording)
    /\ UNCHANGED <<worker, workerVars, late, snap, fetched, key, feeding, obs, events>>

TickSees(state) == ui.doing = "tick" /\ ui.state = state

\* Mutation: the requests of two sessions look alike.
RequestKeyOfState == <<ui.state>>

RequestKey == <<ui.session_id, ui.state>>

TickConfirmsStart ==
    /\ TickSees("starting") /\ ObsActive
    /\ Send("confirm_started", "automatic")
    /\ key' = NoKey
    /\ UNCHANGED obs

TickStartsObs ==
    /\ TickSees("starting") /\ ~ObsActive /\ key # RequestKey
    /\ key' = RequestKey
    /\ obs' \in StartedObs
    /\ UNCHANGED <<workerVars, late, snap>>

TickStopsObs ==
    /\ TickSees("stopping") /\ ObsActive /\ key # RequestKey
    /\ key' = RequestKey
    /\ obs' = "stopping"
    /\ UNCHANGED <<workerVars, late, snap>>

TickConfirmsStop ==
    /\ TickSees("stopping") /\ ~ObsActive
    /\ Send("confirm_stopped", "automatic")
    /\ key' = NoKey
    /\ UNCHANGED obs

\* A request that was made is not repeated.
TickWaits ==
    /\ \/ TickSees("starting") /\ ~ObsActive
       \/ TickSees("stopping") /\ ObsActive
    /\ key = RequestKey
    /\ UNCHANGED <<workerVars, late, snap, key, obs>>

\* In a settled state the request is forgotten.
TickForgets ==
    /\ \/ TickSees("recording")
       \/ TickSees("completed")
       \/ TickSees("idle")
    /\ key' = NoKey
    /\ UNCHANGED <<workerVars, late, snap, obs>>

HandleAutomaticRecording ==
    /\ \/ TickConfirmsStart
       \/ TickStartsObs
       \/ TickStopsObs
       \/ TickConfirmsStop
       \/ TickWaits
       \/ TickForgets
    /\ ui' = Idle
    /\ UNCHANGED <<worker, fetched, feeding, events>>

\* The feed decides on the snapshot, then waits for OBS to save a screenshot;
\* meanwhile the UI thread serves buttons, events and timers.
FeedBegin ==
    /\ ui = Idle
    /\ ~feeding
    /\ snap.running
    /\ snap.recording # Unavailable
    /\ snap.recording.command_source = "manual" => snap.recording.state = "idle"
    /\ feeding' = TRUE
    /\ UNCHANGED <<worker, workerVars, late, snap, fetched, ui, key, obs, events>>

FrameCommand(frame) ==
    IF Detect!DuelStarted(detection, frame) THEN {"start"}
    ELSE IF Detect!DuelEnded(detection, frame) THEN {"stop"}
    ELSE {}

FeedSend(frame) ==
    /\ ui = Idle
    /\ feeding
    /\ feeding' = FALSE
    /\ \/ /\ snap.running /\ worker = "up"
          /\ detection' = Detect!Evaluate(detection, frame)
          /\ \/ \E action \in FrameCommand(frame) : Carry(action, "automatic")
             \/ /\ FrameCommand(frame) = {}
                /\ UNCHANGED <<recording, sessions, matches, stopped>>
       \/ /\ ~(snap.running /\ worker = "up")
          /\ UNCHANGED workerVars
    /\ UNCHANGED <<worker, late, snap, fetched, ui, key, obs, events>>

-----------------------------------------------------------------------------
(***************************************************************************)
(* OBS events: the source of the confirmation is the one of the pending    *)
(* command, if the snapshot shows one.                                     *)
(***************************************************************************)

\* Mutation: the source is taken from the snapshot, pending or not.
EventSourceUnchecked(pending) == snap.recording.command_source

EventSource(pending) ==
    IF snap.recording.state = pending
    THEN snap.recording.command_source ELSE "manual"

FrontendEvent ==
    /\ ui = Idle
    /\ events # <<>>
    /\ IF Head(events) = "started"
       THEN Send("confirm_started", EventSource("starting"))
       ELSE Send("confirm_stopped", EventSource("stopping"))
    /\ events' = Tail(events)
    /\ UNCHANGED <<worker, fetched, ui, key, feeding, obs>>

-----------------------------------------------------------------------------
(***************************************************************************)
(* OBS, as far as the Plugin can tell, and its user.                       *)
(***************************************************************************)

ObsReports(from, to, event) ==
    /\ obs = from
    /\ Len(events) < MaxEvents
    /\ obs' = to
    /\ events' = Append(events, event)
    /\ UNCHANGED <<worker, workerVars, late, snap, fetched, ui, key, feeding>>

ObsStarts == ObsReports("starting", "on", "started")
ObsStops == ObsReports("stopping", "off", "stopped")

ObsButton ==
    /\ ObsButtons
    /\ \/ obs = "off" /\ obs' = "starting"
       \/ obs = "on" /\ obs' = "stopping"
    /\ UNCHANGED <<worker, workerVars, late, snap, fetched, ui, key, feeding, events>>

-----------------------------------------------------------------------------
(***************************************************************************)
(* The heartbeat thread.                                                   *)
(***************************************************************************)

HeartbeatFetch ==
    /\ fetched = NoFetch
    /\ worker = "up"
    /\ fetched' = recording
    /\ UNCHANGED <<worker, workerVars, late, snap, ui, key, feeding, obs, events>>

HeartbeatStore ==
    /\ fetched # NoFetch
    /\ snap' = [running |-> TRUE, recording |-> fetched]
    /\ fetched' = NoFetch
    /\ UNCHANGED <<worker, workerVars, late, ui, key, feeding, obs, events>>

\* The probe fails, and the state is no longer "running"; or the probe was
\* answered and the recording state was not.
HeartbeatFails ==
    /\ fetched = NoFetch
    /\ worker # "up"
    /\ snap' \in {[snap EXCEPT !.running = FALSE],
                  [running |-> TRUE, recording |-> Unavailable]}
    /\ UNCHANGED <<worker, workerVars, late, fetched, ui, key, feeding, obs, events>>

-----------------------------------------------------------------------------
(***************************************************************************)
(* The Worker uploads, dies and is started again.                          *)
(***************************************************************************)

UploadBegins ==
    /\ WorkerBlocks
    /\ worker = "up"
    /\ worker' = "busy"
    /\ UNCHANGED <<workerVars, late, snap, fetched, ui, key, feeding, obs, events>>

UploadEnds ==
    /\ worker = "busy"
    /\ worker' = "up"
    /\ UNCHANGED <<workerVars, late, snap, fetched, ui, key, feeding, obs, events>>

\* The command is carried out late, or lost.
LateCommand ==
    /\ worker = "up"
    /\ late # NoCommand
    /\ late' = NoCommand
    /\ \/ Carry(late.action, late.source)
       \/ UNCHANGED <<recording, sessions, matches, stopped>>
    /\ UNCHANGED <<worker, detection, snap, fetched, ui, key, feeding, obs, events>>

WorkerDies ==
    /\ WorkerFails
    /\ worker # "down"
    /\ worker' = "down"
    /\ detection' = Detect!NoDuel
    /\ late' = NoCommand
    /\ UNCHANGED <<recording, sessions, matches, stopped, snap, fetched,
                   ui, key, feeding, obs, events>>

\* The settings dialog restarts the Worker, once the heartbeat thread has
\* ended; the snapshot keeps the recording state of the last one until the
\* first heartbeat.
WorkerStarts ==
    /\ ui = Idle
    /\ worker = "down"
    /\ fetched = NoFetch
    /\ worker' = "up"
    /\ recording' = Recover(recording)
    /\ snap' = [snap EXCEPT !.running = TRUE]
    /\ UNCHANGED <<detection, sessions, matches, stopped, late, fetched,
                   ui, key, feeding, obs, events>>

-----------------------------------------------------------------------------

Next ==
    \/ ManualStart
    \/ ManualStarted
    \/ ManualStop
    \/ ManualStopped
    \/ TickBegin
    \/ HandleAutomaticRecording
    \/ FeedBegin
    \/ \E frame \in Detect!Frame : FeedSend(frame)
    \/ FrontendEvent
    \/ ObsStarts
    \/ ObsStops
    \/ ObsButton
    \/ HeartbeatFetch
    \/ HeartbeatStore
    \/ HeartbeatFails
    \/ UploadBegins
    \/ UploadEnds
    \/ LateCommand
    \/ WorkerDies
    \/ WorkerStarts

Spec == Init /\ [][Next]_vars

\* The UI thread finishes what it is at and serves its timer and the events,
\* the heartbeat goes on, OBS carries out what it began, an upload ends and
\* a Worker that died is started again.
FairSpec ==
    /\ Spec
    /\ WF_vars(ManualStarted) /\ WF_vars(ManualStopped)
    /\ SF_vars(TickBegin) /\ WF_vars(HandleAutomaticRecording)
    /\ WF_vars(FrontendEvent)
    /\ WF_vars(HeartbeatFetch) /\ WF_vars(HeartbeatStore)
    /\ WF_vars(ObsStarts) /\ WF_vars(ObsStops)
    /\ WF_vars(UploadEnds) /\ WF_vars(WorkerStarts)

-----------------------------------------------------------------------------
(***************************************************************************)
(* Properties.                                                             *)
(***************************************************************************)

\* The states, copies and histories are well-formed.
TypeOK ==
    /\ worker \in {"up", "busy", "down"}
    /\ recording \in Recording
    /\ detection \in Detect!Detection
    /\ sessions \in 0 .. MaxSession
    /\ matches \subseteq Session
    /\ snap \in [running : BOOLEAN, recording : Recording \cup {Unavailable}]
    /\ fetched \in Recording \cup {NoFetch}
    /\ obs \in {"off", "starting", "on", "stopping"}
    /\ Len(events) <= MaxEvents

\* A recording that was asked to start leaves "starting", and one that was
\* asked to stop leaves "stopping": with a Worker that answers and an OBS
\* that does not refuse, every request is confirmed, although snapshots are
\* stale, requests are made once only, and OBS is also operated by hand.
StartSettles == recording.state = "starting" ~> recording.state # "starting"

\* See StartSettles.
StopSettles == recording.state = "stopping" ~> recording.state # "stopping"

\* A recording that was handed over had been asked to stop and stays
\* completed, whichever commands are lost, late, repeated or caused by the
\* buttons of OBS, and however often the Worker is restarted.
HandedOverIsFinal ==
    \A s \in matches :
        /\ s \in stopped
        /\ recording.session_id = s => recording.state = "completed"

=============================================================================
