---------------------- MODULE RecordingPipelineProofs -----------------------
(***************************************************************************)
(* Proofs about a recording between the Dock, OBS and the Worker.  The     *)
(* Dock, the heartbeat and OBS disturb the recording only by the commands  *)
(* that are carried out, in time or late, so the argument is about what a  *)
(* command may do to a session, whoever sent it and however stale the      *)
(* snapshot was that he decided on.                                        *)
(***************************************************************************)
EXTENDS RecordingPipeline, SequenceTheorems, TLAPS

\* Nobody in this system sends other commands than these.
Sent == {"start", "confirm_started", "stop", "confirm_stopped"}

\* What is under way is a command, an event and a copy of a recording.
UnderWay ==
    /\ late = NoCommand \/ (late.action \in Sent /\ late.source \in COMMAND_SOURCES)
    /\ events \in Seq({"started", "stopped"})

\* A recording in progress or completed belongs to a session that was started.
FromSessions ==
    /\ recording.session_id \in 1 .. sessions \cup {NoSession}
    /\ recording.state \in ACTIVE_STATES \cup {"completed"} => recording.session_id \in 1 .. sessions
    /\ matches \subseteq 1 .. sessions
    /\ stopped \subseteq 1 .. sessions

\* A recording does not end unless it was asked to.
AskedToStop == recording.state \in {"stopping", "completed"} => recording.session_id \in stopped

IInv ==
    /\ TypeOK
    /\ UnderWay
    /\ FromSessions
    /\ AskedToStop
    /\ HandedOverIsFinal

-----------------------------------------------------------------------------
(***************************************************************************)
(* The operators.                                                          *)
(***************************************************************************)

LEMMA Constants ==
    /\ MaxSession \in Nat /\ MaxEvents \in Nat
    /\ NoSession \notin Session
  BY ConstantsAssumption, Zenon

\* What a command leaves, one line per command.
LEMMA CommandEffect ==
    ASSUME NEW r \in Recording, NEW source \in COMMAND_SOURCES, NEW fresh,
           NEW action \in Sent, Accepts(r, action)
    PROVE  LET next == Transition(r, action, source, fresh) IN
           /\ DOMAIN next = {"state", "session_id", "command_source"}
           /\ next.command_source = source
           /\ \/ /\ action = "start" /\ next.state = "starting" /\ next.session_id = fresh
              \/ /\ action # "start" /\ next.session_id = r.session_id
                 /\ \/ /\ action = "confirm_started" /\ next.state = "recording"
                       /\ r.state \in {"starting", "recording"}
                    \/ /\ action = "stop" /\ next.state = "stopping" /\ r.state = "recording"
                    \/ /\ action = "confirm_stopped" /\ next.state = "completed"
                       /\ r.state \in {"stopping", "completed"}
  BY DEF Accepts, AcceptingStates, Transition, TargetState, Sent

LEMMA TransitionType ==
    ASSUME NEW r \in Recording, NEW action \in Sent,
           NEW source \in COMMAND_SOURCES, NEW fresh \in Session
    PROVE  Transition(r, action, source, fresh) \in Recording
  BY DEF Recording, Transition, TargetState, Sent, RECORDING_STATES

LEMMA RecoverEffect ==
    ASSUME NEW r \in Recording
    PROVE  /\ Recover(r) \in Recording
           /\ Recover(r).session_id = r.session_id
           /\ Recover(r).state \notin ACTIVE_STATES
           /\ Recover(r).state = "completed" <=> r.state = "completed"
  BY DEF Recover, Recording, ACTIVE_STATES, RECORDING_STATES, COMMAND_SOURCES

LEMMA EvaluateType ==
    ASSUME NEW d \in Detect!Detection, NEW frame \in Detect!Frame
    PROVE  Detect!Evaluate(d, frame) \in Detect!Detection
<1> USE DEF Detect!Detection, Detect!Lifecycle
<1>1. CASE Detect!DuelStarted(d, frame) \/ Detect!DuelEnded(d, frame)
  BY <1>1 DEF Detect!Evaluate, Detect!NoDuel
<1>2. CASE ~Detect!DuelStarted(d, frame) /\ ~Detect!DuelEnded(d, frame)
  <2>1. CASE Detect!InDuel(d)
    BY <1>2, <2>1 DEF Detect!Evaluate
  <2>2. CASE ~Detect!InDuel(d) /\ "duel_start" \in frame
    <3>1. Detect!Evaluate(d, frame)
            = [lifecycle_state |-> "potential_duel", start_count |-> d.start_count + 1,
               end_count |-> d.end_count]
      BY <1>2, <2>2 DEF Detect!Evaluate
    <3> QED
      BY <3>1
  <2>3. CASE ~Detect!InDuel(d) /\ "duel_start" \notin frame
    <3>1. Detect!Evaluate(d, frame)
            = [lifecycle_state |-> "no_duel", start_count |-> 0, end_count |-> d.end_count]
      BY <1>2, <2>3 DEF Detect!Evaluate
    <3> QED
      BY <3>1
  <2> QED
    BY <2>1, <2>2, <2>3
<1> QED
  BY <1>1, <1>2

-----------------------------------------------------------------------------
(***************************************************************************)
(* A command that is carried out.  WorkerInv is the part of the invariant  *)
(* that is about the Worker.                                               *)
(***************************************************************************)

WorkerInv ==
    /\ recording \in Recording
    /\ sessions \in 0 .. MaxSession
    /\ matches \subseteq Session
    /\ FromSessions
    /\ AskedToStop
    /\ HandedOverIsFinal

LEMMA WorkerUnchanged ==
    ASSUME WorkerInv, UNCHANGED <<recording, sessions, matches, stopped>>
    PROVE  WorkerInv'
  BY DEF WorkerInv, FromSessions, AskedToStop, HandedOverIsFinal

LEMMA ApplyKeeps ==
    ASSUME WorkerInv, NEW action \in Sent, NEW source \in COMMAND_SOURCES,
           Accepts(recording, action), Apply(action, source)
    PROVE  WorkerInv'
<1> USE Constants DEF WorkerInv
<1>1. recording' = Transition(recording, action, source, sessions + 1)
  BY DEF Apply, Applied
<1>2. CASE action = "start"
  <2>1. sessions < MaxSession /\ sessions' = sessions + 1 /\ UNCHANGED stopped
    BY <1>2 DEF Apply
  <2>2. recording'.state = "starting" /\ recording'.session_id = sessions + 1
    BY <1>1, <1>2, CommandEffect
  <2>3. matches' = matches
    BY <1>1, <1>2, <2>2 DEF Apply
  <2>4. recording' \in Recording
    BY <1>1, <2>1, TransitionType DEF Session
  <2>5. sessions + 1 \notin matches
    BY DEF FromSessions
  <2>6. FromSessions'
    BY <2>1, <2>2, <2>3 DEF FromSessions
  <2>7. AskedToStop' /\ HandedOverIsFinal'
    BY <2>1, <2>2, <2>3, <2>5 DEF AskedToStop, HandedOverIsFinal
  <2> QED
    BY <2>1, <2>3, <2>4, <2>6, <2>7
<1>3. CASE action # "start"
  <2>1. UNCHANGED sessions
    BY <1>3 DEF Apply
  <2>2. /\ recording'.session_id = recording.session_id
        /\ \/ /\ action = "confirm_started" /\ recording'.state = "recording"
              /\ recording.state \in {"starting", "recording"}
           \/ /\ action = "stop" /\ recording'.state = "stopping" /\ recording.state = "recording"
           \/ /\ action = "confirm_stopped" /\ recording'.state = "completed"
              /\ recording.state \in {"stopping", "completed"}
    BY <1>1, <1>3, CommandEffect
  <2>3. recording' \in Recording
    <3>1. recording'.state \in RECORDING_STATES
      BY <2>2 DEF RECORDING_STATES
    <3>2. recording'.session_id \in Session \cup {NoSession}
      BY <2>2 DEF Recording
    <3>3. recording' = [state |-> recording'.state, session_id |-> recording'.session_id,
                        command_source |-> source]
      BY <1>1 DEF Transition
    <3> QED
      BY <3>1, <3>2, <3>3 DEF Recording
  <2>4. recording.session_id \in 1 .. sessions /\ 1 .. sessions \subseteq Session
    BY <2>2 DEF FromSessions, ACTIVE_STATES, Session
  <2>5. CASE action = "confirm_started"
    <3>1. UNCHANGED <<matches, stopped>>
      BY <1>1, <2>2, <2>5 DEF Apply, Applied
    <3>2. recording.session_id \notin matches
      BY <2>2, <2>5 DEF HandedOverIsFinal
    <3> QED
      BY <2>1, <2>2, <2>3, <2>4, <2>5, <3>1, <3>2
      DEF FromSessions, AskedToStop, HandedOverIsFinal, ACTIVE_STATES
  <2>6. CASE action = "stop"
    <3>1. UNCHANGED matches /\ stopped' = stopped \cup {recording.session_id}
      BY <1>1, <2>2, <2>6 DEF Apply, Applied
    <3>2. recording.session_id \notin matches
      BY <2>2, <2>6 DEF HandedOverIsFinal
    <3> QED
      BY <2>1, <2>2, <2>3, <2>4, <2>6, <3>1, <3>2
      DEF FromSessions, AskedToStop, HandedOverIsFinal, ACTIVE_STATES
  <2>7. CASE action = "confirm_stopped"
    <3>1. UNCHANGED stopped /\ matches' \in {matches, matches \cup {recording.session_id}}
      BY <1>1, <2>2, <2>7 DEF Apply, Applied
    <3>2. recording.session_id \in stopped /\ recording'.state = "completed"
      BY <2>2, <2>7 DEF AskedToStop
    <3> QED
      BY <2>1, <2>2, <2>3, <2>4, <2>7, <3>1, <3>2
      DEF FromSessions, AskedToStop, HandedOverIsFinal
  <2> QED
    BY <2>2, <2>5, <2>6, <2>7
<1> QED
  BY <1>2, <1>3

LEMMA CarryKeeps ==
    ASSUME WorkerInv, NEW action \in Sent, NEW source \in COMMAND_SOURCES, Carry(action, source)
    PROVE  WorkerInv'
BY ApplyKeeps, WorkerUnchanged DEF Carry

\* The snapshot holds what an accepted command left, or nothing.
Snapshots == [running : BOOLEAN, recording : Recording \cup {Unavailable}]

LEMMA SnapshotTakes ==
    ASSUME NEW s \in Snapshots, NEW r \in Recording \cup {Unavailable}
    PROVE  [s EXCEPT !.recording = r] \in Snapshots
<1>1. s.running \in BOOLEAN
  BY Zenon DEF Snapshots
<1>2. [s EXCEPT !.recording = r] = [running |-> s.running, recording |-> r]
  BY DEF Snapshots
<1> QED
  BY <1>1, <1>2, Zenon DEF Snapshots

LEMMA SnapshotSays ==
    ASSUME NEW s \in Snapshots, NEW running \in BOOLEAN
    PROVE  [s EXCEPT !.running = running] \in Snapshots
<1>1. s.recording \in Recording \cup {Unavailable}
  BY Zenon DEF Snapshots
<1>2. DOMAIN s = {"running", "recording"}
  BY DEF Snapshots
<1> DEFINE t == [s EXCEPT !.running = running]
<1>3. /\ DOMAIN t = {"running", "recording"}
      /\ t = [f \in DOMAIN t |-> t[f]]
  BY <1>2
<1>4. t.running = running /\ t.recording = s.recording
  BY <1>2
<1> HIDE DEF t
<1>5. t = [running |-> t.running, recording |-> t.recording]
  BY <1>3
<1> QED
  BY <1>1, <1>4, <1>5, Zenon DEF Snapshots, t

LEMMA SendKeeps ==
    ASSUME WorkerInv, UnderWay, snap \in Snapshots,
           NEW action \in Sent, NEW source \in COMMAND_SOURCES, Send(action, source)
    PROVE  /\ WorkerInv' /\ snap' \in Snapshots /\ UNCHANGED detection
           /\ late' = NoCommand \/ (late'.action \in Sent /\ late'.source \in COMMAND_SOURCES)
<1>1. CASE /\ snap' = [snap EXCEPT !.recording = Unavailable]
           /\ UNCHANGED <<workerVars, late>>
  BY <1>1, SnapshotTakes, WorkerUnchanged DEF workerVars, UnderWay
<1>2. CASE /\ Answered(action)
           /\ Apply(action, source)
           /\ snap' = [snap EXCEPT !.recording = Applied(action, source)]
           /\ UNCHANGED <<detection, late>>
  <2>1. WorkerInv'
    BY <1>2, ApplyKeeps DEF Answered
  <2>2. recording' = Applied(action, source)
    BY <1>2 DEF Apply
  <2>3. Applied(action, source) \in Recording
    BY <2>1, <2>2 DEF WorkerInv
  <2> QED
    BY <1>2, <2>1, <2>3, SnapshotTakes DEF UnderWay
<1>3. CASE /\ late' \in {late} \cup (IF worker = "busy" /\ late = NoCommand
                                      THEN {[action |-> action, source |-> source]} ELSE {})
           /\ UNCHANGED <<workerVars, snap>>
  BY <1>3, WorkerUnchanged DEF workerVars, UnderWay
<1> QED
  BY <1>1, <1>2, <1>3 DEF Send

-----------------------------------------------------------------------------
(***************************************************************************)
(* The steps.                                                              *)
(***************************************************************************)

\* The rest of the invariant, apart from the Worker's part.
Shell ==
    /\ worker \in {"up", "busy", "down"}
    /\ detection \in Detect!Detection
    /\ snap \in Snapshots
    /\ fetched \in Recording \cup {NoFetch}
    /\ obs \in {"off", "starting", "on", "stopping"}
    /\ Len(events) <= MaxEvents
    /\ UnderWay

LEMMA Parts == IInv <=> WorkerInv /\ Shell
BY DEF IInv, TypeOK, WorkerInv, Shell, Snapshots

LEMMA PartsPrimed == IInv' <=> WorkerInv' /\ Shell'
BY DEF IInv, TypeOK, WorkerInv, Shell, Snapshots

LEMMA InitInv == Init => IInv
<1> SUFFICES ASSUME Init
             PROVE  WorkerInv /\ Shell
  BY Parts
<1>1. InitialRecording \in Recording
  BY DEF InitialRecording, Recording, RECORDING_STATES, COMMAND_SOURCES
<1>2. recording = InitialRecording /\ sessions = 0 /\ matches = {} /\ stopped = {}
  BY DEF Init
<1>3. WorkerInv
  BY <1>1, <1>2, Constants
  DEF WorkerInv, FromSessions, AskedToStop, HandedOverIsFinal, InitialRecording, ACTIVE_STATES
<1>4. snap \in Snapshots
  BY Zenon DEF Init, Snapshots
<1>5. detection \in Detect!Detection
  BY DEF Init, Detect!NoDuel, Detect!Detection, Detect!Lifecycle
<1>6. Shell
  BY <1>4, <1>5, Constants DEF Init, Shell, UnderWay
<1> QED
  BY <1>3, <1>6

\* A step of the Dock that sends a command at most.
LEMMA DockKeeps ==
    ASSUME IInv, UNCHANGED <<worker, fetched>>, obs' \in {obs, "starting", "stopping"},
           events' \in Seq({"started", "stopped"}), Len(events') <= MaxEvents,
           \/ \E action \in Sent, source \in COMMAND_SOURCES : Send(action, source)
           \/ UNCHANGED <<workerVars, late, snap>>
    PROVE  IInv'
<1> SUFFICES WorkerInv' /\ Shell'
  BY PartsPrimed
<1>1. WorkerInv /\ Shell
  BY Parts
<1>2. /\ WorkerInv' /\ snap' \in Snapshots /\ UNCHANGED detection
      /\ late' = NoCommand \/ (late'.action \in Sent /\ late'.source \in COMMAND_SOURCES)
  <2>1. CASE UNCHANGED <<workerVars, late, snap>>
    BY <1>1, <2>1, WorkerUnchanged DEF workerVars, Shell, UnderWay
  <2> QED
    BY <1>1, <2>1, SendKeeps DEF Shell
<1>3. UnderWay'
  BY <1>2 DEF UnderWay
<1> QED
  BY <1>1, <1>2, <1>3 DEF Shell

LEMMA ManualKeeps ==
    ASSUME IInv, ManualStart \/ ManualStarted \/ ManualStop \/ ManualStopped
    PROVE  IInv'
<1>1. "manual" \in COMMAND_SOURCES /\ Len(events) <= MaxEvents /\ UnderWay
  BY DEF COMMAND_SOURCES, IInv, TypeOK
<1>2. UNCHANGED <<worker, fetched, events>> /\ obs' \in {obs, "starting", "stopping"}
  BY DEF ManualStart, ManualStarted, ManualStop, ManualStopped, StartedObs
<1>3. \/ \E action \in Sent : Send(action, "manual")
      \/ UNCHANGED <<workerVars, late, snap>>
  BY DEF ManualStart, ManualStarted, ManualStop, ManualStopped, Sent
<1> QED
  BY <1>1, <1>2, <1>3, DockKeeps DEF UnderWay

LEMMA TickKeeps ==
    ASSUME IInv, TickBegin \/ HandleAutomaticRecording \/ FeedBegin
    PROVE  IInv'
<1>1. "automatic" \in COMMAND_SOURCES /\ Len(events) <= MaxEvents /\ UnderWay
  BY DEF COMMAND_SOURCES, IInv, TypeOK
<1>2. UNCHANGED <<worker, fetched, events>>
  BY DEF TickBegin, HandleAutomaticRecording, FeedBegin
<1>3. /\ obs' \in {obs, "starting", "stopping"}
      /\ \/ \E action \in Sent : Send(action, "automatic")
         \/ UNCHANGED <<workerVars, late, snap>>
  <2>1. CASE TickConfirmsStart \/ TickConfirmsStop
    BY <2>1 DEF TickConfirmsStart, TickConfirmsStop, Sent
  <2>2. CASE TickStartsObs \/ TickStopsObs \/ TickWaits \/ TickForgets
    BY <2>2 DEF TickStartsObs, TickStopsObs, TickWaits, TickForgets, StartedObs
  <2>3. CASE TickBegin \/ FeedBegin
    BY <2>3 DEF TickBegin, FeedBegin
  <2> QED
    BY <2>1, <2>2, <2>3 DEF HandleAutomaticRecording
<1> QED
  BY <1>1, <1>2, <1>3, DockKeeps DEF UnderWay

\* The source of a confirmation is that of a pending command, never "".
LEMMA EventKeeps ==
    ASSUME IInv, FrontendEvent
    PROVE  IInv'
<1>1. ASSUME NEW pending \in {"starting", "stopping"}
      PROVE  EventSource(pending) \in COMMAND_SOURCES
  <2>1. snap.recording \in Recording \cup {Unavailable}
    BY Zenon DEF IInv, TypeOK
  <2>2. CASE snap.recording.state = pending
    <3>1. Unavailable.state # pending
      BY DEF Unavailable
    <3>2. snap.recording \in Recording
      BY <2>1, <2>2, <3>1
    <3> QED
      BY <2>2, <3>2 DEF EventSource, Recording
  <2>3. CASE snap.recording.state # pending
    BY <2>3 DEF EventSource, COMMAND_SOURCES
  <2> QED
    BY <2>2, <2>3
<1>2. \E action \in Sent, source \in COMMAND_SOURCES : Send(action, source)
  BY <1>1 DEF FrontendEvent, Sent
<1>3. events' \in Seq({"started", "stopped"}) /\ Len(events') <= MaxEvents
  <2>1. events \in Seq({"started", "stopped"}) /\ events # <<>> /\ events' = Tail(events)
    BY DEF IInv, UnderWay, FrontendEvent
  <2>2. events' \in Seq({"started", "stopped"}) /\ Len(events') = Len(events) - 1
    BY <2>1, HeadTailProperties
  <2> QED
    BY <2>1, <2>2, LenProperties, Constants DEF IInv, TypeOK
<1> QED
  BY <1>2, <1>3, DockKeeps DEF FrontendEvent

LEMMA FeedSendKeeps ==
    ASSUME IInv, NEW frame \in Detect!Frame, FeedSend(frame)
    PROVE  IInv'
<1> SUFFICES WorkerInv' /\ Shell'
  BY PartsPrimed
<1>1. WorkerInv /\ Shell
  BY Parts
<1>2. UNCHANGED <<worker, late, snap, fetched, obs, events>>
  BY DEF FeedSend
<1>3. WorkerInv'
  <2>1. FrameCommand(frame) \subseteq Sent /\ "automatic" \in COMMAND_SOURCES
    BY DEF FrameCommand, Sent, COMMAND_SOURCES
  <2>2. \/ \E action \in FrameCommand(frame) : Carry(action, "automatic")
        \/ UNCHANGED <<recording, sessions, matches, stopped>>
    BY DEF FeedSend, workerVars
  <2> QED
    BY <1>1, <2>1, <2>2, CarryKeeps, WorkerUnchanged
<1>4. detection' \in Detect!Detection
  BY <1>1, EvaluateType DEF FeedSend, workerVars, Shell
<1> QED
  BY <1>1, <1>2, <1>3, <1>4 DEF Shell, UnderWay

\* OBS and its user disturb nothing but OBS.
LEMMA ObsKeeps ==
    ASSUME IInv, ObsStarts \/ ObsStops \/ ObsButton
    PROVE  IInv'
<1> SUFFICES WorkerInv' /\ Shell'
  BY PartsPrimed
<1>1. WorkerInv /\ Shell
  BY Parts
<1>2. UNCHANGED <<worker, workerVars, late, snap, fetched>>
  BY DEF ObsStarts, ObsStops, ObsButton, ObsReports
<1>3. obs' \in {"off", "starting", "on", "stopping"}
  BY DEF ObsStarts, ObsStops, ObsButton, ObsReports
<1>4. events' \in Seq({"started", "stopped"}) /\ Len(events') <= MaxEvents
  <2>1. CASE UNCHANGED events
    BY <1>1, <2>1 DEF Shell, UnderWay
  <2>2. ASSUME NEW event \in {"started", "stopped"}, Len(events) < MaxEvents,
               events' = Append(events, event)
        PROVE  events' \in Seq({"started", "stopped"}) /\ Len(events') <= MaxEvents
    <3>1. events \in Seq({"started", "stopped"})
      BY <1>1 DEF Shell, UnderWay
    <3>2. events' \in Seq({"started", "stopped"}) /\ Len(events') = Len(events) + 1
      BY <2>2, <3>1, AppendProperties
    <3> QED
      BY <2>2, <3>1, <3>2, LenProperties, Constants
  <2> QED
    BY <2>1, <2>2 DEF ObsStarts, ObsStops, ObsButton, ObsReports
<1>5. WorkerInv'
  BY <1>1, <1>2, WorkerUnchanged DEF workerVars
<1> QED
  BY <1>1, <1>2, <1>3, <1>4, <1>5 DEF Shell, UnderWay, workerVars

LEMMA HeartbeatKeeps ==
    ASSUME IInv, HeartbeatFetch \/ HeartbeatStore \/ HeartbeatFails
    PROVE  IInv'
<1> SUFFICES WorkerInv' /\ Shell'
  BY PartsPrimed
<1>1. WorkerInv /\ Shell
  BY Parts
<1>2. UNCHANGED <<worker, workerVars, late, obs, events>>
  BY DEF HeartbeatFetch, HeartbeatStore, HeartbeatFails
<1>3. fetched' \in Recording \cup {NoFetch}
  BY <1>1 DEF HeartbeatFetch, HeartbeatStore, HeartbeatFails, WorkerInv, Shell
<1>4. snap' \in Snapshots
  <2>1. CASE HeartbeatFetch
    BY <1>1, <2>1 DEF HeartbeatFetch, Shell
  <2>2. CASE HeartbeatStore
    <3>1. fetched \in Recording /\ snap' = [running |-> TRUE, recording |-> fetched]
      BY <1>1, <2>2 DEF HeartbeatStore, Shell
    <3> QED
      BY <3>1, Zenon DEF Snapshots
  <2>3. CASE HeartbeatFails
    <3>1. CASE snap' = [snap EXCEPT !.running = FALSE]
      BY <1>1, <3>1, SnapshotSays, Zenon DEF Shell
    <3>2. CASE snap' = [running |-> TRUE, recording |-> Unavailable]
      BY <3>2, Zenon DEF Snapshots
    <3> QED
      BY <2>3, <3>1, <3>2, Zenon DEF HeartbeatFails
  <2> QED
    BY <2>1, <2>2, <2>3
<1>5. WorkerInv'
  BY <1>1, <1>2, WorkerUnchanged DEF workerVars
<1> QED
  BY <1>1, <1>2, <1>3, <1>4, <1>5 DEF Shell, UnderWay, workerVars

\* An upload, a late command and a restart.  Recovery completes nothing and
\* interrupts no recording that is completed.
LEMMA WorkerKeeps ==
    ASSUME IInv, UploadBegins \/ UploadEnds \/ LateCommand \/ WorkerDies \/ WorkerStarts
    PROVE  IInv'
<1> SUFFICES WorkerInv' /\ Shell'
  BY PartsPrimed
<1>1. WorkerInv /\ Shell
  BY Parts
<1>2. UNCHANGED <<fetched, obs, events>> /\ worker' \in {"up", "busy", "down"}
  BY <1>1 DEF UploadBegins, UploadEnds, LateCommand, WorkerDies, WorkerStarts, Shell
<1>3. late' \in {late, NoCommand}
  BY DEF UploadBegins, UploadEnds, LateCommand, WorkerDies, WorkerStarts
<1>4. UnderWay'
  BY <1>1, <1>2, <1>3 DEF Shell, UnderWay
<1>5. detection' \in Detect!Detection
  <2>1. Detect!NoDuel \in Detect!Detection
    BY DEF Detect!NoDuel, Detect!Detection, Detect!Lifecycle
  <2> QED
    BY <1>1, <2>1
    DEF UploadBegins, UploadEnds, LateCommand, WorkerDies, WorkerStarts, Shell, workerVars
<1>6. snap' \in Snapshots
  <2>1. CASE WorkerStarts
    BY <1>1, <2>1, SnapshotSays, Zenon DEF WorkerStarts, Shell
  <2> QED
    BY <1>1, <2>1 DEF UploadBegins, UploadEnds, LateCommand, WorkerDies, Shell
<1>7. WorkerInv'
  <2>1. CASE LateCommand
    <3>1. \/ Carry(late.action, late.source)
          \/ UNCHANGED <<recording, sessions, matches, stopped>>
      BY <2>1 DEF LateCommand
    <3>2. late.action \in Sent /\ late.source \in COMMAND_SOURCES
      BY <1>1, <2>1 DEF LateCommand, Shell, UnderWay
    <3> QED
      BY <1>1, <3>1, <3>2, CarryKeeps, WorkerUnchanged
  <2>2. CASE WorkerStarts
    <3>1. recording' = Recover(recording) /\ UNCHANGED <<sessions, matches, stopped>>
      BY <2>2 DEF WorkerStarts
    <3>2. recording \in Recording
      BY <1>1 DEF WorkerInv
    <3> QED
      BY <1>1, <3>1, <3>2, RecoverEffect
      DEF WorkerInv, FromSessions, AskedToStop, HandedOverIsFinal, ACTIVE_STATES
  <2>3. CASE UploadBegins \/ UploadEnds \/ WorkerDies
    BY <1>1, <2>3, WorkerUnchanged DEF UploadBegins, UploadEnds, WorkerDies, workerVars
  <2> QED
    BY <2>1, <2>2, <2>3
<1> QED
  BY <1>1, <1>2, <1>4, <1>5, <1>6, <1>7 DEF Shell

LEMMA NextInv ==
    ASSUME IInv, [Next]_vars
    PROVE  IInv'
<1>1. CASE UNCHANGED vars
  BY <1>1 DEF vars, workerVars, IInv, TypeOK, UnderWay, FromSessions, AskedToStop, HandedOverIsFinal
<1> QED
  BY <1>1, ManualKeeps, TickKeeps, EventKeeps, FeedSendKeeps, ObsKeeps, HeartbeatKeeps, WorkerKeeps
  DEF Next

-----------------------------------------------------------------------------
(***************************************************************************)
(* The theorems.                                                           *)
(***************************************************************************)

\* The invariant holds throughout.
THEOREM PipelineInvariant == Spec => []IInv
<1>1. IInv /\ [Next]_vars => IInv'
  BY NextInv
<1> QED
  BY <1>1, InitInv, PTL DEF Spec

\* The states, copies and histories stay well-formed.
THEOREM PipelineTypeCorrect == Spec => []TypeOK
<1>1. IInv => TypeOK
  BY DEF IInv
<1> QED
  BY <1>1, PipelineInvariant, PTL

\* A recording that was handed over had been asked to stop and stays
\* completed, whichever commands are lost, late or repeated, however stale the
\* snapshots are that they were decided on, and however often the Worker is
\* started again.
THEOREM HandedOverCorrect == Spec => []HandedOverIsFinal
<1>1. IInv => HandedOverIsFinal
  BY DEF IInv
<1> QED
  BY <1>1, PipelineInvariant, PTL

=============================================================================
