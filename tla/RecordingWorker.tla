--------------------------- MODULE RecordingWorker --------------------------
(***************************************************************************)
(* The recording state of the Worker: the state in memory, the file        *)
(* recording-state.json behind it, the matches and queue items that a      *)
(* completed manual recording is handed over to, and the duel detection    *)
(* that commands recordings of its own.                                    *)
(*                                                                         *)
(* A request runs on the event loop without yielding, so no two overlap,   *)
(* but it changes the memory, the file, the table matches and the table    *)
(* upload_queue one after the other, and the process may die, or a write   *)
(* fail, between any two.  A process that starts loads the file, saves     *)
(* what it recovered, and serves if the port is free; when another Worker  *)
(* serves it exits, but its recovery has been saved by then.  The overlay  *)
(* state that the same requests change is the subject of OverlaySync.      *)
(***************************************************************************)
EXTENDS Naturals

CONSTANTS
    MaxSession,            \* bound on the number of sessions
    NoSession,
    StartConfirmations, EndConfirmations

Session == 1 .. MaxSession

ASSUME ConstantsAssumption ==
    /\ MaxSession \in Nat
    /\ NoSession \notin Session
    /\ StartConfirmations \in Nat \ {0}
    /\ EndConfirmations \in Nat \ {0}

INSTANCE RecordingState
Detect == INSTANCE DetectionLifecycle

VARIABLES
    memory,     \* app.state.recording_state, when up
    disk,       \* recording-state.json
    detection,  \* state of the detection runtime, when up
    handler,    \* what is left to do of the request in progress
    up,         \* a Worker serves
    starting,   \* a process that starts
    matches,    \* sessions with a row in matches
    items,      \* sessions with a row in upload_queue
    sessions,   \* number of sessions started
    cut,        \* history: sessions in progress when the Worker died or was
                \* told that they were interrupted
    unsaved,    \* history: the last save failed
    doubled     \* history: a process started while a Worker served

requests == <<memory, detection, handler>>
tables == <<matches, items>>
history == <<cut, unsaved, doubled>>
vars == <<requests, disk, up, starting, tables, sessions, history>>

Nothing == [left |-> "nothing"]
ToSave(command, video) == [left |-> "save", command |-> command, video |-> video]
ToMatch(video) == [left |-> "match", video |-> video]
ToQueue == [left |-> "queue"]

Handler ==
    {Nothing, ToQueue} \cup [left : {"save"}, command : BOOLEAN, video : BOOLEAN]
                       \cup [left : {"match"}, video : BOOLEAN]

NotStarting == [phase |-> "none"]
Loaded(recording) == [phase |-> "loaded", recording |-> recording]
Saved(recording) == [phase |-> "saved", recording |-> recording]

Start == {NotStarting} \cup [phase : {"loaded", "saved"}, recording : Recording]

Init ==
    /\ memory = InitialRecording
    /\ disk = InitialRecording
    /\ detection = Detect!NoDuel
    /\ handler = Nothing
    /\ up = FALSE
    /\ starting = NotStarting
    /\ matches = {} /\ items = {}
    /\ sessions = 0
    /\ cut = {} /\ unsaved = FALSE /\ doubled = FALSE

Serving == up /\ handler = Nothing

-----------------------------------------------------------------------------
(***************************************************************************)
(* Requests.                                                               *)
(***************************************************************************)

\* The memory takes the next state before anything is written.
Apply(action, source) ==
    /\ Accepts(memory, action)
    /\ action = "start" => sessions < MaxSession
    /\ memory' = Transition(memory, action, source, sessions + 1)
    /\ sessions' = IF action = "start" THEN sessions + 1 ELSE sessions
    /\ cut' = IF action = "mark_interrupted" THEN cut \cup {memory.session_id} ELSE cut

\* POST /recording/command; video says whether it names the output file.
Command(action, source, video) ==
    /\ Serving
    /\ Apply(action, source)
    /\ handler' = ToSave(TRUE, video)
    /\ UNCHANGED <<disk, detection, up, starting, tables, unsaved, doubled>>

\* What a frame commands: the start or the stop of a recording.
FrameCommand(frame) ==
    IF Detect!DuelStarted(detection, frame) THEN {"start"}
    ELSE IF Detect!DuelEnded(detection, frame) THEN {"stop"}
    ELSE {}

\* Mutation: a frame changes the state in memory only.
DetectionFrameUnsaved(frame) ==
    /\ Serving
    /\ detection' = Detect!Evaluate(detection, frame)
    /\ \/ \E action \in FrameCommand(frame) : Apply(action, "automatic")
       \/ /\ \A action \in FrameCommand(frame) : ~Accepts(memory, action)
          /\ UNCHANGED <<memory, sessions, cut>>
    /\ UNCHANGED <<disk, handler, up, starting, tables, unsaved, doubled>>

\* POST /detection/frame.  A command that the recording state rejects is
\* skipped, but the lifecycle has moved on.
DetectionFrame(frame) ==
    /\ Serving
    /\ detection' = Detect!Evaluate(detection, frame)
    /\ \/ /\ \E action \in FrameCommand(frame) : Apply(action, "automatic")
          /\ handler' = ToSave(FALSE, FALSE)
       \/ /\ \A action \in FrameCommand(frame) : ~Accepts(memory, action)
          /\ UNCHANGED <<memory, sessions, cut, handler>>
    /\ UNCHANGED <<disk, up, starting, tables, unsaved, doubled>>

\* A template is registered: the detection runtime is built anew.
RegisterTemplate ==
    /\ Serving
    /\ detection' = Detect!NoDuel
    /\ UNCHANGED <<memory, handler, disk, up, starting, tables, sessions, history>>

\* A completed manual recording is handed over, whether it has just completed
\* or the confirmation was repeated.
HandsOver == handler.command /\ memory.state = "completed" /\ memory.command_source = "manual"

\* Mutation: the request goes on after a save that failed.
SaveFailsUnnoticed ==
    /\ handler.left = "save"
    /\ handler' = IF HandsOver THEN ToMatch(handler.video) ELSE Nothing
    /\ unsaved' = TRUE
    /\ UNCHANGED <<memory, disk, detection, up, starting, tables, sessions, cut, doubled>>

Save ==
    /\ handler.left = "save"
    /\ disk' = memory
    /\ handler' = IF HandsOver THEN ToMatch(handler.video) ELSE Nothing
    /\ unsaved' = FALSE
    /\ UNCHANGED <<memory, detection, up, starting, tables, sessions, cut, doubled>>

\* The file cannot be written: the request ends in an error, the memory has
\* changed all the same.
SaveFails ==
    /\ handler.left = "save"
    /\ handler' = Nothing
    /\ unsaved' = TRUE
    /\ UNCHANGED <<memory, disk, detection, up, starting, tables, sessions, cut, doubled>>

CreateMatch ==
    /\ handler.left = "match"
    /\ matches' = matches \cup {memory.session_id}
    /\ handler' = IF handler.video THEN ToQueue ELSE Nothing
    /\ UNCHANGED <<memory, disk, detection, up, starting, items, sessions, history>>

CreateItem ==
    /\ handler.left = "queue"
    /\ items' = items \cup {memory.session_id}
    /\ handler' = Nothing
    /\ UNCHANGED <<memory, disk, detection, up, starting, matches, sessions, history>>

\* The database is locked or full: the request ends in an error.
StoreFails ==
    /\ handler.left \in {"match", "queue"}
    /\ handler' = Nothing
    /\ UNCHANGED <<memory, disk, detection, up, starting, tables, sessions, history>>

\* POST /queue/reset runs on a thread of its own.
QueueReset ==
    /\ up
    /\ items' = {}
    /\ UNCHANGED <<requests, disk, up, starting, matches, sessions, history>>

-----------------------------------------------------------------------------
(***************************************************************************)
(* Processes die and start.                                                *)
(***************************************************************************)

Crash ==
    /\ up
    /\ up' = FALSE
    /\ handler' = Nothing
    /\ memory' = InitialRecording
    /\ detection' = Detect!NoDuel
    /\ cut' = IF memory.state \in ACTIVE_STATES THEN cut \cup {memory.session_id} ELSE cut
    /\ unsaved' = FALSE
    /\ UNCHANGED <<disk, starting, tables, sessions, doubled>>

\* The file is read, or cannot be.
StartLoad ==
    /\ starting = NotStarting
    /\ starting' \in {Loaded(Recover(disk)), Loaded(UnreadableRecording)}
    /\ doubled' = (doubled \/ up)
    /\ UNCHANGED <<requests, disk, up, tables, sessions, cut, unsaved>>

StartSave ==
    /\ starting.phase = "loaded"
    /\ disk' = starting.recording
    /\ starting' = Saved(starting.recording)
    /\ UNCHANGED <<requests, up, tables, sessions, history>>

\* The port is free: the process becomes the Worker.
StartServe ==
    /\ starting.phase = "saved"
    /\ ~up
    /\ up' = TRUE
    /\ memory' = starting.recording
    /\ starting' = NotStarting
    /\ UNCHANGED <<disk, detection, handler, tables, sessions, history>>

\* The port is taken, or the process dies.
StartEnds ==
    /\ starting # NotStarting
    /\ starting' = NotStarting
    /\ UNCHANGED <<requests, disk, up, tables, sessions, history>>

-----------------------------------------------------------------------------

Next ==
    \/ \E action \in COMMAND_ACTIONS, source \in COMMAND_SOURCES, video \in BOOLEAN :
          Command(action, source, video)
    \/ \E frame \in Detect!Frame : DetectionFrame(frame)
    \/ RegisterTemplate
    \/ Save
    \/ SaveFails
    \/ CreateMatch
    \/ CreateItem
    \/ StoreFails
    \/ QueueReset
    \/ Crash
    \/ StartLoad
    \/ StartSave
    \/ StartServe
    \/ StartEnds

Spec == Init /\ [][Next]_vars

-----------------------------------------------------------------------------
(***************************************************************************)
(* Properties.                                                             *)
(***************************************************************************)

\* The state, the file, the detection and the tables are well-formed.
TypeOK ==
    /\ memory \in Recording /\ disk \in Recording
    /\ detection \in Detect!Detection
    /\ detection.start_count < StartConfirmations
    /\ detection.end_count < EndConfirmations
    /\ handler \in Handler
    /\ up \in BOOLEAN
    /\ starting \in Start
    /\ items \subseteq Session /\ matches \subseteq Session
    /\ sessions \in 0 .. MaxSession
    /\ cut \subseteq Session
    /\ unsaved \in BOOLEAN /\ doubled \in BOOLEAN

\* A recording that was cut short, because the Worker died while it was in
\* progress or was told so, never becomes a match or an upload, not even
\* when a process starts beside the Worker and saves over its file.
CutNeverHandedOver == cut \cap (matches \cup items) = {}

\* A recording that was handed over stays completed, in memory and in the
\* file: no crash, failed save or restart makes it an interrupted one that
\* would have to be discarded.
HandedOverStaysCompleted ==
    ~doubled =>
        /\ up /\ memory.session_id \in matches => memory.state = "completed"
        /\ disk.session_id \in matches => disk.state = "completed"

\* Between two requests the file agrees with the memory, so a restart finds
\* the last accepted command, unless its save failed or a second process
\* saved over it.
SavedBetweenRequests == Serving /\ ~unsaved /\ ~doubled => disk = memory

=============================================================================
