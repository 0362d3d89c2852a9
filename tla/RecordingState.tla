--------------------------- MODULE RecordingState ---------------------------
(***************************************************************************)
(* The recording lifecycle of the Worker as pure operators: which command  *)
(* is accepted in which state, what it leaves, and what a restart makes of *)
(* the state it finds (app/worker/odr_worker/recording.py).                *)
(***************************************************************************)
EXTENDS Naturals

CONSTANTS
    Session,     \* ids of recording sessions
    NoSession    \* session_id '', not one of them

RECORDING_STATES == {"idle", "starting", "recording", "stopping",
                     "completed", "interrupted", "error"}

ACTIVE_STATES == {"starting", "recording", "stopping"}

COMMAND_ACTIONS == {"start", "confirm_started", "stop", "confirm_stopped",
                    "mark_interrupted", "discard_interrupted", "reset"}

COMMAND_SOURCES == {"manual", "automatic", "recovery"}

Recording == [state          : RECORDING_STATES,
              session_id     : Session \cup {NoSession},
              command_source : COMMAND_SOURCES]

InitialRecording ==
    [state |-> "idle", session_id |-> NoSession, command_source |-> "recovery"]

\* What load_recording_state returns for a file it cannot read.
UnreadableRecording ==
    [state |-> "error", session_id |-> NoSession, command_source |-> "recovery"]

-----------------------------------------------------------------------------

\* Mutation: a recording may be reported as stopped without being asked to.
AcceptingStatesUnasked(action) ==
    CASE action = "start"               -> {"idle", "completed"}
      [] action = "confirm_started"     -> {"starting", "recording"}
      [] action = "stop"                -> {"recording"}
      [] action = "confirm_stopped"     -> {"recording", "stopping", "completed"}
      [] action = "mark_interrupted"    -> ACTIVE_STATES
      [] action = "discard_interrupted" -> {"interrupted"}
      [] action = "reset"               -> RECORDING_STATES

\* The states in which a command is accepted, and the state it leads to.
AcceptingStates(action) ==
    CASE action = "start"               -> {"idle", "completed"}
      [] action = "confirm_started"     -> {"starting", "recording"}
      [] action = "stop"                -> {"recording"}
      [] action = "confirm_stopped"     -> {"stopping", "completed"}
      [] action = "mark_interrupted"    -> ACTIVE_STATES
      [] action = "discard_interrupted" -> {"interrupted"}
      [] action = "reset"               -> RECORDING_STATES

TargetState(action) ==
    CASE action = "start"                           -> "starting"
      [] action = "confirm_started"                 -> "recording"
      [] action = "stop"                            -> "stopping"
      [] action = "confirm_stopped"                 -> "completed"
      [] action = "mark_interrupted"                -> "interrupted"
      [] action \in {"discard_interrupted", "reset"} -> "idle"

Accepts(recording, action) == recording.state \in AcceptingStates(action)

\* A start opens a fresh session, a return to idle forgets it, and every
\* accepted command leaves its own source, the repeated confirmations too.
Transition(recording, action, source, fresh) ==
    [state          |-> TargetState(action),
     session_id     |-> CASE action = "start" -> fresh
                          [] action \in {"discard_interrupted", "reset"} -> NoSession
                          [] OTHER -> recording.session_id,
     command_source |-> source]

\* Mutation: a recording that was already stopping is taken up again.
RecoverResumesStopping(recording) ==
    IF recording.state \in {"starting", "recording"}
    THEN [recording EXCEPT !.state = "interrupted", !.command_source = "recovery"]
    ELSE recording

\* A session that was in progress when the Worker died is interrupted.
Recover(recording) ==
    IF recording.state \in ACTIVE_STATES
    THEN [recording EXCEPT !.state = "interrupted", !.command_source = "recovery"]
    ELSE recording

\* What the overlay shows of a state.
OverlayOf(recording) ==
    IF recording.state \in ACTIVE_STATES THEN "recording"
    ELSE IF recording.state \in {"idle", "completed"} THEN "idle"
    ELSE "unknown"

=============================================================================
