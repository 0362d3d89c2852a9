----------------------- MODULE RecordingWorkerProofs ------------------------
(***************************************************************************)
(* Proofs about the recording state of the Worker.  The invariants follow  *)
(* from one inductive invariant, which says what the copies of the state,  *)
(* in memory, on disk and in a process that starts, may hold of a session. *)
(***************************************************************************)
EXTENDS RecordingWorker, TLAPS

Started == 1 .. sessions

\* The recordings that exist somewhere.
Copies == {memory, disk} \cup (IF starting = NotStarting THEN {} ELSE {starting.recording})

\* A state belongs to a session that was started, or to none.
FromSessions ==
    /\ \A r \in Copies : r.session_id \in Started \cup {NoSession}
    /\ \A r \in Copies : r.state \in ACTIVE_STATES \cup {"completed"} => r.session_id \in Started
    /\ matches \cup items \cup cut \subseteq Started

\* What was handed over, or is complete in some copy, was not cut.
OverIsNotCut ==
    /\ (matches \cup items) \cap cut = {}
    /\ \A r \in Copies : r.state = "completed" => r.session_id \notin cut

\* The session in progress is neither over nor cut.
ProgressIsOpen ==
    memory.state \in ACTIVE_STATES =>
        /\ memory.session_id \notin matches \cup items \cup cut
        /\ \A r \in Copies : r.state = "completed" => r.session_id # memory.session_id

\* A process that starts has recovered what it loaded.
StartsRecovered == starting # NotStarting => starting.recording.state \notin ACTIVE_STATES

\* A Worker that is down holds nothing; a handover goes on only while the
\* recording is completed.
HandlerInv ==
    /\ ~up => memory = InitialRecording /\ handler = Nothing /\ ~unsaved
    /\ handler.left \in {"match", "queue"} => memory.state = "completed" /\ ~unsaved

\* While one process at a time is at work, the file is what that one saved.
FileInv ==
    ~doubled =>
        /\ starting # NotStarting => ~up
        /\ starting.phase = "saved" => disk = starting.recording
        /\ Serving /\ ~unsaved => disk = memory
        /\ handler.left \in {"match", "queue"} => disk = memory

\* And a session with a match is completed wherever it appears.
MatchedInv ==
    ~doubled => \A r \in Copies : r.session_id \in matches => r.state = "completed"

IInv ==
    /\ TypeOK
    /\ FromSessions
    /\ OverIsNotCut
    /\ ProgressIsOpen
    /\ StartsRecovered
    /\ HandlerInv
    /\ FileInv
    /\ MatchedInv

-----------------------------------------------------------------------------
(***************************************************************************)
(* The operators.                                                          *)
(***************************************************************************)

\* An accepted command leads to a well-formed recording.
LEMMA TransitionType ==
    ASSUME NEW r \in Recording, NEW action \in COMMAND_ACTIONS,
           NEW source \in COMMAND_SOURCES, NEW fresh \in Session
    PROVE  Transition(r, action, source, fresh) \in Recording
  BY DEF Recording, Transition, TargetState, COMMAND_ACTIONS, RECORDING_STATES

\* Recovery keeps the session and leaves nothing in progress.
LEMMA RecoverEffect ==
    ASSUME NEW r \in Recording
    PROVE  /\ Recover(r) \in Recording
           /\ Recover(r).session_id = r.session_id
           /\ Recover(r).state \notin ACTIVE_STATES
           /\ Recover(r).state = "completed" <=> r.state = "completed"
  BY DEF Recover, Recording, ACTIVE_STATES, RECORDING_STATES, COMMAND_SOURCES

\* The counters of the detection stay below the confirmations they wait for.
LEMMA EvaluateType ==
    ASSUME NEW d \in Detect!Detection, NEW frame \in Detect!Frame,
           d.start_count < StartConfirmations, d.end_count < EndConfirmations
    PROVE  /\ Detect!Evaluate(d, frame) \in Detect!Detection
           /\ Detect!Evaluate(d, frame).start_count < StartConfirmations
           /\ Detect!Evaluate(d, frame).end_count < EndConfirmations
<1> USE ConstantsAssumption DEF Detect!Detection, Detect!Lifecycle
<1>1. CASE Detect!DuelStarted(d, frame)
  BY <1>1 DEF Detect!Evaluate, Detect!NoDuel
<1>2. CASE ~Detect!DuelStarted(d, frame) /\ Detect!DuelEnded(d, frame)
  BY <1>2 DEF Detect!Evaluate, Detect!NoDuel
<1>3. CASE ~Detect!DuelStarted(d, frame) /\ ~Detect!DuelEnded(d, frame) /\ Detect!InDuel(d)
  <2>1. "duel_end" \in frame => d.end_count + 1 < EndConfirmations
    BY <1>3 DEF Detect!DuelEnded
  <2> QED
    BY <1>3, <2>1 DEF Detect!Evaluate
<1>4. CASE ~Detect!DuelStarted(d, frame) /\ ~Detect!DuelEnded(d, frame) /\ ~Detect!InDuel(d)
  <2>1. "duel_start" \in frame => d.start_count + 1 < StartConfirmations
    BY <1>4 DEF Detect!DuelStarted
  <2>2. CASE "duel_start" \in frame
    <3>1. Detect!Evaluate(d, frame)
            = [lifecycle_state |-> "potential_duel", start_count |-> d.start_count + 1,
               end_count |-> d.end_count]
      BY <1>4, <2>2 DEF Detect!Evaluate
    <3> QED
      BY <2>1, <2>2, <3>1
  <2>3. CASE "duel_start" \notin frame
    <3>1. Detect!Evaluate(d, frame)
            = [lifecycle_state |-> "no_duel", start_count |-> 0, end_count |-> d.end_count]
      BY <1>4, <2>3 DEF Detect!Evaluate
    <3> QED
      BY <3>1
  <2> QED
    BY <2>2, <2>3
<1> QED
  BY <1>1, <1>2, <1>3, <1>4

-----------------------------------------------------------------------------
(***************************************************************************)
(* What an accepted command does to the recording in memory.               *)
(***************************************************************************)

Starts ==
    /\ memory.state \notin ACTIVE_STATES
    /\ memory'.state = "starting" /\ memory'.session_id = sessions + 1
    /\ sessions < MaxSession /\ sessions' = sessions + 1
    /\ cut' = cut

GoesOn ==
    /\ memory.state \in ACTIVE_STATES
    /\ memory'.state \in ACTIVE_STATES \cup {"completed"}
    /\ memory'.session_id = memory.session_id
    /\ UNCHANGED <<sessions, cut>>

CompletesAgain ==
    /\ memory.state = "completed" /\ memory'.state = "completed"
    /\ memory'.session_id = memory.session_id
    /\ UNCHANGED <<sessions, cut>>

IsInterrupted ==
    /\ memory.state \in ACTIVE_STATES
    /\ memory'.state = "interrupted" /\ memory'.session_id = memory.session_id
    /\ sessions' = sessions
    /\ cut' = cut \cup {memory.session_id}

IsForgotten ==
    /\ memory'.state = "idle" /\ memory'.session_id = NoSession
    /\ UNCHANGED <<sessions, cut>>

\* An accepted command has one of the five effects.
LEMMA ApplyEffect ==
    ASSUME TypeOK, NEW action \in COMMAND_ACTIONS, NEW source \in COMMAND_SOURCES,
           Apply(action, source)
    PROVE  /\ memory' \in Recording
           /\ Starts \/ GoesOn \/ CompletesAgain \/ IsInterrupted \/ IsForgotten
<1> USE ConstantsAssumption DEF TypeOK, ACTIVE_STATES
<1>1. memory' = Transition(memory, action, source, sessions + 1)
  BY DEF Apply
<1>2. /\ memory'.state = TargetState(action)
      /\ memory.state \in AcceptingStates(action)
      /\ action = "start" => sessions < MaxSession
  BY <1>1 DEF Apply, Accepts, Transition
<1>3. CASE action = "start"
  <2>1. sessions + 1 \in Session
    BY <1>2, <1>3 DEF Session
  <2>2. memory' \in Recording
    BY <1>1, <2>1, TransitionType
  <2>3. memory'.session_id = sessions + 1
    BY <1>1, <1>3 DEF Transition
  <2>4. Starts
    BY <1>2, <1>3, <2>3 DEF Starts, Apply, AcceptingStates, TargetState
  <2> QED
    BY <2>2, <2>4
<1>4. CASE action \in {"confirm_started", "stop", "confirm_stopped", "mark_interrupted"}
  <2>1. memory'.session_id = memory.session_id
    BY <1>1, <1>4 DEF Transition
  <2>2. memory' \in Recording
    BY <1>1, <1>4 DEF Transition, TargetState, Recording, RECORDING_STATES
  <2>3. sessions' = sessions
    BY <1>4 DEF Apply
  <2>4. CASE action = "mark_interrupted"
    BY <1>2, <2>1, <2>2, <2>3, <2>4 DEF IsInterrupted, Apply, AcceptingStates, TargetState
  <2>5. CASE action \in {"confirm_started", "stop"}
    BY <1>2, <2>1, <2>2, <2>3, <2>5 DEF GoesOn, Apply, AcceptingStates, TargetState
  <2>6. CASE action = "confirm_stopped"
    <3>1. memory.state \in {"stopping", "completed"} /\ memory'.state = "completed" /\ cut' = cut
      BY <1>2, <2>6 DEF Apply, AcceptingStates, TargetState
    <3> QED
      BY <2>1, <2>2, <2>3, <3>1 DEF GoesOn, CompletesAgain
  <2> QED
    BY <1>4, <2>4, <2>5, <2>6
<1>5. CASE action \in {"discard_interrupted", "reset"}
  <2>1. memory' \in Recording /\ memory'.session_id = NoSession
    BY <1>1, <1>5 DEF Transition, TargetState, Recording, RECORDING_STATES
  <2>2. UNCHANGED <<sessions, cut>>
    BY <1>5 DEF Apply
  <2> QED
    BY <1>2, <1>5, <2>1, <2>2 DEF IsForgotten, TargetState
<1> QED
  BY <1>3, <1>4, <1>5 DEF COMMAND_ACTIONS

-----------------------------------------------------------------------------
(***************************************************************************)
(* The inductive invariant.                                                *)
(***************************************************************************)

\* What the copies hold of sessions is kept by every accepted command: the
\* part of the invariant that does not look at the handler.
SessionInv == FromSessions /\ OverIsNotCut /\ ProgressIsOpen /\ MatchedInv

\* Each of them keeps what holds of the sessions.
LEMMA ApplyKeepsSessions ==
    ASSUME IInv, memory' \in Recording,
           Starts \/ GoesOn \/ CompletesAgain \/ IsInterrupted \/ IsForgotten,
           UNCHANGED <<disk, starting, matches, items, doubled>>
    PROVE  SessionInv'
<1> USE ConstantsAssumption
<1>1. /\ Started \subseteq Started'
      /\ sessions \in Nat /\ sessions' \in Nat
      /\ NoSession \notin Started /\ NoSession \notin Started'
  BY DEF IInv, TypeOK, Started, Session, Starts, GoesOn, CompletesAgain, IsInterrupted, IsForgotten
<1>2. ASSUME NEW r \in Copies', r # memory'
      PROVE  r \in Copies
  BY <1>2 DEF Copies
<1>3. memory \in Copies /\ memory' \in Copies'
  BY DEF Copies
<1>4. CASE Starts
  <2>1. /\ memory'.session_id \notin Started /\ memory'.session_id \in Started'
        /\ cut' = cut
        /\ memory'.state = "starting"
    BY <1>1, <1>4 DEF Starts, Started
  <2>2. memory'.session_id # NoSession
    BY <1>1, <2>1
  <2>3. FromSessions'
    BY <1>1, <1>2, <2>1 DEF IInv, FromSessions
  <2>4. OverIsNotCut' /\ ProgressIsOpen' /\ MatchedInv'
    BY <1>1, <1>2, <2>1, <2>2 DEF IInv, FromSessions, OverIsNotCut, ProgressIsOpen, MatchedInv,
       ACTIVE_STATES
  <2> QED
    BY <2>3, <2>4 DEF SessionInv
<1>5. CASE GoesOn
  <2> USE <1>1, <1>2, <1>3, <1>5 DEF GoesOn, IInv, ACTIVE_STATES
  <2>1. Started' = Started
    BY DEF Started
  <2>2. FromSessions'
    BY <2>1 DEF FromSessions
  <2>3. OverIsNotCut' /\ ProgressIsOpen' /\ MatchedInv'
    BY DEF OverIsNotCut, ProgressIsOpen, MatchedInv
  <2> QED
    BY <2>2, <2>3 DEF SessionInv
<1>6. CASE CompletesAgain
  <2> USE <1>1, <1>2, <1>3, <1>6 DEF CompletesAgain, IInv, ACTIVE_STATES
  <2>1. Started' = Started
    BY DEF Started
  <2>2. FromSessions'
    BY <2>1 DEF FromSessions
  <2>3. OverIsNotCut' /\ ProgressIsOpen' /\ MatchedInv'
    BY DEF OverIsNotCut, ProgressIsOpen, MatchedInv
  <2> QED
    BY <2>2, <2>3 DEF SessionInv
<1>7. CASE IsInterrupted
  <2> USE <1>1, <1>2, <1>3, <1>7 DEF IsInterrupted, IInv, ACTIVE_STATES
  <2>1. Started' = Started
    BY DEF Started
  <2>2. FromSessions'
    BY <2>1 DEF FromSessions
  <2>3. OverIsNotCut' /\ ProgressIsOpen' /\ MatchedInv'
    BY DEF OverIsNotCut, ProgressIsOpen, MatchedInv
  <2> QED
    BY <2>2, <2>3 DEF SessionInv
<1>8. CASE IsForgotten
  <2> USE <1>1, <1>2, <1>3, <1>8 DEF IsForgotten, IInv, ACTIVE_STATES
  <2>1. Started' = Started
    BY DEF Started
  <2>2. FromSessions'
    BY <2>1 DEF FromSessions
  <2>3. OverIsNotCut' /\ ProgressIsOpen' /\ MatchedInv'
    BY DEF FromSessions, OverIsNotCut, ProgressIsOpen, MatchedInv
  <2> QED
    BY <2>2, <2>3 DEF SessionInv
<1> QED
  BY <1>4, <1>5, <1>6, <1>7, <1>8

\* r says of sessions what a copy says already, or nothing.
Derived(r) ==
    \/ r \in Copies
    \/ r.session_id = NoSession /\ r.state \notin ACTIVE_STATES \cup {"completed"}
    \/ \E q \in Copies :
          /\ r.session_id = q.session_id
          /\ r.state = "completed" <=> q.state = "completed"
          /\ r.state \notin ACTIVE_STATES

\* Saving, loading, recovering and serving keep it, and so does a reset.
LEMMA CopyingKeepsSessions ==
    ASSUME IInv, \A r \in Copies' : Derived(r),
           memory' = memory \/ memory'.state \notin ACTIVE_STATES,
           items' \subseteq items, doubled => doubled',
           UNCHANGED <<matches, sessions, cut>>
    PROVE  SessionInv'
<1> USE ConstantsAssumption
<1>1. /\ Started' = Started
      /\ NoSession \notin Started
  BY DEF IInv, TypeOK, Started, Session
<1>2. FromSessions'
  BY <1>1 DEF IInv, FromSessions, Derived
<1>3. OverIsNotCut'
  BY <1>1 DEF IInv, FromSessions, OverIsNotCut, Derived
<1>4. ProgressIsOpen'
  <2> SUFFICES ASSUME memory'.state \in ACTIVE_STATES
               PROVE  ProgressIsOpen'
    BY DEF ProgressIsOpen
  <2>1. memory' = memory /\ memory.session_id \in Started
    BY DEF IInv, FromSessions, Copies
  <2> QED
    BY <1>1, <2>1 DEF IInv, ProgressIsOpen, Derived
<1>5. MatchedInv'
  BY <1>1 DEF IInv, FromSessions, MatchedInv, Derived
<1> QED
  BY <1>2, <1>3, <1>4, <1>5 DEF SessionInv

\* A session that is handed over is the completed one in memory, and it is
\* completed on disk.
LEMMA HandoverKeepsSessions ==
    ASSUME IInv, handler.left \in {"match", "queue"},
           matches' \cup items' \subseteq matches \cup items \cup {memory.session_id},
           matches' \subseteq matches \cup {memory.session_id},
           UNCHANGED <<memory, disk, starting, sessions, cut, doubled>>
    PROVE  SessionInv'
<1>1. /\ memory.state = "completed" /\ memory \in Copies
      /\ memory.session_id \in Started
  BY DEF IInv, HandlerInv, FromSessions, Copies
<1>2. Started' = Started /\ Copies' = Copies
  BY DEF Started, Copies
<1>3. FromSessions'
  BY <1>1, <1>2 DEF IInv, FromSessions
<1>4. OverIsNotCut' /\ ProgressIsOpen'
  BY <1>1, <1>2 DEF IInv, OverIsNotCut, ProgressIsOpen, ACTIVE_STATES
<1>5. MatchedInv'
  <2> SUFFICES ASSUME ~doubled
               PROVE  \A r \in Copies : r.session_id \in matches' => r.state = "completed"
    BY <1>2 DEF MatchedInv
  <2>1. Copies = {memory, disk} /\ disk = memory
    BY DEF IInv, FileInv, HandlerInv, Copies, Nothing
  <2> QED
    BY <1>1, <2>1
<1> QED
  BY <1>3, <1>4, <1>5 DEF SessionInv

\* A crash cuts the session in progress.
LEMMA CrashKeepsSessions ==
    ASSUME IInv, Crash
    PROVE  SessionInv'
<1> USE ConstantsAssumption DEF tables
<1>1. /\ Started' = Started
      /\ NoSession \notin Started
  BY DEF IInv, TypeOK, Started, Session, Crash
<1>2. memory' = InitialRecording /\ memory'.state = "idle" /\ memory'.session_id = NoSession
  BY DEF Crash, InitialRecording
<1>3. ASSUME NEW r \in Copies', r # memory'
      PROVE  r \in Copies
  BY <1>3 DEF Copies, Crash
<1>4. memory.state \in ACTIVE_STATES => memory.session_id \in Started
  BY DEF IInv, FromSessions, Copies
<1>5. FromSessions'
  BY <1>1, <1>2, <1>3, <1>4 DEF IInv, FromSessions, ACTIVE_STATES, Crash
<1>6. OverIsNotCut'
  BY <1>1, <1>2, <1>3 DEF IInv, OverIsNotCut, ProgressIsOpen, Crash
<1>7. ProgressIsOpen'
  BY <1>2 DEF ProgressIsOpen, ACTIVE_STATES
<1>8. MatchedInv'
  BY <1>1, <1>2, <1>3 DEF IInv, FromSessions, MatchedInv, Crash
<1> QED
  BY <1>5, <1>6, <1>7, <1>8 DEF SessionInv

\* What a Worker that is down holds is well-formed.
LEMMA InitialType ==
    /\ InitialRecording \in Recording
    /\ Detect!NoDuel \in Detect!Detection
    /\ Detect!NoDuel.start_count < StartConfirmations
    /\ Detect!NoDuel.end_count < EndConfirmations
<1>1. InitialRecording \in Recording
  BY DEF InitialRecording, Recording, RECORDING_STATES, COMMAND_SOURCES
<1>2. Detect!NoDuel \in Detect!Detection
  BY DEF Detect!NoDuel, Detect!Detection, Detect!Lifecycle
<1>3. Detect!NoDuel.start_count = 0 /\ Detect!NoDuel.end_count = 0
  BY DEF Detect!NoDuel
<1> QED
  BY <1>1, <1>2, <1>3, ConstantsAssumption

\* What may be left of a request.
LEMMA HandlerType ==
    /\ Nothing \in Handler /\ ToQueue \in Handler
    /\ \A command, video \in BOOLEAN : ToSave(command, video) \in Handler
    /\ \A video \in BOOLEAN : ToMatch(video) \in Handler
    /\ \A h \in Handler : h.left = "save" => h.video \in BOOLEAN
<1>1. Nothing \in Handler /\ ToQueue \in Handler
  BY DEF Handler
<1>2. \A command, video \in BOOLEAN : ToSave(command, video) \in Handler
  BY DEF Handler, ToSave
<1>3. \A video \in BOOLEAN : ToMatch(video) \in Handler
  BY DEF Handler, ToMatch
<1>4. \A h \in Handler : h.left = "save" => h.video \in BOOLEAN
  BY DEF Handler, Nothing, ToQueue
<1> QED
  BY <1>1, <1>2, <1>3, <1>4

\* How a process may start.
LEMMA StartType ==
    /\ NotStarting \in Start
    /\ \A r \in Recording : Loaded(r) \in Start /\ Saved(r) \in Start
    /\ \A s \in Start :
          /\ s.phase = "loaded" => \E r \in Recording : s = Loaded(r)
          /\ s.phase = "saved" => \E r \in Recording : s = Saved(r)
<1>1. NotStarting \in Start
  BY DEF Start
<1>2. \A r \in Recording : Loaded(r) \in Start /\ Saved(r) \in Start
  BY DEF Start, Loaded, Saved
<1>3. ASSUME NEW s \in Start, s.phase \in {"loaded", "saved"}
      PROVE  \E r \in Recording : s = [phase |-> s.phase, recording |-> r]
  <2>1. s \in [phase : {"loaded", "saved"}, recording : Recording]
    BY <1>3 DEF Start, NotStarting
  <2> QED
    BY <2>1
<1> QED
  BY <1>1, <1>2, <1>3 DEF Loaded, Saved

\* The number of sessions and the cut ones stay within the bound.
LEMMA ApplyType ==
    ASSUME IInv, Starts \/ GoesOn \/ CompletesAgain \/ IsInterrupted \/ IsForgotten
    PROVE  sessions' \in 0 .. MaxSession /\ cut' \subseteq Session
<1>1. sessions \in 0 .. MaxSession /\ cut \subseteq Session /\ MaxSession \in Nat
  BY ConstantsAssumption DEF IInv, TypeOK
<1>2. memory.state \in ACTIVE_STATES => memory.session_id \in Session
  BY <1>1 DEF IInv, FromSessions, Copies, Started, Session
<1>3. sessions' \in 0 .. MaxSession
  BY <1>1 DEF Starts, GoesOn, CompletesAgain, IsInterrupted, IsForgotten
<1>4. cut' \subseteq Session
  BY <1>1, <1>2 DEF Starts, GoesOn, CompletesAgain, IsInterrupted, IsForgotten
<1> QED
  BY <1>3, <1>4

ControlInv == StartsRecovered /\ HandlerInv /\ FileInv

\* Every step keeps the invariant.
LEMMA InvariantStep ==
    ASSUME IInv, [Next]_vars
    PROVE  IInv'
<1> SUFFICES TypeOK' /\ SessionInv' /\ ControlInv'
  BY DEF IInv, SessionInv, ControlInv
<1> USE ConstantsAssumption
<1>0. /\ memory \in Copies /\ disk \in Copies
      /\ starting # NotStarting => starting.recording \in Copies
  BY DEF Copies
<1>1. ASSUME NEW action \in COMMAND_ACTIONS, NEW source \in COMMAND_SOURCES, NEW video \in BOOLEAN,
             Command(action, source, video)
      PROVE  TypeOK' /\ SessionInv' /\ ControlInv'
  <2>1. /\ memory' \in Recording
        /\ Starts \/ GoesOn \/ CompletesAgain \/ IsInterrupted \/ IsForgotten
    BY <1>1, ApplyEffect DEF IInv, Command
  <2>2. SessionInv'
    BY <1>1, <2>1, ApplyKeepsSessions DEF Command, tables
  <2>3. sessions' \in 0 .. MaxSession /\ cut' \subseteq Session
    BY <2>1, ApplyType
  <2>4. handler' = ToSave(TRUE, video)
    BY <1>1 DEF Command
  <2>5. TypeOK'
    BY <1>1, <2>1, <2>3, <2>4, HandlerType DEF IInv, TypeOK, Command, tables
  <2>6. ControlInv'
    BY <1>1, <2>4 DEF IInv, ControlInv, StartsRecovered, HandlerInv, FileInv, Command, tables,
       Serving, Nothing, ToSave
  <2> QED
    BY <2>2, <2>5, <2>6
<1>2. ASSUME NEW frame \in Detect!Frame, DetectionFrame(frame)
      PROVE  TypeOK' /\ SessionInv' /\ ControlInv'
  <2>1. /\ detection' \in Detect!Detection
        /\ detection'.start_count < StartConfirmations
        /\ detection'.end_count < EndConfirmations
    BY <1>2, EvaluateType DEF IInv, TypeOK, DetectionFrame
  <2>2. CASE /\ \E action \in FrameCommand(frame) : Apply(action, "automatic")
             /\ handler' = ToSave(FALSE, FALSE)
    <3>1. PICK action \in COMMAND_ACTIONS : Apply(action, "automatic")
      BY <2>2 DEF FrameCommand, COMMAND_ACTIONS
    <3>2. /\ memory' \in Recording
          /\ Starts \/ GoesOn \/ CompletesAgain \/ IsInterrupted \/ IsForgotten
      BY <3>1, ApplyEffect DEF IInv, COMMAND_SOURCES
    <3>3. SessionInv'
      BY <1>2, <3>2, ApplyKeepsSessions DEF DetectionFrame, tables
    <3>4. sessions' \in 0 .. MaxSession /\ cut' \subseteq Session
      BY <3>2, ApplyType
    <3>5. TypeOK'
      BY <1>2, <2>1, <2>2, <3>2, <3>4, HandlerType DEF IInv, TypeOK, DetectionFrame, tables
    <3>6. ControlInv'
      BY <1>2, <2>2 DEF IInv, ControlInv, StartsRecovered, HandlerInv, FileInv, DetectionFrame,
         tables, Serving, Nothing, ToSave
    <3> QED
      BY <3>3, <3>5, <3>6
  <2>3. CASE UNCHANGED <<memory, sessions, cut, handler>>
    <3>1. TypeOK'
      BY <1>2, <2>1, <2>3 DEF IInv, TypeOK, DetectionFrame, tables
    <3>2. SessionInv'
      BY <1>2, <2>3, CopyingKeepsSessions DEF DetectionFrame, tables, Copies, Derived
    <3>3. ControlInv'
      BY <1>2, <2>3 DEF IInv, ControlInv, StartsRecovered, HandlerInv, FileInv, DetectionFrame,
         tables, Serving
    <3> QED
      BY <3>1, <3>2, <3>3
  <2> QED
    BY <1>2, <2>2, <2>3 DEF DetectionFrame
<1>3. CASE RegisterTemplate
  <2> USE <1>3 DEF RegisterTemplate, tables, history
  <2>1. TypeOK'
    BY InitialType DEF IInv, TypeOK
  <2>2. SessionInv'
    BY CopyingKeepsSessions DEF Copies, Derived
  <2>3. ControlInv'
    BY DEF IInv, ControlInv, StartsRecovered, HandlerInv, FileInv, Serving
  <2> QED
    BY <2>1, <2>2, <2>3
<1>4. CASE Save
  <2> USE <1>4 DEF Save, tables
  <2>1. handler.video \in BOOLEAN
    BY HandlerType DEF IInv, TypeOK
  <2>2. handler' \in {ToMatch(handler.video), Nothing}
    OBVIOUS
  <2>3. TypeOK'
    BY <2>1, <2>2, HandlerType DEF IInv, TypeOK
  <2>4. SessionInv'
    BY CopyingKeepsSessions DEF Copies, Derived
  <2>5. up
    BY DEF IInv, HandlerInv, Nothing
  <2>6. StartsRecovered' /\ FileInv'
    BY <2>5 DEF IInv, StartsRecovered, FileInv, Serving, NotStarting
  <2>7. HandlerInv'
    BY <2>5 DEF IInv, HandlerInv, HandsOver, Nothing
  <2> QED
    BY <2>3, <2>4, <2>6, <2>7 DEF ControlInv
<1>5. CASE SaveFails
  <2> USE <1>5 DEF SaveFails, tables
  <2>1. TypeOK'
    BY HandlerType, StartType DEF IInv, TypeOK
  <2>2. SessionInv'
    BY CopyingKeepsSessions DEF Copies, Derived
  <2>3. up
    BY DEF IInv, HandlerInv, Nothing
  <2>4. ControlInv'
    BY <2>3 DEF IInv, ControlInv, StartsRecovered, HandlerInv, FileInv, Serving, Nothing
  <2> QED
    BY <2>1, <2>2, <2>4
<1>6. CASE CreateMatch
  <2> USE <1>6 DEF CreateMatch, history
  <2>1. memory.session_id \in Session
    BY <1>0 DEF IInv, HandlerInv, FromSessions, Started, Session, TypeOK
  <2>2. handler' \in {ToQueue, Nothing}
    OBVIOUS
  <2>3. TypeOK'
    BY <2>1, <2>2, HandlerType DEF IInv, TypeOK
  <2>4. SessionInv'
    BY HandoverKeepsSessions
  <2>5. up
    BY DEF IInv, HandlerInv, Nothing
  <2>6. ControlInv'
    BY <2>2, <2>5 DEF IInv, ControlInv, StartsRecovered, HandlerInv, FileInv, Serving, Nothing, ToQueue
  <2> QED
    BY <2>3, <2>4, <2>6
<1>7. CASE CreateItem
  <2> USE <1>7 DEF CreateItem, history
  <2>1. memory.session_id \in Session
    BY <1>0 DEF IInv, HandlerInv, FromSessions, Started, Session, TypeOK
  <2>2. TypeOK'
    BY <2>1, HandlerType, StartType DEF IInv, TypeOK
  <2>3. SessionInv'
    BY HandoverKeepsSessions
  <2>4. up
    BY DEF IInv, HandlerInv, Nothing
  <2>5. ControlInv'
    BY <2>4 DEF IInv, ControlInv, StartsRecovered, HandlerInv, FileInv, Serving, Nothing
  <2> QED
    BY <2>2, <2>3, <2>5
<1>8. CASE StoreFails
  <2> USE <1>8 DEF StoreFails, tables, history
  <2>1. TypeOK'
    BY HandlerType, StartType DEF IInv, TypeOK
  <2>2. SessionInv'
    BY CopyingKeepsSessions DEF Copies, Derived
  <2>3. up
    BY DEF IInv, HandlerInv, Nothing
  <2>4. ControlInv'
    BY <2>3 DEF IInv, ControlInv, StartsRecovered, HandlerInv, FileInv, Serving, Nothing
  <2> QED
    BY <2>1, <2>2, <2>4
<1>9. CASE QueueReset
  <2> USE <1>9 DEF QueueReset, requests, history
  <2>1. TypeOK'
    BY HandlerType, StartType DEF IInv, TypeOK
  <2>2. SessionInv'
    BY CopyingKeepsSessions DEF Copies, Derived
  <2>3. ControlInv'
    BY DEF IInv, ControlInv, StartsRecovered, HandlerInv, FileInv, Serving
  <2> QED
    BY <2>1, <2>2, <2>3
<1>10. CASE Crash
  <2> USE <1>10 DEF Crash, tables
  <2>1. /\ InitialRecording \in Recording /\ Detect!NoDuel \in Detect!Detection
        /\ Detect!NoDuel.start_count < StartConfirmations
        /\ Detect!NoDuel.end_count < EndConfirmations
    BY InitialType
  <2>2. cut' \subseteq Session
    BY <1>0 DEF IInv, FromSessions, Started, Session, TypeOK
  <2>3. TypeOK'
    BY <2>1, <2>2, HandlerType DEF IInv, TypeOK
  <2>4. SessionInv'
    BY CrashKeepsSessions
  <2>5. ControlInv'
    BY DEF IInv, ControlInv, StartsRecovered, HandlerInv, FileInv, Serving, Nothing
  <2> QED
    BY <2>3, <2>4, <2>5
<1>11. CASE StartLoad
  <2> USE <1>11 DEF StartLoad, requests, tables
  <2>1. PICK r \in Recording : /\ starting' = Loaded(r)
                               /\ r.state \notin ACTIVE_STATES
                               /\ Derived(r)
    <3>1. CASE starting' = Loaded(Recover(disk))
      <4>1. disk \in Recording
        BY DEF IInv, TypeOK
      <4>2. Derived(Recover(disk))
        BY <1>0, <4>1, RecoverEffect DEF Derived
      <4> QED
        BY <3>1, <4>1, <4>2, RecoverEffect
    <3>2. CASE starting' = Loaded(UnreadableRecording)
      BY <3>2 DEF UnreadableRecording, Recording, RECORDING_STATES, COMMAND_SOURCES,
         ACTIVE_STATES, Derived
    <3> QED
      BY <3>1, <3>2
  <2>2. TypeOK'
    BY <2>1, HandlerType, StartType DEF IInv, TypeOK
  <2>3. Copies' \subseteq Copies \cup {r}
    BY <2>1 DEF Copies, Loaded
  <2>4. SessionInv'
    BY <2>1, <2>3, CopyingKeepsSessions DEF Derived
  <2>5. ControlInv'
    BY <2>1 DEF IInv, ControlInv, StartsRecovered, HandlerInv, FileInv, Serving, Loaded
  <2> QED
    BY <2>2, <2>4, <2>5
<1>12. CASE StartSave
  <2> USE <1>12 DEF StartSave, requests, tables, history
  <2>1. starting # NotStarting
    BY DEF NotStarting
  <2>2. PICK r \in Recording : starting = Loaded(r)
    BY StartType DEF IInv, TypeOK
  <2>3. starting.recording = r /\ starting' = Saved(r)
    BY <2>2 DEF Loaded
  <2>4. TypeOK'
    BY <2>3, StartType DEF IInv, TypeOK
  <2>5. Copies' \subseteq Copies
    BY <1>0, <2>1, <2>3 DEF Copies, Saved
  <2>6. SessionInv'
    BY <2>5, CopyingKeepsSessions DEF Derived
  <2>7. ControlInv'
    BY <2>1, <2>3 DEF IInv, ControlInv, StartsRecovered, HandlerInv, FileInv, Serving, Saved, Nothing
  <2> QED
    BY <2>4, <2>6, <2>7
<1>13. CASE StartServe
  <2> USE <1>13 DEF StartServe, tables, history
  <2>1. starting # NotStarting
    BY DEF NotStarting
  <2>2. PICK r \in Recording : starting = Saved(r)
    BY StartType DEF IInv, TypeOK
  <2>3. memory' = r /\ starting.recording = r
    BY <2>2 DEF Saved
  <2>4. TypeOK'
    BY <2>3, StartType DEF IInv, TypeOK
  <2>5. Copies' \subseteq Copies
    BY <1>0, <2>1, <2>3 DEF Copies
  <2>6. memory'.state \notin ACTIVE_STATES
    BY <2>1, <2>3 DEF IInv, StartsRecovered
  <2>7. SessionInv'
    BY <2>5, <2>6, CopyingKeepsSessions DEF Derived
  <2>8. ControlInv'
    BY <2>1, <2>3 DEF IInv, ControlInv, StartsRecovered, HandlerInv, FileInv, Serving, Nothing,
       NotStarting
  <2> QED
    BY <2>4, <2>7, <2>8
<1>14. CASE StartEnds
  <2> USE <1>14 DEF StartEnds, requests, tables, history
  <2>1. TypeOK'
    BY HandlerType, StartType DEF IInv, TypeOK
  <2>2. SessionInv'
    BY CopyingKeepsSessions DEF Copies, Derived
  <2>3. ControlInv'
    BY DEF IInv, ControlInv, StartsRecovered, HandlerInv, FileInv, Serving, NotStarting
  <2> QED
    BY <2>1, <2>2, <2>3
<1>15. CASE UNCHANGED vars
  <2> USE <1>15 DEF vars, requests, tables, history
  <2>1. TypeOK'
    BY HandlerType, StartType DEF IInv, TypeOK
  <2>2. SessionInv'
    BY CopyingKeepsSessions DEF Copies, Derived
  <2>3. ControlInv'
    BY DEF IInv, ControlInv, StartsRecovered, HandlerInv, FileInv, Serving
  <2> QED
    BY <2>1, <2>2, <2>3
<1> QED
  BY <1>1, <1>2, <1>3, <1>4, <1>5, <1>6, <1>7, <1>8, <1>9, <1>10, <1>11, <1>12, <1>13, <1>14,
     <1>15 DEF Next

\* It holds at the start.
LEMMA InvariantInit ==
    ASSUME Init
    PROVE  IInv
<1> USE ConstantsAssumption DEF Init
<1>1. TypeOK
  <2>1. memory \in Recording /\ disk \in Recording /\ detection \in Detect!Detection
    BY InitialType
  <2>2. detection.start_count < StartConfirmations /\ detection.end_count < EndConfirmations
    BY InitialType
  <2>3. handler \in Handler /\ starting \in Start
    BY HandlerType, StartType
  <2>4. sessions \in 0 .. MaxSession
    OBVIOUS
  <2> QED
    BY <2>1, <2>2, <2>3, <2>4 DEF TypeOK
<1>2. Copies = {InitialRecording}
  BY DEF Copies
<1>3. FromSessions /\ OverIsNotCut /\ ProgressIsOpen /\ MatchedInv
  BY <1>2 DEF FromSessions, OverIsNotCut, ProgressIsOpen, MatchedInv, InitialRecording,
     ACTIVE_STATES
<1>4. StartsRecovered /\ HandlerInv /\ FileInv
  BY DEF StartsRecovered, HandlerInv, FileInv, Serving, Nothing, NotStarting
<1> QED
  BY <1>1, <1>3, <1>4 DEF IInv

-----------------------------------------------------------------------------
(***************************************************************************)
(* The theorems.                                                           *)
(***************************************************************************)

\* Every reachable state satisfies the inductive invariant.
THEOREM Invariance == Spec => []IInv
  BY InvariantInit, InvariantStep, PTL DEF Spec

\* The state, the file, the detection and the tables are well-formed.
THEOREM TypeCorrect == Spec => []TypeOK
<1>1. IInv => TypeOK
  BY DEF IInv
<1> QED
  BY <1>1, Invariance, PTL

\* A recording that was cut short never becomes a match or an upload, with
\* second starts too.
THEOREM CutCorrect == Spec => []CutNeverHandedOver
<1>1. IInv => CutNeverHandedOver
  BY DEF IInv, OverIsNotCut, CutNeverHandedOver
<1> QED
  BY <1>1, Invariance, PTL

\* A recording that was handed over stays completed, in memory and on disk,
\* as long as one process at a time is at work.
THEOREM HandoverCorrect == Spec => []HandedOverStaysCompleted
<1>1. IInv => HandedOverStaysCompleted
  BY DEF IInv, MatchedInv, Copies, HandedOverStaysCompleted
<1> QED
  BY <1>1, Invariance, PTL

\* Between two requests the file holds what the memory holds.
THEOREM SavedCorrect == Spec => []SavedBetweenRequests
<1>1. IInv => SavedBetweenRequests
  BY DEF IInv, FileInv, SavedBetweenRequests
<1> QED
  BY <1>1, Invariance, PTL

=============================================================================
