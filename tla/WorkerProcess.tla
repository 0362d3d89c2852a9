---------------------------- MODULE WorkerProcess ---------------------------
(***************************************************************************)
(* WorkerProcessManager: how the Plugin comes by a Worker, watches it and  *)
(* gets rid of it (app/plugin/src/worker-launcher.cpp).                    *)
(*                                                                         *)
(* A thread of its own probes the configured port, reuses the Worker that  *)
(* answers there or spawns one, waits for it to answer, and then probes it *)
(* for ever.  The UI thread starts that thread, and stops it when settings *)
(* are saved or OBS exits; it waits for the thread to end, and only then   *)
(* terminates the process.  Other Workers come and go: started by hand, by *)
(* another OBS, or left behind by an OBS that crashed.                     *)
(*                                                                         *)
(* A process that starts works on its data directory before it serves, and *)
(* one that finds its port taken ends.  A Worker of another version counts *)
(* as one of another root: the Plugin treats both alike.                   *)
(***************************************************************************)
CONSTANTS
    Process, NoProcess,
    Port, Root,           \* endpoints and data directories
    NoConfig,
    Busy                  \* whether a Worker that serves may not answer in time

ASSUME ConstantsAssumption ==
    /\ Busy \in BOOLEAN
    /\ NoProcess \notin Process
    /\ NoConfig \notin [port : Port, root : Root]

VARIABLES
    process,     \* what each process is doing
    children,    \* history: the processes this OBS has spawned
    ui,          \* the UI thread: "idle", in "stopping", or "gone" with OBS
    wanted,      \* what it starts after it has stopped
    thread,      \* worker_thread_
    config,      \* the configuration that thread works for
    ownership,   \* ownership_
    handle,      \* process_info_.hProcess
    state        \* status_.state

managerVars == <<thread, config, ownership, handle, state>>
uiVars == <<ui, wanted>>
vars == <<process, children, uiVars, managerVars>>

Config == [port : Port, root : Root]

Ownership == {"none", "spawned_by_plugin", "reused_existing"}

\* without api_incompatible, see above
DiagnosticState == {"not_started", "starting", "running", "unhealthy", "config_error",
                    "runtime_dir_error", "crashed"}

Gone == [phase |-> "gone"]
Starting(c) == [phase |-> "starting", config |-> c]
Serving(c) == [phase |-> "serving", config |-> c]

Alive == {p \in Process : process[p] # Gone}
ServingAt(port) == {p \in Alive : process[p].phase = "serving" /\ process[p].config.port = port}

Init ==
    /\ process = [p \in Process |-> Gone]
    /\ children = {}
    /\ ui = "gone" /\ wanted = NoConfig
    /\ thread = "none"
    /\ config = NoConfig
    /\ ownership = "none" /\ handle = NoProcess
    /\ state = "not_started"

-----------------------------------------------------------------------------
(***************************************************************************)
(* The thread of the manager.                                              *)
(***************************************************************************)

\* GET /health: a Worker that is busy with an upload does not answer in time.
Answer ==
    (IF Busy \/ ServingAt(config.port) = {} THEN {"unreachable"} ELSE {}) \cup
    {IF process[p].config.root = config.root THEN "reachable" ELSE "runtime_root_mismatch" :
        p \in ServingAt(config.port)}

DiagnosticStateForProbe(answer) ==
    CASE answer = "reachable"             -> "running"
      [] answer = "runtime_root_mismatch" -> "runtime_dir_error"
      [] answer = "unreachable"           -> "starting"

\* The data directory is usable.
StartChecked ==
    /\ thread = "checking"
    /\ thread' = "probing"
    /\ state' = "starting"
    /\ UNCHANGED <<process, children, uiVars, config, ownership, handle>>

\* It is missing or cannot be written to.
StartBlocked ==
    /\ thread = "checking"
    /\ thread' = "ended"
    /\ state' \in {"config_error", "runtime_dir_error"}
    /\ UNCHANGED <<process, children, uiVars, config, ownership, handle>>

PreflightReuses ==
    /\ thread = "probing"
    /\ "reachable" \in Answer
    /\ thread' = "monitoring"
    /\ ownership' = "reused_existing"
    /\ state' = "running"
    /\ UNCHANGED <<process, children, uiVars, config, handle>>

PreflightRejects ==
    /\ thread = "probing"
    /\ "runtime_root_mismatch" \in Answer
    /\ thread' = "ended"
    /\ state' = "runtime_dir_error"
    /\ UNCHANGED <<process, children, uiVars, config, ownership, handle>>

PreflightUnheard ==
    /\ thread = "probing"
    /\ "unreachable" \in Answer
    /\ thread' = "spawning"
    /\ UNCHANGED <<process, children, uiVars, config, ownership, handle, state>>

\* A stop that has been requested meanwhile does not prevent the launch.
Spawn ==
    /\ thread = "spawning"
    /\ \E p \in Process \ Alive :
          /\ process' = [process EXCEPT ![p] = Starting(config)]
          /\ handle' = p
          /\ children' = children \cup {p}
    /\ thread' = "waiting"
    /\ ownership' = "spawned_by_plugin"
    /\ state' = "starting"
    /\ UNCHANGED <<uiVars, config>>

SpawnFails ==
    /\ thread = "spawning"
    /\ thread' = "ended"
    /\ state' = "config_error"
    /\ UNCHANGED <<process, children, uiVars, config, ownership, handle>>

\* Whoever answers on the port is taken for the process that was spawned.  A
\* probe in progress when a stop is requested is completed, here and below.
WaitProbe ==
    /\ thread = "waiting"
    /\ handle \in Alive
    /\ \E answer \in Answer :
          /\ thread' = IF answer = "reachable" THEN "monitoring" ELSE "waiting"
          /\ state' = DiagnosticStateForProbe(answer)
    /\ UNCHANGED <<process, children, uiVars, config, ownership, handle>>

Terminated == IF handle \in Alive THEN [process EXCEPT ![handle] = Gone] ELSE process

\* Mutation: the wait ends only with the process or with a stop.
NotReadyWithoutDeadline ==
    /\ thread = "waiting"
    /\ handle \notin Alive \/ ui # "idle"
    /\ thread' = "ended"
    /\ process' = Terminated /\ children' = children \cap Alive'
    /\ ownership' = "none" /\ handle' = NoProcess
    /\ state' \in {"unhealthy"} \cup (IF handle \in Alive THEN {} ELSE {"crashed"})
    /\ UNCHANGED <<uiVars, config>>

\* Mutation: the handle of the terminated process is kept.
NotReadyKeepsHandle ==
    /\ thread = "waiting"
    /\ thread' = "ended"
    /\ process' = Terminated /\ children' = children \cap Alive'
    /\ ownership' = "none"
    /\ state' \in {"unhealthy"} \cup (IF handle \in Alive THEN {} ELSE {"crashed"})
    /\ UNCHANGED <<uiVars, config, handle>>

\* The process has exited, the time is up, or a stop is requested: at the
\* last two it may have exited without being noticed.
NotReady ==
    /\ thread = "waiting"
    /\ thread' = "ended"
    /\ process' = Terminated /\ children' = children \cap Alive'
    /\ ownership' = "none" /\ handle' = NoProcess
    /\ state' \in {"unhealthy"} \cup (IF handle \in Alive THEN {} ELSE {"crashed"})
    /\ UNCHANGED <<uiVars, config>>

ChildCrashed == ownership = "spawned_by_plugin" /\ handle \notin Alive

\* The thread ends, ownership and handle stay until the manager is stopped.
HeartbeatCrashed ==
    /\ thread = "monitoring"
    /\ ChildCrashed
    /\ thread' = "ended"
    /\ state' = "crashed"
    /\ UNCHANGED <<process, children, uiVars, config, ownership, handle>>

\* Mutation: a probe that is not answered leaves the status alone.
HeartbeatProbeHopeful ==
    /\ thread = "monitoring"
    /\ ~ChildCrashed
    /\ \E answer \in Answer : state' = IF answer = "reachable" THEN "running" ELSE state
    /\ UNCHANGED <<process, children, uiVars, thread, config, ownership, handle>>

HeartbeatProbe ==
    /\ thread = "monitoring"
    /\ ~ChildCrashed
    /\ \E answer \in Answer : state' = IF answer = "reachable" THEN "running" ELSE "unhealthy"
    /\ UNCHANGED <<process, children, uiVars, thread, config, ownership, handle>>

\* Mutation: only the end of OBS ends the heartbeat.
HeartbeatStopsAtExit ==
    /\ thread = "monitoring"
    /\ ui = "stopping" /\ wanted = NoConfig
    /\ thread' = "ended"
    /\ UNCHANGED <<process, children, uiVars, config, ownership, handle, state>>

HeartbeatStops ==
    /\ thread = "monitoring"
    /\ ui = "stopping"
    /\ thread' = "ended"
    /\ UNCHANGED <<process, children, uiVars, config, ownership, handle, state>>

-----------------------------------------------------------------------------
(***************************************************************************)
(* The UI thread.                                                          *)
(***************************************************************************)

\* OBS has loaded.
ObsStarts(c) ==
    /\ ui = "gone"
    /\ ui' = "idle"
    /\ thread' = "checking" /\ config' = c
    /\ UNCHANGED <<process, children, wanted, ownership, handle, state>>

\* Settings are saved, or OBS exits.
StopBegins(next) ==
    /\ ui = "idle"
    /\ ui' = "stopping" /\ wanted' = next
    /\ UNCHANGED <<process, children, managerVars>>

\* What follows the end of the thread: the process is terminated if it is
\* the Plugin's own, and with the new settings all begins again.
StopGoesOn ==
    /\ ui = "stopping"
    /\ process' = IF ownership = "spawned_by_plugin" THEN Terminated ELSE process
    /\ children' = children \cap Alive'
    /\ ownership' = "none" /\ handle' = NoProcess
    /\ state' = "not_started"
    /\ config' = wanted /\ wanted' = NoConfig
    /\ IF wanted = NoConfig THEN ui' = "gone" /\ thread' = "none"
                            ELSE ui' = "idle" /\ thread' = "checking"

\* Mutation: nobody waits for the end of the thread when OBS exits.
StopUnjoined ==
    \/ thread \in {"none", "ended"} /\ StopGoesOn
    \/ /\ ui = "stopping" /\ wanted = NoConfig
       /\ ui' = "gone"
       /\ process' = Terminated /\ children' = children \cap Alive'
       /\ ownership' = "none" /\ handle' = NoProcess
       /\ UNCHANGED <<wanted, thread, config, state>>

\* Mutation: the Worker in use is stopped, whoever has started it.
StopEndsReused ==
    /\ thread \in {"none", "ended"}
    /\ ui = "stopping"
    /\ process' = [p \in Process |->
                      IF p = handle \/ (ownership = "reused_existing" /\ p \in ServingAt(config.port))
                      THEN Gone ELSE process[p]]
    /\ children' = children \cap Alive'
    /\ ownership' = "none" /\ handle' = NoProcess
    /\ state' = "not_started"
    /\ config' = wanted /\ wanted' = NoConfig
    /\ IF wanted = NoConfig THEN ui' = "gone" /\ thread' = "none"
                            ELSE ui' = "idle" /\ thread' = "checking"

\* stop() joins the thread, then goes on.
StopEnds == thread \in {"none", "ended"} /\ StopGoesOn

\* OBS crashes: its Worker lives on and is now like any other.
ObsDies ==
    /\ ui # "gone"
    /\ ui' = "gone" /\ wanted' = NoConfig
    /\ children' = {}
    /\ thread' = "none" /\ config' = NoConfig
    /\ ownership' = "none" /\ handle' = NoProcess
    /\ state' = "not_started"
    /\ UNCHANGED process

-----------------------------------------------------------------------------
(***************************************************************************)
(* The processes.                                                          *)
(***************************************************************************)

\* A Worker is started by hand or by another OBS.
OtherStarts(p, c) ==
    /\ p \notin Alive /\ p # handle
    /\ process' = [process EXCEPT ![p] = Starting(c)]
    /\ UNCHANGED <<children, uiVars, managerVars>>

ProcessServes(p) ==
    /\ process[p].phase = "starting"
    /\ ServingAt(process[p].config.port) = {}
    /\ process' = [process EXCEPT ![p] = Serving(process[p].config)]
    /\ UNCHANGED <<children, uiVars, managerVars>>

\* It crashes, finds its port taken, or is stopped by somebody else.
ProcessExits(p) ==
    /\ p \in Alive
    /\ process' = [process EXCEPT ![p] = Gone]
    /\ children' = children \ {p}
    /\ UNCHANGED <<uiVars, managerVars>>

-----------------------------------------------------------------------------

Thread ==
    \/ StartChecked
    \/ StartBlocked
    \/ PreflightReuses
    \/ PreflightRejects
    \/ PreflightUnheard
    \/ Spawn
    \/ SpawnFails
    \/ WaitProbe
    \/ NotReady
    \/ HeartbeatCrashed
    \/ HeartbeatProbe
    \/ HeartbeatStops

Next ==
    \/ Thread
    \/ \E c \in Config : ObsStarts(c)
    \/ \E next \in Config \cup {NoConfig} : StopBegins(next)
    \/ StopEnds
    \/ ObsDies
    \/ \E p \in Process, c \in Config : OtherStarts(p, c)
    \/ \E p \in Process : ProcessServes(p)
    \/ \E p \in Process : ProcessExits(p)

\* The thread goes on, the wait has a deadline, and both loops look at
\* stop_requested_ again and again.  Nothing is assumed of the processes.
Fairness ==
    /\ WF_vars(Thread)
    /\ WF_vars(NotReady)
    /\ WF_vars(HeartbeatStops)
    /\ WF_vars(StopEnds)

Spec == Init /\ [][Next]_vars /\ Fairness

-----------------------------------------------------------------------------
(***************************************************************************)
(* Properties.                                                             *)
(***************************************************************************)

\* The manager's fields fit one another: it has a handle exactly when it
\* owns what it has spawned.
TypeOK ==
    /\ process \in [Process -> {Gone} \cup [phase : {"starting", "serving"}, config : Config]]
    /\ children \subseteq Alive
    /\ ui \in {"idle", "stopping", "gone"}
    /\ wanted \in Config \cup {NoConfig}
    /\ thread \in {"none", "checking", "probing", "spawning", "waiting", "monitoring", "ended"}
    /\ config \in Config \cup {NoConfig}
    /\ ownership \in Ownership
    /\ handle \in Process \cup {NoProcess}
    /\ handle # NoProcess <=> ownership = "spawned_by_plugin"
    /\ state \in DiagnosticState

\* A process that the Plugin has spawned does not outlive its use: the
\* manager holds it as long as it lives, and when OBS has exited in order
\* none is left, whatever the thread was doing when the stop came.
NoOrphan ==
    /\ \A p \in children : handle = p
    /\ ui = "gone" => children = {}

\* The Plugin terminates no process that it has not spawned.
ForeignSurvives == [][StopEnds \/ NotReady => Alive \ Alive' \subseteq children]_vars

\* Stopping the manager comes to an end, so saving the settings or exiting
\* does not block the UI thread for ever.
StopReturns == ui = "stopping" ~> ui # "stopping"

\* The Dock does not show a start for ever: the start succeeds, fails or is
\* given up, even if the process hangs before it serves.
StartIsReported == state = "starting" ~> state # "starting"

\* The Dock does not go on to show a Worker that is gone, reused or spawned.
LossIsNoticed ==
    state = "running" /\ ServingAt(config.port) = {}
        ~> state # "running" \/ ServingAt(config.port) # {}

=============================================================================
