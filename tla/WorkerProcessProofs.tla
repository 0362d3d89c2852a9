------------------------ MODULE WorkerProcessProofs -------------------------
(***************************************************************************)
(* Proofs about the process manager of the Plugin, for any number of       *)
(* processes, ports and data directories, and without its fairness.        *)
(***************************************************************************)
EXTENDS WorkerProcess, TLAPS

\* What the thread is doing decides what the manager may hold.
ThreadInv ==
    /\ ui = "gone" => thread = "none" /\ handle = NoProcess
    /\ thread \in {"checking", "probing", "spawning"} => config \in Config /\ handle = NoProcess
    /\ thread = "waiting" => ownership = "spawned_by_plugin"
    /\ thread = "none" => handle = NoProcess

\* The process that is held, while it lives, is one that was spawned.
HandleIsChild == handle \in Alive => handle \in children

IInv == TypeOK /\ NoOrphan /\ ThreadInv /\ HandleIsChild

-----------------------------------------------------------------------------

\* Terminating leaves the process table well-formed, and the process that is
\* held is the only one it ends.
LEMMA TerminatedEffect ==
    ASSUME TypeOK, process' = Terminated
    PROVE  /\ process' \in [Process -> {Gone} \cup [phase : {"starting", "serving"}, config : Config]]
           /\ Alive' = Alive \ {handle}
<1>1. CASE handle \in Alive
  <2>1. process' = [process EXCEPT ![handle] = Gone] /\ handle \in Process
    BY <1>1 DEF Terminated, Alive
  <2>2. process' \in [Process -> {Gone} \cup [phase : {"starting", "serving"}, config : Config]]
    BY <2>1 DEF TypeOK
  <2>3. \A p \in Process : process'[p] # Gone <=> process[p] # Gone /\ p # handle
    BY <2>1 DEF TypeOK
  <2> QED
    BY <2>2, <2>3 DEF Alive
<1>2. CASE handle \notin Alive
  BY <1>2 DEF Terminated, TypeOK, Alive
<1> QED
  BY <1>1, <1>2

\* A process that starts is alive, and no other comes to life.
LEMMA StartEffect ==
    ASSUME TypeOK, NEW p \in Process, NEW c \in Config,
           process' = [process EXCEPT ![p] = Starting(c)]
    PROVE  /\ process' \in [Process -> {Gone} \cup [phase : {"starting", "serving"}, config : Config]]
           /\ Alive' = Alive \cup {p}
<1>1. Starting(c) \in [phase : {"starting", "serving"}, config : Config] /\ Starting(c) # Gone
  BY DEF Starting, Gone
<1>2. process' \in [Process -> {Gone} \cup [phase : {"starting", "serving"}, config : Config]]
  BY <1>1 DEF TypeOK
<1>3. \A q \in Process : process'[q] # Gone <=> process[q] # Gone \/ q = p
  BY <1>1 DEF TypeOK
<1> QED
  BY <1>2, <1>3 DEF Alive

\* The invariant holds at the start.
LEMMA InvariantInit ==
    ASSUME Init
    PROVE  IInv
  BY ConstantsAssumption
     DEF Init, IInv, TypeOK, NoOrphan, ThreadInv, HandleIsChild, Alive, Gone, Ownership,
         DiagnosticState

\* Stopping ends the process that is held, and no other.
LEMMA StopEffect ==
    ASSUME IInv, StopEnds
    PROVE  /\ process' \in [Process -> {Gone} \cup [phase : {"starting", "serving"}, config : Config]]
           /\ Alive \ Alive' \subseteq children
           /\ children' = {}
<1>1. process' = Terminated
  <2>1. ownership # "spawned_by_plugin" => handle \notin Alive
    BY ConstantsAssumption DEF IInv, TypeOK, Alive
  <2> QED
    BY <2>1 DEF StopEnds, StopGoesOn, Terminated
<1>2. Alive' = Alive \ {handle}
  BY <1>1, TerminatedEffect DEF IInv
<1>3. children' = children \cap Alive'
  BY DEF StopEnds, StopGoesOn
<1> QED
  BY <1>1, <1>2, <1>3, TerminatedEffect DEF IInv, NoOrphan, HandleIsChild

\* The same for a wait that has failed.
LEMMA NotReadyEffect ==
    ASSUME IInv, NotReady
    PROVE  /\ process' \in [Process -> {Gone} \cup [phase : {"starting", "serving"}, config : Config]]
           /\ Alive \ Alive' \subseteq children
           /\ children' = {}
<1>1. process' = Terminated /\ children' = children \cap Alive'
  BY DEF NotReady
<1>2. Alive' = Alive \ {handle}
  BY <1>1, TerminatedEffect DEF IInv
<1> QED
  BY <1>1, <1>2, TerminatedEffect DEF IInv, NoOrphan, HandleIsChild

\* Every step keeps the invariant.
LEMMA InvariantStep ==
    ASSUME IInv, [Next]_vars
    PROVE  IInv'
<1> USE ConstantsAssumption
<1>1. ASSUME UNCHANGED <<process, children, uiVars, ownership, handle>>,
             thread' \in {"probing", "spawning", "waiting", "monitoring", "ended"},
             thread' = thread \/ thread' \in {"monitoring", "ended"}
                \/ (thread = "checking" /\ thread' = "probing")
                \/ (thread = "probing" /\ thread' = "spawning"),
             thread # "none", config' = config, state' \in DiagnosticState
      PROVE  IInv'
  BY <1>1 DEF IInv, TypeOK, NoOrphan, ThreadInv, HandleIsChild, Alive, uiVars
<1>2. CASE StartChecked \/ StartBlocked \/ PreflightRejects \/ PreflightUnheard \/ SpawnFails
           \/ HeartbeatCrashed \/ HeartbeatProbe \/ HeartbeatStops
  BY <1>1, <1>2 DEF StartChecked, StartBlocked, PreflightRejects, PreflightUnheard, SpawnFails,
     HeartbeatCrashed, HeartbeatProbe, HeartbeatStops, DiagnosticState, IInv, TypeOK
<1>3. CASE WaitProbe
  <2>1. \A answer \in Answer : answer \in {"unreachable", "reachable", "runtime_root_mismatch"}
    BY DEF Answer
  <2>2. state' \in DiagnosticState /\ thread' \in {"monitoring", "waiting"}
    BY <1>3, <2>1 DEF WaitProbe, DiagnosticStateForProbe, DiagnosticState
  <2> QED
    BY <1>1, <1>3, <2>2 DEF WaitProbe
<1>4. CASE PreflightReuses
  BY <1>4 DEF PreflightReuses, IInv, TypeOK, NoOrphan, ThreadInv, HandleIsChild, Alive, uiVars,
     Ownership, DiagnosticState
<1>5. CASE Spawn
  <2> USE <1>5 DEF Spawn
  <2>1. PICK p \in Process \ Alive : /\ process' = [process EXCEPT ![p] = Starting(config)]
                                     /\ handle' = p
                                     /\ children' = children \cup {p}
    OBVIOUS
  <2>2. config \in Config /\ handle = NoProcess
    BY DEF IInv, ThreadInv
  <2>3. /\ process' \in [Process -> {Gone} \cup [phase : {"starting", "serving"}, config : Config]]
        /\ Alive' = Alive \cup {p}
    BY <2>1, <2>2, StartEffect DEF IInv
  <2>4. children = {}
    BY <2>2 DEF IInv, NoOrphan, TypeOK, Alive
  <2>5. TypeOK'
    BY <2>1, <2>2, <2>3, <2>4 DEF IInv, TypeOK, uiVars, Ownership, DiagnosticState
  <2>6. NoOrphan' /\ ThreadInv' /\ HandleIsChild'
    BY <2>1, <2>4 DEF IInv, NoOrphan, ThreadInv, HandleIsChild, uiVars
  <2> QED
    BY <2>5, <2>6 DEF IInv
<1>6. CASE NotReady
  <2>1. /\ process' \in [Process -> {Gone} \cup [phase : {"starting", "serving"}, config : Config]]
        /\ children' = {}
    BY <1>6, NotReadyEffect
  <2> QED
    BY <1>6, <2>1 DEF NotReady, IInv, TypeOK, NoOrphan, ThreadInv, HandleIsChild, Alive, uiVars,
       Ownership, DiagnosticState
<1>7. ASSUME NEW c \in Config, ObsStarts(c)
      PROVE  IInv'
  BY <1>7 DEF ObsStarts, IInv, TypeOK, NoOrphan, ThreadInv, HandleIsChild, Alive
<1>8. ASSUME NEW next \in Config \cup {NoConfig}, StopBegins(next)
      PROVE  IInv'
  BY <1>8 DEF StopBegins, managerVars, IInv, TypeOK, NoOrphan, ThreadInv, HandleIsChild, Alive
<1>9. CASE StopEnds
  <2>1. /\ process' \in [Process -> {Gone} \cup [phase : {"starting", "serving"}, config : Config]]
        /\ children' = {}
    BY <1>9, StopEffect
  <2>2. /\ ownership' = "none" /\ handle' = NoProcess /\ state' = "not_started"
        /\ config' \in Config \cup {NoConfig} /\ wanted' = NoConfig
        /\ \/ ui' = "gone" /\ thread' = "none"
           \/ ui' = "idle" /\ thread' = "checking" /\ config' \in Config
    BY <1>9 DEF StopEnds, StopGoesOn, IInv, TypeOK
  <2> QED
    BY <2>1, <2>2 DEF IInv, TypeOK, NoOrphan, ThreadInv, HandleIsChild, Alive, Ownership,
       DiagnosticState
<1>10. CASE ObsDies
  BY <1>10 DEF ObsDies, IInv, TypeOK, NoOrphan, ThreadInv, HandleIsChild, Alive, Ownership,
     DiagnosticState
<1>11. ASSUME NEW p \in Process, NEW c \in Config, OtherStarts(p, c)
       PROVE  IInv'
  <2>1. /\ process' \in [Process -> {Gone} \cup [phase : {"starting", "serving"}, config : Config]]
        /\ Alive' = Alive \cup {p}
    BY <1>11, StartEffect DEF OtherStarts, IInv
  <2>2. TypeOK'
    BY <1>11, <2>1 DEF OtherStarts, IInv, TypeOK, uiVars, managerVars
  <2>3. NoOrphan' /\ ThreadInv' /\ HandleIsChild'
    BY <1>11, <2>1 DEF OtherStarts, IInv, NoOrphan, ThreadInv, HandleIsChild, uiVars, managerVars
  <2> QED
    BY <2>2, <2>3 DEF IInv
<1>12. ASSUME NEW p \in Process, ProcessServes(p)
       PROVE  IInv'
  <2> USE <1>12 DEF ProcessServes
  <2>1. process[p] \in [phase : {"starting", "serving"}, config : Config]
    BY DEF IInv, TypeOK, Gone
  <2>2. /\ Serving(process[p].config) \in [phase : {"starting", "serving"}, config : Config]
        /\ Serving(process[p].config) # Gone /\ process[p] # Gone
    BY <2>1 DEF Serving, Gone
  <2>3. process' \in [Process -> {Gone} \cup [phase : {"starting", "serving"}, config : Config]]
    BY <2>2 DEF IInv, TypeOK
  <2>4. \A q \in Process : process'[q] # Gone <=> process[q] # Gone
    BY <2>2 DEF IInv, TypeOK
  <2>5. Alive' = Alive
    BY <2>4 DEF Alive
  <2>6. TypeOK'
    BY <2>3, <2>5 DEF IInv, TypeOK, uiVars, managerVars
  <2>7. NoOrphan' /\ ThreadInv' /\ HandleIsChild'
    BY <2>5 DEF IInv, NoOrphan, ThreadInv, HandleIsChild, uiVars, managerVars
  <2> QED
    BY <2>6, <2>7 DEF IInv
<1>13. ASSUME NEW p \in Process, ProcessExits(p)
       PROVE  IInv'
  <2> USE <1>13 DEF ProcessExits
  <2>1. process' \in [Process -> {Gone} \cup [phase : {"starting", "serving"}, config : Config]]
    BY DEF IInv, TypeOK
  <2>2. \A q \in Process : process'[q] # Gone <=> process[q] # Gone /\ q # p
    BY DEF IInv, TypeOK
  <2>3. Alive' = Alive \ {p}
    BY <2>2 DEF Alive
  <2>4. TypeOK'
    BY <2>1, <2>3 DEF IInv, TypeOK, uiVars, managerVars
  <2>5. NoOrphan' /\ ThreadInv' /\ HandleIsChild'
    BY <2>3 DEF IInv, NoOrphan, ThreadInv, HandleIsChild, uiVars, managerVars
  <2> QED
    BY <2>4, <2>5 DEF IInv
<1>14. CASE UNCHANGED vars
  BY <1>14 DEF vars, uiVars, managerVars, IInv, TypeOK, NoOrphan, ThreadInv, HandleIsChild, Alive
<1> QED
  BY <1>2, <1>3, <1>4, <1>5, <1>6, <1>7, <1>8, <1>9, <1>10, <1>11, <1>12, <1>13, <1>14
     DEF Next, Thread

-----------------------------------------------------------------------------
(***************************************************************************)
(* The theorems.                                                           *)
(***************************************************************************)

\* Every reachable state satisfies the inductive invariant.
THEOREM Invariance == Spec => []IInv
  BY InvariantInit, InvariantStep, PTL DEF Spec

\* The manager's fields fit one another.
THEOREM TypeCorrect == Spec => []TypeOK
<1>1. IInv => TypeOK
  BY DEF IInv
<1> QED
  BY <1>1, Invariance, PTL

\* No process that the Plugin has spawned outlives its use.
THEOREM OrphanCorrect == Spec => []NoOrphan
<1>1. IInv => NoOrphan
  BY DEF IInv
<1> QED
  BY <1>1, Invariance, PTL

\* The Plugin terminates no process that it has not spawned.
THEOREM ForeignCorrect == Spec => ForeignSurvives
<1>1. ASSUME IInv, [Next]_vars
      PROVE  [StopEnds \/ NotReady => Alive \ Alive' \subseteq children]_vars
  BY <1>1, StopEffect, NotReadyEffect
<1> QED
  BY <1>1, Invariance, PTL DEF Spec, ForeignSurvives

=============================================================================
