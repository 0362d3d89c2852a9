-------------------------- MODULE OverlaySyncProofs -------------------------
(***************************************************************************)
(* Proofs about the overlay, for any decks and any number of changes, and  *)
(* without its fairness.                                                   *)
(***************************************************************************)
EXTENDS OverlaySync, TLAPS

\* Whatever any part holds of the overlay, but for an update on its way to the
\* Worker, the Worker has had.
CopiesWereAccepted ==
    /\ overlay \in past /\ shown \in past \cup {Blank}
    /\ {snap, fetched, copy} \subseteq past \cup {None}
    /\ ui.doing = "accepted" => ui.overlay \in past

IInv == TypeOK /\ CopiesWereAccepted

-----------------------------------------------------------------------------

\* What the UI thread may be doing, told apart by what it is called.
LEMMA UiCases ==
    ASSUME TypeOK
    PROVE  /\ ui.doing \in {"nothing", "sending", "accepted"}
           /\ ui.doing \in {"sending", "accepted"} => ui.overlay \in Overlay
BY DEF TypeOK, Idle, Sending, Accepted

\* The UI thread is well-formed whatever update it sends or has sent.
LEMMA UiTypes ==
    ASSUME NEW o \in Overlay
    PROVE  /\ Sending(o).doing = "sending" /\ Accepted(o).doing = "accepted" /\ Idle.doing = "nothing"
           /\ Accepted(o).overlay = o
           /\ {Idle, Sending(o), Accepted(o)}
                \subseteq {Idle} \cup {Sending(x) : x \in Overlay} \cup {Accepted(x) : x \in Overlay}
BY DEF Idle, Sending, Accepted

\* What the overlay shows of a recording is one of its texts.
LEMMA ShowsTypes ==
    ASSUME NEW state
    PROVE  /\ Shows(state) \in {"idle", "recording", "unknown"}
           /\ StartupOverlay(state) \in Overlay
BY DEF Shows, OverlayOf, StartupOverlay, Overlay, Result

\* Every update the Dock puts together is a whole overlay.
LEMMA BaseTypes ==
    ASSUME TypeOK, NEW deck \in Deck, NEW result \in {"unknown", "win", Base.result}
    PROVE  [Base EXCEPT !.deck = deck, !.result = result] \in Overlay
<1>1. Base \in Overlay
  BY DEF TypeOK, Base, Overlay, Result
<1>2. result \in Result
  BY <1>1 DEF Overlay, Result
<1> QED
  BY <1>1, <1>2 DEF Overlay

\* A command leads to a state of the recording.
LEMMA CommandTypes ==
    ASSUME NEW action \in COMMAND_ACTIONS
    PROVE  TargetState(action) \in RECORDING_STATES
BY DEF COMMAND_ACTIONS, TargetState, RECORDING_STATES

\* So does a restart.
LEMMA RecoverTypes ==
    ASSUME NEW state \in RECORDING_STATES
    PROVE  Recover([state |-> state, command_source |-> ""]).state \in RECORDING_STATES
BY DEF Recover, RECORDING_STATES

-----------------------------------------------------------------------------

\* The invariant holds at the start.
LEMMA InvariantInit ==
    ASSUME Init
    PROVE  IInv
<1>1. StartupOverlay("idle") \in Overlay
  BY ShowsTypes
<1>2. /\ source \in {"text", "other", "missing"} /\ disturbed \in BOOLEAN
      /\ shown \in Overlay \cup {Blank}
  BY DEF Init
<1>3. TypeOK
  BY <1>1, <1>2, ConstantsAssumption DEF Init, TypeOK, RECORDING_STATES
<1>4. CopiesWereAccepted
  BY DEF Init, CopiesWereAccepted, Idle
<1> QED
  BY <1>3, <1>4 DEF IInv

\* A change is counted within its bound.
LEMMA ChangeTypes ==
    ASSUME TypeOK, Change
    PROVE  changes' \in 0 .. MaxChanges
BY ConstantsAssumption DEF TypeOK, Change

\* Every step preserves the invariant.
LEMMA InvariantNext ==
    ASSUME IInv, [Next]_vars
    PROVE  IInv'
<1> USE DEF IInv
<1>1. ASSUME NEW action \in COMMAND_ACTIONS, Command(action)
      PROVE  IInv'
  <2>1. recording' \in RECORDING_STATES
    BY <1>1, CommandTypes DEF Command
  <2>2. [overlay EXCEPT !.recording = Shows(recording')] \in Overlay
    BY ShowsTypes DEF TypeOK, Overlay
  <2>3. TypeOK'
    BY <1>1, <2>1, <2>2, ChangeTypes DEF Command, WorkerShows, TypeOK, heartbeatVars, dockVars, sourceVars
  <2>4. CopiesWereAccepted'
    BY <1>1 DEF Command, WorkerShows, CopiesWereAccepted, heartbeatVars, dockVars, sourceVars
  <2> QED
    BY <2>3, <2>4
<1>2. CASE LatePut
  BY <1>2 DEF LatePut, WorkerShows, TypeOK, CopiesWereAccepted, heartbeatVars, dockVars, sourceVars
<1>3. CASE Crash
  BY <1>3, ChangeTypes DEF Crash, TypeOK, CopiesWereAccepted, heartbeatVars, dockVars, sourceVars
<1>4. CASE HeartbeatFetch
  BY <1>4 DEF HeartbeatFetch, TypeOK, CopiesWereAccepted, workerVars, dockVars, sourceVars
<1>5. CASE HeartbeatStore
  BY <1>5 DEF HeartbeatStore, TypeOK, CopiesWereAccepted, workerVars, dockVars, sourceVars
<1>6. CASE HeartbeatEnds
  BY <1>6 DEF HeartbeatEnds, TypeOK, CopiesWereAccepted, workerVars, dockVars, sourceVars
<1>7. CASE PutBegin
  <2>1. PICK o \in Overlay : ui' = Sending(o)
    BY <1>7, BaseTypes DEF PutBegin
  <2>2. TypeOK'
    BY <1>7, <2>1, UiTypes, ChangeTypes DEF PutBegin, sourceVars, TypeOK, workerVars, heartbeatVars
  <2>3. CopiesWereAccepted'
    BY <1>7, <2>1, UiTypes DEF PutBegin, sourceVars, CopiesWereAccepted, workerVars, heartbeatVars
  <2> QED
    BY <2>2, <2>3
<1>8. CASE PutAccepted
  <2>1. ui.overlay \in Overlay /\ ui' = Accepted(ui.overlay)
    BY <1>8, UiCases DEF PutAccepted
  <2>2. TypeOK'
    BY <1>8, <2>1, UiTypes DEF PutAccepted, WorkerShows, sourceVars, TypeOK, heartbeatVars
  <2>3. CopiesWereAccepted'
    BY <1>8, <2>1, UiTypes DEF PutAccepted, WorkerShows, sourceVars, CopiesWereAccepted, heartbeatVars
  <2> QED
    BY <2>2, <2>3
<1>9. CASE PutShown
  <2>1. ui.overlay \in Overlay /\ ui' = Idle
    BY <1>9, UiCases DEF PutShown
  <2>2. TypeOK'
    BY <1>9, <2>1, UiTypes DEF PutShown, ApplySources, UpdateSources, TypeOK, workerVars
  <2>3. CopiesWereAccepted'
    BY <1>9, <2>1, UiTypes DEF PutShown, ApplySources, UpdateSources, CopiesWereAccepted, workerVars
  <2> QED
    BY <2>2, <2>3
<1>10. CASE PutFails
  <2>1. ui.overlay \in Overlay /\ ui' = Idle
    BY <1>10, UiCases DEF PutFails
  <2>2. TypeOK'
    BY <1>10, <2>1, UiTypes DEF PutFails, sourceVars, TypeOK, heartbeatVars
  <2>3. CopiesWereAccepted'
    BY <1>10, <2>1, UiTypes DEF PutFails, sourceVars, CopiesWereAccepted, heartbeatVars
  <2> QED
    BY <2>2, <2>3
<1>11. CASE RefreshBegin
  BY <1>11 DEF RefreshBegin, sourceVars, TypeOK, CopiesWereAccepted, workerVars, heartbeatVars
<1>12. CASE RefreshEnd
  BY <1>12 DEF RefreshEnd, sourceVars, Refreshed, ApplySources, UpdateSources, TypeOK, CopiesWereAccepted, workerVars, heartbeatVars
<1>13. CASE Refresh
  BY <1>13 DEF Refresh, sourceVars, Refreshed, ApplySources, UpdateSources, TypeOK, CopiesWereAccepted, workerVars, heartbeatVars
<1>14. CASE RestartWorker
  <2>1. recording' \in RECORDING_STATES
    BY <1>14, RecoverTypes DEF RestartWorker, workerVars, TypeOK
  <2>2. StartupOverlay(recording') \in Overlay
    BY ShowsTypes
  <2>3. TypeOK'
    BY <1>14, <2>1, <2>2, ChangeTypes DEF RestartWorker, EnsureSources, WorkerShows, TypeOK, workerVars
  <2>4. CopiesWereAccepted'
    BY <1>14 DEF RestartWorker, EnsureSources, WorkerShows, CopiesWereAccepted, workerVars
  <2> QED
    BY <2>3, <2>4
<1>15. CASE UserChangesSources
  BY <1>15, ChangeTypes DEF UserChangesSources, TypeOK, CopiesWereAccepted, workerVars, heartbeatVars
<1>16. CASE UNCHANGED vars
  BY <1>16 DEF vars, workerVars, heartbeatVars, dockVars, sourceVars, TypeOK, CopiesWereAccepted
<1> QED
  BY <1>1, <1>2, <1>3, <1>4, <1>5, <1>6, <1>7, <1>8, <1>9, <1>10, <1>11, <1>12,
     <1>13, <1>14, <1>15, <1>16 DEF Next

\* The invariant holds throughout.
THEOREM Invariant == Spec => []IInv
<1>1. Init => IInv
  BY InvariantInit
<1>2. IInv /\ [Next]_vars => IInv'
  BY InvariantNext
<1> QED
  BY <1>1, <1>2, PTL DEF Spec

\* Every copy of the overlay stays well-formed, for any decks and changes.
THEOREM TypeCorrect == Spec => []TypeOK
<1>1. IInv => TypeOK
  BY DEF IInv
<1> QED
  BY <1>1, Invariant, PTL

\* OBS shows the default texts or what the Worker had accepted, whatever
\* crossing fetches, lost and late updates, crashes, restarts and changes of
\* the sources there are.
THEOREM ShownCorrect == Spec => []ShownWasAccepted
<1>1. IInv => ShownWasAccepted
  BY DEF IInv, CopiesWereAccepted, ShownWasAccepted
<1> QED
  BY <1>1, Invariant, PTL

=============================================================================
