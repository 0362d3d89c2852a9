------------------------- MODULE DetectionLifecycle -------------------------
(***************************************************************************)
(* The duel lifecycle that DetectionRuntime.evaluate derives from the      *)
(* frames it is sent, as pure operators (app/worker/odr_worker/            *)
(* detection.py).  A frame is the set of template kinds that match it.     *)
(***************************************************************************)
EXTENDS Naturals

CONSTANTS
    StartConfirmations,    \* matches in a row that start a duel, at least 1
    EndConfirmations       \* and that end it

Frame == SUBSET {"duel_start", "duel_end"}

Lifecycle == {"no_duel", "potential_duel", "active_duel", "ended_duel"}

Detection == [lifecycle_state : Lifecycle, start_count : Nat, end_count : Nat]

NoDuel == [lifecycle_state |-> "no_duel", start_count |-> 0, end_count |-> 0]

\* A duel that has ended is forgotten with the next frame.
InDuel(detection) == detection.lifecycle_state = "active_duel"

\* Mutation: one confirmation too many.
DuelStartedLate(detection, frame) ==
    /\ ~InDuel(detection)
    /\ "duel_start" \in frame
    /\ detection.start_count + 1 > StartConfirmations

DuelStarted(detection, frame) ==
    /\ ~InDuel(detection)
    /\ "duel_start" \in frame
    /\ detection.start_count + 1 >= StartConfirmations

DuelEnded(detection, frame) ==
    /\ InDuel(detection)
    /\ "duel_end" \in frame
    /\ detection.end_count + 1 >= EndConfirmations

\* The lifecycle after a frame; a frame without a match starts the count of
\* confirmations again.
Evaluate(detection, frame) ==
    IF DuelStarted(detection, frame)
    THEN [NoDuel EXCEPT !.lifecycle_state = "active_duel"]
    ELSE IF DuelEnded(detection, frame)
    THEN [NoDuel EXCEPT !.lifecycle_state = "ended_duel"]
    ELSE IF InDuel(detection)
    THEN [detection EXCEPT !.end_count = IF "duel_end" \in frame THEN @ + 1 ELSE 0]
    ELSE IF "duel_start" \in frame
    THEN [detection EXCEPT !.lifecycle_state = "potential_duel", !.start_count = @ + 1]
    ELSE [detection EXCEPT !.lifecycle_state = "no_duel", !.start_count = 0]

=============================================================================
