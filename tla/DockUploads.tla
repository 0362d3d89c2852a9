----------------------------- MODULE DockUploads ----------------------------
(***************************************************************************)
(* The upload page of the Dock, the Worker it commands and the thread that *)
(* waits for an upload.                                                    *)
(*                                                                         *)
(* The page shows what the last refresh made of a snapshot, the snapshot   *)
(* what the heartbeat fetched some time before.  Between a button and its  *)
(* command stands a dialog; it keeps the operator from the other controls, *)
(* but the timer, the heartbeat and the end of an upload go on behind it.  *)
(* The Worker answers nothing while it uploads: a request that comes then  *)
(* is given up by the Dock and carried out later.                          *)
(*                                                                         *)
(* An item is its state, and its id the position: ids start again after a  *)
(* reset.                                                                  *)
(***************************************************************************)
EXTENDS Naturals, Sequences, FiniteSets

CONSTANTS
    MaxItem,       \* bound on the items of the queue
    MaxChanges     \* bound on uploads, crashes and failed calls

ASSUME UploadsAssumption == MaxItem \in Nat \ {0} /\ MaxChanges \in Nat

Api == INSTANCE WorkerApi

VARIABLES
    up,          \* the Worker lives
    rows,        \* its upload queue
    recorded,    \* number of videos recorded so far
    job,         \* id of the item it uploads, 0 if none
    late,        \* a request it has yet to take up, its sender gone
    snap,        \* the status snapshot
    fetched,     \* what the heartbeat has fetched and not stored yet
    selected,    \* selected_upload_queue_item_id_
    offered,     \* the enabled buttons
    inProgress,  \* upload_request_in_progress_
    threads,     \* the detached threads that wait for an upload
    question,    \* the dialog that is open
    changes      \* uploads asked for, crashes and failed calls so far

workerVars == <<up, rows, recorded, job, late>>
heartbeatVars == <<snap, fetched>>
pageVars == <<selected, offered, inProgress, threads, question>>
vars == <<workerVars, heartbeatVars, pageVars, changes>>

State == {"ready_upload", "upload_failed", "quota_waiting", "need_manual_review",
          "uploading", "uploaded", "discarded"}
Terminal == {"uploaded", "discarded"}
CanUpload == {"ready_upload", "upload_failed"}
Button == {"retry", "discard", "mark_uploaded", "upload", "reset"}

None == [none |-> TRUE]

\* An item as the lists of the Worker give it.
NoTarget == [id |-> 0, state |-> "none"]
TargetOf(items, id) == IF id \in DOMAIN items THEN [id |-> id, state |-> items[id]] ELSE NoTarget

\* The order of the lists: by state, then by id.
Rank == [state \in State |->
    CASE state = "ready_upload" -> 0 [] state = "upload_failed" -> 1
      [] state = "need_manual_review" -> 2 [] state = "quota_waiting" -> 3
      [] state = "uploading" -> 4
      [] state = "uploaded" -> 5 [] state = "discarded" -> 6]

Front(items) ==
    IF items = <<>> THEN 0
    ELSE CHOOSE i \in DOMAIN items : \A j \in DOMAIN items :
            \/ Rank[items[i]] < Rank[items[j]]
            \/ Rank[items[i]] = Rank[items[j]] /\ i <= j

NextTarget(items) ==
    LET t == TargetOf(items, Front(items)) IN IF t.state \in Terminal THEN NoTarget ELSE t

Init ==
    /\ up = TRUE
    /\ rows = <<>> /\ recorded = 0 /\ job = 0 /\ late = None
    /\ snap = [running |-> TRUE, items |-> <<>>, next |-> NoTarget]
    /\ fetched = None
    /\ selected = 0 /\ offered = {"reset"} /\ inProgress = FALSE /\ threads = {}
    /\ question = None
    /\ changes = 0

Change == changes < MaxChanges /\ changes' = changes + 1

\* The statuses of the answer to a request the Worker can do: none while it
\* is down or uploads, and now and then an error.
Answers ==
    IF ~(up /\ job = 0) THEN {Api!NoAnswer}
    ELSE IF changes < MaxChanges THEN {200, 500}
    ELSE {200}

Answered(status) ==
    changes' = changes + (IF status = 200 \/ ~(up /\ job = 0) THEN 0 ELSE 1)

-----------------------------------------------------------------------------
(***************************************************************************)
(* The Worker.                                                             *)
(***************************************************************************)

Record ==
    /\ up /\ job = 0
    /\ recorded < MaxItem
    /\ recorded' = recorded + 1
    /\ rows' = Append(rows, "ready_upload")
    /\ UNCHANGED <<up, job, late, heartbeatVars, pageVars, changes>>

CommandStates == [retry |-> {"upload_failed", "quota_waiting", "need_manual_review"},
                  discard |-> State \ Terminal,
                  mark_uploaded |-> {"uploading", "need_manual_review"}]

CommandTarget == [retry |-> "ready_upload", discard |-> "discarded", mark_uploaded |-> "uploaded"]

CommandStatus(command) ==
    IF command.id \notin DOMAIN rows THEN 404
    ELSE IF rows[command.id] \notin CommandStates[command.button] THEN 409
    ELSE 200

\* POST /queue/items/{id}/command and POST /queue/reset
CarryOut(command) ==
    rows' = IF command.button = "reset" THEN <<>>
            ELSE IF CommandStatus(command) = 200
            THEN [rows EXCEPT ![command.id] = CommandTarget[command.button]]
            ELSE rows

\* Mutation: the request is taken up in the middle of an upload.
TakeUpAtOnce ==
    /\ up
    /\ late # None
    /\ late' = None
    /\ CarryOut(late)
    /\ UNCHANGED <<up, recorded, job, heartbeatVars, pageVars, changes>>

\* A request is taken up whose sender no longer waits.
TakeUp ==
    /\ up /\ job = 0
    /\ late # None
    /\ late' = None
    /\ CarryOut(late)
    /\ UNCHANGED <<up, recorded, job, heartbeatVars, pageVars, changes>>

\* A thread waits for its upload, has the verdict, or has queued its callback.
Advance(thread, stage) == threads' = (threads \ {thread}) \cup {[thread EXCEPT !.stage = stage]}

\* The upload that the requests of threads ask for: it begins, or is refused.
TakeUpUpload ==
    /\ up /\ job = 0
    /\ \E thread \in threads :
          /\ thread.stage = "waiting"
          /\ IF thread.id \in DOMAIN rows /\ rows[thread.id] \in CanUpload
             THEN /\ rows' = [rows EXCEPT ![thread.id] = "uploading"]
                  /\ job' = thread.id
                  /\ Advance(thread, "uploading")
             ELSE /\ Advance(thread, Api!process_upload_item(thread.id,
                                       IF thread.id \in DOMAIN rows THEN 200 ELSE 404))
                  /\ UNCHANGED <<rows, job>>
    /\ UNCHANGED <<up, recorded, late, heartbeatVars, selected, offered, inProgress, question, changes>>

\* The upload ends, and the thread has its answer if it still waits for it.
UploadEnds ==
    /\ up /\ job # 0
    /\ \E state \in {"uploaded", "upload_failed", "quota_waiting", "need_manual_review"} :
          rows' = [rows EXCEPT ![job] = state]
    /\ job' = 0
    /\ threads' = {IF thread.stage = "uploading"
                   THEN [thread EXCEPT !.stage = Api!process_upload_item(thread.id, 200)]
                   ELSE thread : thread \in threads}
    /\ UNCHANGED <<up, recorded, late, heartbeatVars, selected, offered, inProgress, question, changes>>

\* The connections of the waiting threads break.
Crash ==
    /\ up
    /\ Change
    /\ up' = FALSE /\ job' = 0 /\ late' = None
    /\ threads' = {IF thread.stage \in {"waiting", "uploading"}
                   THEN [thread EXCEPT !.stage = Api!process_upload_item(thread.id, Api!NoAnswer)]
                   ELSE thread : thread \in threads}
    /\ UNCHANGED <<rows, recorded, heartbeatVars, selected, offered, inProgress, question>>

\* The Worker starts again, with what it recovers of the queue, and the
\* heartbeat anew.
Restart ==
    /\ ~up
    /\ question = None
    /\ up' = TRUE
    /\ rows' = [i \in DOMAIN rows |->
                  IF rows[i] = "uploading" THEN "need_manual_review" ELSE rows[i]]
    /\ snap' = [snap EXCEPT !.running = TRUE]
    /\ fetched' = None
    /\ UNCHANGED <<recorded, job, late, pageVars, changes>>

-----------------------------------------------------------------------------
(***************************************************************************)
(* The heartbeat: a probe, the list of the items, the next target.         *)
(***************************************************************************)

\* The probe, and the list of the items if it is answered.
HeartbeatFetch ==
    /\ fetched = None
    /\ IF up /\ job = 0
       THEN /\ \E status \in Answers :
                  /\ Answered(status)
                  /\ fetched' = [items |-> IF Api!fetch_upload_items(status) = "accepted" THEN rows ELSE <<>>]
            /\ UNCHANGED snap
       ELSE snap' = [snap EXCEPT !.running = FALSE] /\ UNCHANGED <<fetched, changes>>
    /\ UNCHANGED <<workerVars, pageVars>>

HeartbeatStore ==
    /\ fetched # None
    /\ \E status \in Answers :
          /\ Answered(status)
          /\ snap' = [running |-> TRUE, items |-> fetched.items,
                      next |-> IF Api!fetch_next_upload_target(status) = "accepted" THEN NextTarget(rows) ELSE NoTarget]
    /\ fetched' = None
    /\ UNCHANGED <<workerVars, pageVars>>

-----------------------------------------------------------------------------
(***************************************************************************)
(* The page.                                                               *)
(***************************************************************************)

\* selected_upload_target: the selected item of a snapshot, or else the next.
SelectedTarget(s, id) ==
    LET t == TargetOf(s.items, id) IN IF t # NoTarget THEN t ELSE s.next

\* Mutation: the first item is not selected in place of one that is gone.
SelectedAfterUnseen(items) == IF selected \in DOMAIN items THEN selected ELSE 0

\* refresh_upload_queue_selector
SelectedAfter(items) == IF selected \in DOMAIN items THEN selected ELSE Front(items)

\* Mutation: an upload is offered while another one is in progress.
OfferedAnyway(s, target, busy) ==
    IF ~s.running THEN {}
    ELSE {"reset"}
         \cup (IF target.state \in State \ Terminal THEN {"retry", "discard"} ELSE {})
         \cup (IF target.state = "need_manual_review" THEN {"mark_uploaded"} ELSE {})
         \cup (IF target.state \in CanUpload THEN {"upload"} ELSE {})

\* The buttons a refresh enables for the selected item.
Offered(s, target, busy) ==
    IF ~s.running THEN {}
    ELSE {"reset"}
         \cup (IF target.state \in State \ Terminal THEN {"retry", "discard"} ELSE {})
         \cup (IF target.state = "need_manual_review" THEN {"mark_uploaded"} ELSE {})
         \cup (IF target.state \in CanUpload /\ ~busy THEN {"upload"} ELSE {})

\* refresh, with the snapshot and the flag as they are at its time
Refreshes ==
    /\ selected' = SelectedAfter(snap'.items)
    /\ offered' = Offered(snap', SelectedTarget(snap', selected'), inProgress')

Refresh ==
    /\ UNCHANGED <<workerVars, heartbeatVars, inProgress, threads, question, changes>>
    /\ Refreshes

\* The selector, or "Go to Upload".
Select ==
    /\ question = None
    /\ \E i \in DOMAIN snap.items : selected' = i
    /\ offered' = Offered(snap, SelectedTarget(snap, selected'), inProgress)
    /\ UNCHANGED <<workerVars, heartbeatVars, inProgress, threads, question, changes>>

Command(button, id) == [button |-> button, id |-> id]

\* The manager asks a Worker only that the snapshot shows as running.
Forwarded(verdict) == IF snap.running THEN verdict ELSE "unavailable"

SentVerdict(command, status) ==
    IF command.button = "reset" THEN Api!reset_upload_queue(status)
    ELSE Api!send_queue_command(IF status = 200 THEN CommandStatus(command) ELSE status)

\* A command is sent while the UI thread waits: it is answered, or lost, or
\* given up and then carried out later.
Send(command, verdict) ==
    /\ IF ~snap.running
       THEN verdict = Forwarded("accepted") /\ UNCHANGED <<rows, late, changes>>
       ELSE \/ /\ \E status \in Answers :
                    /\ Answered(status)
                    /\ verdict = SentVerdict(command, status)
                    /\ IF status = 200 THEN CarryOut(command) ELSE UNCHANGED rows
               /\ UNCHANGED late
            \/ /\ up
               /\ Change
               /\ verdict = SentVerdict(command, Api!NoAnswer)
               /\ late' = command
               /\ UNCHANGED rows
    /\ UNCHANGED <<up, recorded, job>>

\* What a handler can still see of the snapshot it began with: a discard and a
\* mark look up the selected item in it once their dialog is closed.
SelectedLate == {"discard", "mark_uploaded"}
ListedIn(s) == [ids |-> DOMAIN s.items, next |-> s.next.id]
NoList == [ids |-> {}, next |-> 0]

\* The retry of an item that the snapshot does not say is under review.
RetryAtOnce ==
    /\ question = None
    /\ "retry" \in offered
    /\ LET target == SelectedTarget(snap, selected) IN
          /\ target \notin {NoTarget} /\ target.state # "need_manual_review"
          /\ \E verdict \in Api!Verdicts : Send(Command("retry", target.id), verdict)
    /\ UNCHANGED <<heartbeatVars, inProgress, threads, question>>
    /\ Refreshes

\* A button opens its dialog.  An upload first saves the privacy it is to have.
Press(button) ==
    /\ question = None
    /\ button \in offered
    /\ LET target == SelectedTarget(snap, selected) IN
          /\ button # "reset" => target # NoTarget
          /\ button = "retry" => target.state = "need_manual_review"
          /\ button = "upload" =>
                /\ target.state \in CanUpload
                /\ up /\ job = 0
                /\ Forwarded(Api!update_upload_settings(200)) = "accepted"
          /\ question' = [button |-> button, id |-> IF button = "reset" THEN 0 ELSE target.id,
                          from |-> IF button \in SelectedLate THEN ListedIn(snap) ELSE NoList]
    /\ UNCHANGED <<workerVars, heartbeatVars, selected, offered, inProgress, threads, changes>>

Cancel ==
    /\ question # None
    /\ question' = None
    /\ UNCHANGED <<workerVars, heartbeatVars, selected, offered, inProgress, threads, changes>>

ConfirmedId ==
    IF question.button \notin SelectedLate THEN question.id
    ELSE IF selected \in question.from.ids THEN selected
    ELSE question.from.next

ConfirmCommand ==
    /\ question # None /\ question.button \in {"retry", "discard", "mark_uploaded"}
    /\ \E verdict \in Api!Verdicts :
          Send(Command(question.button, ConfirmedId), verdict)
    /\ question' = None
    /\ UNCHANGED <<heartbeatVars, inProgress, threads>>
    /\ Refreshes

\* Once the queue is reset the snapshot counts as outdated.
ConfirmReset ==
    /\ question # None /\ question.button = "reset"
    /\ changes < MaxChanges
    /\ \E verdict \in Api!Verdicts :
          /\ Send(Command("reset", 0), verdict)
          /\ IF verdict = "accepted"
             THEN snap' = [snap EXCEPT !.items = <<>>, !.next = NoTarget] /\ UNCHANGED inProgress /\ Refreshes
             ELSE UNCHANGED <<snap, selected, offered, inProgress>>
    /\ question' = None
    /\ UNCHANGED <<fetched, threads>>

ConfirmUpload ==
    /\ question # None /\ question.button = "upload"
    /\ Change
    /\ inProgress' = TRUE
    /\ threads' = threads \cup {[id |-> question.id,
                                stage |-> IF up THEN Forwarded("waiting") ELSE "unavailable"]}
    /\ question' = None
    /\ UNCHANGED <<workerVars, heartbeatVars>>
    /\ Refreshes

-----------------------------------------------------------------------------
(***************************************************************************)
(* The thread of an upload.                                                *)
(***************************************************************************)

\* No answer within ten minutes.  A request not taken up is dropped here, as
\* the upload of its item can be asked for again.
ThreadGivesUp ==
    /\ Change
    /\ \E thread \in threads :
          /\ thread.stage \in {"waiting", "uploading"}
          /\ Advance(thread, Api!process_upload_item(thread.id, Api!NoAnswer))
    /\ UNCHANGED <<workerVars, heartbeatVars, selected, offered, inProgress, question>>

\* Mutation: the callback is queued for an accepted upload only.
ThreadReturnsAccepted ==
    /\ \E thread \in threads :
          /\ thread.stage = "accepted"
          /\ Advance(thread, "answered")
    /\ snap' = [snap EXCEPT !.next = NoTarget]
    /\ UNCHANGED <<workerVars, fetched, selected, offered, inProgress, question, changes>>

\* The thread stores what an accepted upload makes of the snapshot and queues
\* its callback.
ThreadReturns ==
    /\ \E thread \in threads :
          /\ thread.stage \in Api!Verdicts
          /\ snap' = IF thread.stage = "accepted" THEN [snap EXCEPT !.next = NoTarget] ELSE snap
          /\ Advance(thread, "answered")
    /\ UNCHANGED <<workerVars, fetched, selected, offered, inProgress, question, changes>>

\* The callback in the UI thread, perhaps behind a dialog.
UploadAnswered ==
    /\ \E thread \in threads :
          /\ thread.stage = "answered"
          /\ threads' = threads \ {thread}
    /\ inProgress' = FALSE
    /\ UNCHANGED <<workerVars, heartbeatVars, question, changes>>
    /\ Refreshes

-----------------------------------------------------------------------------

Next ==
    \/ Record \/ TakeUp \/ TakeUpUpload \/ UploadEnds \/ Crash \/ Restart
    \/ HeartbeatFetch \/ HeartbeatStore
    \/ Refresh \/ Select \/ RetryAtOnce
    \/ \E button \in Button : Press(button)
    \/ Cancel \/ ConfirmCommand \/ ConfirmReset \/ ConfirmUpload
    \/ ThreadGivesUp \/ ThreadReturns \/ UploadAnswered

Spec == Init /\ [][Next]_vars

\* The heartbeat and the timer recur, the Worker takes up what it is sent, an
\* upload ends or is given up.
Fairness ==
    /\ WF_vars(HeartbeatFetch \/ HeartbeatStore)
    /\ WF_vars(Refresh)
    /\ WF_vars(TakeUp \/ TakeUpUpload \/ UploadEnds)
    /\ WF_vars(ThreadReturns \/ UploadAnswered)

FairSpec == Spec /\ Fairness

-----------------------------------------------------------------------------
(***************************************************************************)
(* Properties.                                                             *)
(***************************************************************************)

\* The page and the queue are well-formed.
TypeOK ==
    /\ up \in BOOLEAN /\ inProgress \in BOOLEAN
    /\ rows \in Seq(State) /\ snap.items \in Seq(State)
    /\ job \in {0} \cup {i \in DOMAIN rows : rows[i] = "uploading"}
    /\ selected \in 0 .. MaxItem /\ offered \subseteq Button
    /\ \A thread \in threads : thread.stage \in {"waiting", "uploading", "answered"} \cup Api!Verdicts

\* However the dialogs, the timer and the answers cross, the flag that greys
\* the button out tells whether the Dock waits for an upload, and it never
\* waits for two.
OneUploadAtATime == Cardinality(threads) = (IF inProgress THEN 1 ELSE 0)

\* An upload that the Dock shows as running ends for the Dock, whatever
\* becomes of the Worker.
UploadReturns == inProgress ~> ~inProgress

\* While the Worker lives and nothing fails any more, the page comes to offer
\* exactly what the queue allows for the item it has selected.
PageAgrees ==
    /\ snap = [running |-> TRUE, items |-> rows, next |-> NextTarget(rows)]
    /\ rows # <<>> => selected \in DOMAIN rows
    /\ offered = Offered(snap, TargetOf(rows, selected), inProgress)
DockCatchesUp == <>[](up /\ question = None /\ ~inProgress) => <>[]PageAgrees

=============================================================================
