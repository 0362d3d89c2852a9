---------------------------- MODULE UploadWorker ----------------------------
(***************************************************************************)
(* The Worker process at work on the upload queue: the handoff of recorded *)
(* matches, the upload of an item to YouTube, the operator's commands, the *)
(* reset, and the crashes and restarts between them.                       *)
(*                                                                         *)
(* The handlers of the upload run on the event loop and do not yield while *)
(* YouTube is being called, so no other request is served until the upload *)
(* ends; the exception is POST /queue/reset, which runs on a thread.  A    *)
(* request that ends in an error or is answered "upload_blocked" changes   *)
(* nothing and is no step; whether the metadata of a match is complete is  *)
(* one of the reasons to block an upload.                                  *)
(***************************************************************************)
EXTENDS UploadQueue

CONSTANT
    SecondStart    \* whether a process may start while the Worker serves

ASSUME SwitchAssumption == SecondStart \in BOOLEAN

VARIABLES
    up,             \* the Worker process serves requests
    call,           \* the upload in progress on its event loop
    published,      \* matches with a video on YouTube
    excused,        \* matches that may be sent again although they are published:
                    \* the operator accepted it, or the answer of YouTube was lost
    forgotten,      \* matches whose item was removed by a reset
    stranded        \* items whose request failed after start_upload

workerVars == <<vars, up, call, published, excused, forgotten, stranded>>
history == <<published, excused, forgotten, stranded>>

NoCall == [phase |-> "none"]
Sent(i, match) == [phase |-> "sent", item |-> i, match |-> match]

WorkerInit ==
    /\ Init
    /\ up = TRUE
    /\ call = NoCall
    /\ published = {} /\ excused = {} /\ forgotten = {} /\ stranded = {}

LoopIdle == up /\ call = NoCall

-----------------------------------------------------------------------------
(***************************************************************************)
(* Requests served by the event loop.                                      *)
(***************************************************************************)

\* Mutation: the handoff runs on a thread, beside an upload.
HandoffOnThread(match, video) ==
    /\ up
    /\ GetOrCreateReadyItemForMatch(match, video)
    /\ UNCHANGED <<up, call, history>>

\* Mutation: the handoff looks for a waiting item only.
HandoffOfWaiting(match, video) ==
    /\ LoopIdle
    /\ \A i \in DOMAIN queue : queue[i].match_id = match => queue[i].state # "ready_upload"
    /\ Insert(match, video, DefaultMaxRetries)
    /\ UNCHANGED <<up, call, history>>

\* A completed manual recording is handed to the queue.
Handoff(match, video) ==
    /\ LoopIdle
    /\ GetOrCreateReadyItemForMatch(match, video)
    /\ UNCHANGED <<up, call, history>>

Uploadable(i) ==
    /\ LoopIdle
    /\ RequireState(i, RESUMABLE_STATES)
    /\ queue[i].youtube_video_id = NoVideoId

\* An item whose video is gone is discarded instead of uploaded.
DiscardMissing(i) ==
    /\ Uploadable(i)
    /\ queue[i].video_path \notin files
    /\ Discard(i)
    /\ UNCHANGED <<up, call, history>>

BeginUpload(i) ==
    /\ Uploadable(i)
    /\ queue[i].video_path \in files
    /\ queue[i].match_id # NoMatch
    /\ StartUpload(i)
    /\ call' = Sent(i, queue[i].match_id)
    /\ UNCHANGED <<up, history>>

\* POST /upload/items/{item_id}/process
ProcessItem(i) == DiscardMissing(i) \/ BeginUpload(i)

\* POST /upload/process-next takes the waiting item with the lowest id.
ProcessNext ==
    \E i \in DOMAIN queue :
        /\ queue[i].state = "ready_upload"
        /\ \A j \in DOMAIN queue : queue[j].state = "ready_upload" => i <= j
        /\ ProcessItem(i)

\* The operator retries: out of manual review that means accepting that the
\* earlier upload may have been published.
OperatorRetry(i) ==
    /\ LoopIdle
    /\ Retry(i)
    /\ excused' = IF queue[i].state = "need_manual_review"
                   THEN excused \cup {queue[i].match_id} ELSE excused
    /\ UNCHANGED <<up, call, published, forgotten, stranded>>

OperatorDiscard(i) ==
    /\ LoopIdle
    /\ Discard(i)
    /\ UNCHANGED <<up, call, history>>

OperatorMarkUploaded(i) ==
    /\ LoopIdle
    /\ \E videoId \in VideoId : MarkUploaded(i, videoId)
    /\ UNCHANGED <<up, call, history>>

-----------------------------------------------------------------------------
(***************************************************************************)
(* The upload.                                                             *)
(***************************************************************************)

\* YouTube has the whole video and publishes it.
YouTubeAccepts ==
    /\ call.phase = "sent"
    /\ call' = [call EXCEPT !.phase = "accepted"]
    /\ published' = published \cup {call.match}
    /\ excused' = excused \ {call.match}
    /\ UNCHANGED <<queue, files, up, forgotten, stranded>>

\* The outcome goes to the row the upload began with; if the row is gone or
\* no longer allows the command, the request ends in an error.
Settle(allowed, command) ==
    /\ \/ RequireState(call.item, allowed) /\ command
       \/ ~RequireState(call.item, allowed) /\ UNCHANGED <<queue, files>>
    /\ call' = NoCall
    /\ UNCHANGED up

EndSuccess ==
    /\ call.phase = "accepted"
    /\ \E videoId \in VideoId :
          Settle({"uploading", "need_manual_review"},
                 MarkUploaded(call.item, videoId))
    /\ UNCHANGED history

\* An I/O error or a retryable answer: nothing was published, unless the
\* connection failed between YouTube's acceptance and its answer.
EndNetworkError ==
    /\ call.phase # "none"
    /\ Settle({"uploading", "ready_upload", "upload_failed"},
              MarkUploadFailed(call.item, queue[call.item].max_retries))
    /\ excused' = IF call.phase = "accepted" THEN excused \cup {call.match} ELSE excused
    /\ UNCHANGED <<published, forgotten, stranded>>

\* Mutation: the quota outcome is written whatever became of the row.
EndQuotaExceededUnchecked ==
    /\ call.phase = "sent"
    /\ \/ call.item \in DOMAIN queue /\ MoveTo(call.item, "quota_waiting")
       \/ call.item \notin DOMAIN queue /\ UNCHANGED <<queue, files>>
    /\ call' = NoCall
    /\ UNCHANGED <<up, history>>

EndQuotaExceeded ==
    /\ call.phase = "sent"
    /\ Settle({"uploading", "ready_upload", "upload_failed"},
              MarkQuotaWaiting(call.item))
    /\ UNCHANGED history

\* Mutation: an answer that cannot be read counts as a failed attempt.
EndAmbiguousAsFailure ==
    /\ call.phase # "none"
    /\ Settle({"uploading", "ready_upload", "upload_failed"},
              MarkUploadFailed(call.item, queue[call.item].max_retries))
    /\ UNCHANGED history

\* Mutation: an exception nobody expected ends the request and no more.
EndAmbiguousUnrecorded ==
    /\ call.phase # "none"
    /\ call' = NoCall
    /\ UNCHANGED <<queue, files, up, history>>

\* Any other answer or exception says nothing about what YouTube did; an
\* authorization failure is handled alike.
EndAmbiguous ==
    /\ call.phase # "none"
    /\ Settle(OPEN_STATES, MarkNeedManualReview(call.item))
    /\ UNCHANGED history

\* The options of the request (privacy_status) are rejected when the row is
\* already uploading, and nothing puts it back.
EndRejected ==
    /\ call.phase = "sent"
    /\ call' = NoCall
    /\ stranded' = stranded \cup {call.item}
    /\ UNCHANGED <<queue, files, up, published, excused, forgotten>>

EndUpload ==
    \/ EndSuccess
    \/ EndNetworkError
    \/ EndQuotaExceeded
    \/ EndAmbiguous
    \/ EndRejected

-----------------------------------------------------------------------------
(***************************************************************************)
(* Around the event loop.                                                  *)
(***************************************************************************)

\* POST /queue/reset, also while an upload is in progress.
Reset ==
    /\ up
    /\ ResetItems
    /\ forgotten' = forgotten \cup ({queue[i].match_id : i \in DOMAIN queue} \ {NoMatch})
    /\ stranded' = {}
    /\ UNCHANGED <<up, call, published, excused>>

\* Mutation: the upload goes on in a process that outlives the Worker.
CrashKeepsCall ==
    /\ up
    /\ up' = FALSE
    /\ UNCHANGED <<queue, files, call, history>>

\* The process dies; a video that was sent may or may not be published.
Crash ==
    /\ up
    /\ up' = FALSE
    /\ call' = NoCall
    /\ \/ UNCHANGED history
       \/ /\ call.phase = "sent"
          /\ published' = published \cup {call.match}
          /\ excused' = excused \ {call.match}
          /\ UNCHANGED <<forgotten, stranded>>
    /\ UNCHANGED <<queue, files>>

\* Mutation: the Worker serves without looking at interrupted uploads.
RestartUnrecovered ==
    /\ ~up
    /\ up' = TRUE
    /\ UNCHANGED <<queue, files, call, history>>

Restart ==
    /\ ~up
    /\ RecoverStartup
    /\ up' = TRUE
    /\ stranded' = {}
    /\ UNCHANGED <<call, published, excused, forgotten>>

\* A second process recovers the queue before it finds the port taken.
StartBeside ==
    /\ SecondStart
    /\ up
    /\ RecoverStartup
    /\ UNCHANGED <<up, call, history>>

WorkerFileChange ==
    /\ FileChange
    /\ UNCHANGED <<up, call, history>>

-----------------------------------------------------------------------------

WorkerNext ==
    \/ \E match \in Match, video \in Video : Handoff(match, video)
    \/ \E i \in DOMAIN queue : ProcessItem(i)
    \/ ProcessNext
    \/ \E i \in DOMAIN queue : OperatorRetry(i)
    \/ \E i \in DOMAIN queue : OperatorDiscard(i)
    \/ \E i \in DOMAIN queue : OperatorMarkUploaded(i)
    \/ YouTubeAccepts
    \/ EndUpload
    \/ Reset
    \/ Crash
    \/ Restart
    \/ StartBeside
    \/ WorkerFileChange

WorkerSpec == WorkerInit /\ [][WorkerNext]_workerVars

\* A call to YouTube ends, and OBS starts a Worker again after it died.
FairSpec == WorkerSpec /\ WF_workerVars(EndUpload) /\ WF_workerVars(Restart)

-----------------------------------------------------------------------------
(***************************************************************************)
(* Properties.                                                             *)
(***************************************************************************)

\* Calls and histories are well-formed (the rows are UploadQueue's).
WorkerTypeOK ==
    /\ TypeOK
    /\ up \in BOOLEAN
    /\ call \in {NoCall} \cup [phase : {"sent", "accepted"}, item : ItemId, match : Match]
    /\ ~up => call = NoCall
    /\ published \subseteq Match /\ excused \subseteq Match /\ forgotten \subseteq Match
    /\ stranded \subseteq ItemId

\* No upload is in flight for a match that is already on YouTube, unless the
\* operator accepted the duplicate in manual review or reset the queue, or the
\* connection broke before YouTube's answer arrived and the upload counted as
\* failed, whatever crashes, second starts and commands came in between.
NoBlindReupload ==
    call.phase = "sent" /\ call.match \in published =>
        call.match \in excused \cup forgotten

\* The outcome of an upload never reaches the row of another match: ids are
\* given out again after a reset, but not before the upload has ended.
OutcomeReachesItsItem ==
    call.phase # "none" /\ call.item \in DOMAIN queue =>
        /\ queue[call.item].match_id = call.match
        /\ queue[call.item].state \notin RESUMABLE_STATES

\* A match has at most one row, however often its recording is handed over.
HandoffIdempotent ==
    \A i, j \in DOMAIN queue : queue[i].match_id = queue[j].match_id => i = j

\* While the Worker serves, a row in "uploading" is the row of the upload in
\* progress, or its request was rejected too late: no crash, restart, second
\* start or reset leaves another one behind.
UploadingIsInFlight ==
    up => \A i \in DOMAIN queue \ stranded :
              queue[i].state = "uploading" => call.phase # "none" /\ call.item = i

\* Every step of the Worker is a step of the upload queue, or none.
KeepsQueue == Spec

\* An upload comes to an end: its row leaves "uploading", unless the request
\* was rejected too late.
InDoubt(i) == RequireState(i, {"uploading"}) /\ i \notin stranded

UploadSettles == \A i \in ItemId : InDoubt(i) ~> ~InDoubt(i)

=============================================================================
