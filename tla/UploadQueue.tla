---------------------------- MODULE UploadQueue -----------------------------
(***************************************************************************)
(* The upload queue of the Worker: the rows of the table upload_queue and  *)
(* the operations of QueueStore on them (app/worker/odr_worker/queue.py).  *)
(*                                                                         *)
(* An operation is one action here.  The code reads and decides outside    *)
(* the SQLite transaction that writes; QueueTransactions takes the two      *)
(* apart and shows when they may be taken together.  A request that the     *)
(* code answers with an error changes nothing and is no step at all.       *)
(***************************************************************************)
EXTENDS Integers, FiniteSets

CONSTANTS
    Match,              \* rows of the table matches
    Video,              \* paths of recorded videos
    AbsoluteVideo,      \* those of them that are absolute paths
    VideoId,            \* well-formed YouTube video ids
    NoMatch,            \* match_id NULL
    NoVideo,            \* video_path ''
    NoVideoId,          \* youtube_video_id ''
    DefaultMaxRetries,  \* default of the column max_retries
    RetryLimits,        \* values of max_retries that requests carry
    MaxItemId,          \* bound on the number of rows
    MaxRetryCount       \* bound on retry_count

ASSUME ConstantsAssumption ==
    /\ AbsoluteVideo \subseteq Video
    /\ NoMatch \notin Match /\ NoVideo \notin Video /\ NoVideoId \notin VideoId
    /\ DefaultMaxRetries \in Nat
    /\ RetryLimits \subseteq Int
    /\ MaxItemId \in Nat /\ MaxRetryCount \in Nat

VARIABLES
    queue,   \* the rows: a function from the ids in use to rows
    files    \* the paths at which a video file exists

vars == <<queue, files>>

-----------------------------------------------------------------------------

QUEUE_STATES == {"ready_upload", "uploading", "uploaded", "upload_failed",
                 "quota_waiting", "need_manual_review", "discarded"}

TERMINAL_STATES == {"uploaded", "discarded"}

RESUMABLE_STATES == {"ready_upload", "upload_failed"}

OPEN_STATES == QUEUE_STATES \ TERMINAL_STATES

ItemId == 1 .. MaxItemId

QueueItem == [match_id         : Match \cup {NoMatch},
              state            : QUEUE_STATES,
              video_path       : Video \cup {NoVideo},
              youtube_video_id : VideoId \cup {NoVideoId},
              retry_count      : Nat,
              max_retries      : Int]

NoItems == [i \in {} |-> NoMatch]

Init ==
    /\ queue = NoItems
    /\ files = Video

-----------------------------------------------------------------------------
(***************************************************************************)
(* Rows come and go.                                                       *)
(***************************************************************************)

\* SQLite gives an INTEGER PRIMARY KEY without AUTOINCREMENT the largest id
\* in use plus one, so the ids start again at 1 once the table is empty.
IsNextId(i) ==
    /\ \A j \in DOMAIN queue : j < i
    /\ i = 1 \/ i - 1 \in DOMAIN queue

Insert(match, video, limit) ==
    \E i \in ItemId :
        /\ IsNextId(i)
        /\ queue' = [j \in DOMAIN queue \cup {i} |->
                        IF j = i
                        THEN [match_id         |-> match,
                              state            |-> "ready_upload",
                              video_path       |-> video,
                              youtube_video_id |-> NoVideoId,
                              retry_count      |-> 0,
                              max_retries      |-> limit]
                        ELSE queue[j]]
        /\ UNCHANGED files

\* POST /queue/items: any match, or none, any path, or none.
CreateItem(match, video, limit) ==
    /\ limit >= 0
    /\ Insert(match, video, limit)

\* The handoff of a completed recording: the row of the match is reused
\* whatever its state, and a row is created only when there is none.
GetOrCreateReadyItemForMatch(match, video) ==
    /\ video # NoVideo
    /\ \A i \in DOMAIN queue : queue[i].match_id # match
    /\ Insert(match, video, DefaultMaxRetries)

\* POST /queue/reset forgets every row, whatever its state.
ResetItems ==
    /\ queue' = NoItems
    /\ UNCHANGED files

-----------------------------------------------------------------------------
(***************************************************************************)
(* apply_command: one row, checked and rewritten in one transaction.       *)
(***************************************************************************)

RequireState(i, allowed) == i \in DOMAIN queue /\ queue[i].state \in allowed

UpdateItem(i, row) ==
    /\ queue' = [queue EXCEPT ![i] = row]
    /\ UNCHANGED files

MoveTo(i, state) == UpdateItem(i, [queue[i] EXCEPT !.state = state])

StartUpload(i) ==
    /\ RequireState(i, RESUMABLE_STATES)
    /\ MoveTo(i, "uploading")

\* Mutation: an uploaded row can be marked again.
MarkUploadedAgain(i, videoId) ==
    /\ RequireState(i, {"uploading", "need_manual_review", "uploaded"})
    /\ videoId \in VideoId
    /\ UpdateItem(i, [queue[i] EXCEPT !.state = "uploaded",
                                      !.youtube_video_id = videoId])

\* Only a well-formed video id is accepted.
MarkUploaded(i, videoId) ==
    /\ RequireState(i, {"uploading", "need_manual_review"})
    /\ videoId \in VideoId
    /\ UpdateItem(i, [queue[i] EXCEPT !.state = "uploaded",
                                      !.youtube_video_id = videoId])

\* Mutation: a failed attempt is judged by the stored limit.
FailedStateOldLimit(row, limit) ==
    [row EXCEPT !.state = IF row.retry_count + 1 > row.max_retries
                          THEN "need_manual_review" ELSE "upload_failed",
                !.retry_count = row.retry_count + 1,
                !.max_retries = limit]

\* The row a failed attempt leaves: the limit of the request replaces the
\* stored one, and an attempt beyond the limit goes to manual review.
FailedState(row, limit) ==
    [row EXCEPT !.state = IF row.retry_count + 1 > limit
                          THEN "need_manual_review" ELSE "upload_failed",
                !.retry_count = row.retry_count + 1,
                !.max_retries = limit]

MarkUploadFailed(i, limit) ==
    /\ RequireState(i, {"uploading", "ready_upload", "upload_failed"})
    /\ queue[i].retry_count < MaxRetryCount
    /\ UpdateItem(i, FailedState(queue[i], limit))

MarkQuotaWaiting(i) ==
    /\ RequireState(i, {"uploading", "ready_upload", "upload_failed"})
    /\ MoveTo(i, "quota_waiting")

\* Mutation: any row can be sent to review.
MarkNeedManualReviewAny(i) == i \in DOMAIN queue /\ MoveTo(i, "need_manual_review")

MarkNeedManualReview(i) ==
    /\ RequireState(i, OPEN_STATES)
    /\ MoveTo(i, "need_manual_review")

\* Retry keeps retry_count: the budget of an item is never refilled.
Retry(i) ==
    /\ RequireState(i, {"upload_failed", "quota_waiting", "need_manual_review"})
    /\ MoveTo(i, "ready_upload")

\* Mutation: any row can be discarded.
DiscardAny(i) == i \in DOMAIN queue /\ MoveTo(i, "discarded")

Discard(i) ==
    /\ RequireState(i, OPEN_STATES)
    /\ MoveTo(i, "discarded")

-----------------------------------------------------------------------------
(***************************************************************************)
(* recover_startup: every row found in "uploading", in one transaction.    *)
(***************************************************************************)

LocalVideoMissing(row) ==
    row.video_path \in AbsoluteVideo /\ row.video_path \notin files

\* Mutation: an interrupted upload goes back to the queue.
RecoveredStateResumes(row) ==
    IF LocalVideoMissing(row) THEN "discarded" ELSE "ready_upload"

\* An interrupted upload ends in review, unless its video is known to be
\* published or lost.
RecoveredState(row) ==
    IF row.youtube_video_id # NoVideoId THEN "uploaded"
    ELSE IF LocalVideoMissing(row) THEN "discarded"
    ELSE "need_manual_review"

RecoverStartup ==
    /\ queue' = [i \in DOMAIN queue |->
                    IF queue[i].state = "uploading"
                    THEN [queue[i] EXCEPT !.state = RecoveredState(queue[i])]
                    ELSE queue[i]]
    /\ UNCHANGED files

\* The user, OBS and other programs move video files as they like.
FileChange ==
    /\ \E video \in Video :
          files' \in {files \ {video}, files \cup {video}}
    /\ UNCHANGED queue

-----------------------------------------------------------------------------

Create ==
    \/ \E match \in Match \cup {NoMatch}, video \in Video \cup {NoVideo},
          limit \in RetryLimits \cup {DefaultMaxRetries} :
             CreateItem(match, video, limit)
    \/ \E match \in Match, video \in Video :
             GetOrCreateReadyItemForMatch(match, video)

Command(i) ==
    \/ StartUpload(i)
    \/ \E videoId \in VideoId : MarkUploaded(i, videoId)
    \/ \E limit \in RetryLimits \cup {queue[i].max_retries} : MarkUploadFailed(i, limit)
    \/ MarkQuotaWaiting(i)
    \/ MarkNeedManualReview(i)
    \/ Retry(i)
    \/ Discard(i)

Next ==
    \/ Create
    \/ \E i \in DOMAIN queue : Command(i)
    \/ ResetItems
    \/ RecoverStartup
    \/ FileChange

Spec == Init /\ [][Next]_vars

-----------------------------------------------------------------------------
(***************************************************************************)
(* Properties.                                                             *)
(***************************************************************************)

\* The rows are well-formed and the files are among the known paths.
TypeOK ==
    /\ queue = [i \in DOMAIN queue |-> queue[i]]
    /\ DOMAIN queue \subseteq ItemId
    /\ \A i \in DOMAIN queue : queue[i] \in QueueItem
    /\ files \subseteq Video

\* A row carries a YouTube video id exactly when it is uploaded.  So no row
\* that is still workable hides a published video, whatever the order of
\* commands, failures and recoveries, and the first case of recover_startup
\* (an interrupted row that already has an id) never applies.
MarkedIffUploaded ==
    \A i \in DOMAIN queue :
        queue[i].youtube_video_id # NoVideoId <=> queue[i].state = "uploaded"

\* A row in upload_failed, which the Worker uploads again without asking,
\* still has a retry left within its own limit, even though the limit can
\* change with every failure and retry never resets the count.
FailedWithinBudget ==
    \A i \in DOMAIN queue :
        queue[i].state = "upload_failed" =>
            queue[i].retry_count \in 1 .. queue[i].max_retries

\* An uploaded or discarded row never changes again, in any field, and goes
\* away only when the whole table is emptied.
TerminalIsFinal ==
    [][\A i \in DOMAIN queue :
          queue[i].state \in TERMINAL_STATES =>
              \/ queue' = NoItems
              \/ i \in DOMAIN queue' /\ queue'[i] = queue[i]]_vars

\* An upload whose outcome is unknown is never queued again by one step, a
\* recovery included: between "uploading" and "ready_upload" a row is seen
\* as failed, waiting or in review.
NoBlindRequeue ==
    [][\A i \in DOMAIN queue \cap DOMAIN queue' :
          queue[i].state = "uploading" => queue'[i].state # "ready_upload"]_vars

(***************************************************************************)
(* The queue keeps the promise of the ledger: a row is an entry, open until *)
(* it is uploaded or discarded.                                            *)
(***************************************************************************)
EntryOf(row) ==
    IF row.state = "uploaded" THEN row.youtube_video_id
    ELSE IF row.state = "discarded" THEN "dropped" ELSE "open"

Ledger == INSTANCE UploadLedger WITH
              EntryId <- ItemId,
              Open    <- "open",
              Dropped <- "dropped",
              ledger  <- [i \in DOMAIN queue |-> EntryOf(queue[i])]

\* Every step of the queue is a step of the write-once ledger, or none.
KeepsLedger == Ledger!Spec

=============================================================================
