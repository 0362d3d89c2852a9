------------------------- MODULE QueueTransactions --------------------------
(***************************************************************************)
(* How QueueStore reads and writes.  sqlite3 opens a transaction only at   *)
(* the first writing statement, so a command reads its row and decides in  *)
(* one step and writes the columns it decided in a later one, and          *)
(* recover_startup scans in one step and writes in a later one.            *)
(*                                                                         *)
(* Two processes can be at work.  The Worker that owns the port runs the   *)
(* commands one after the other on its event loop; only POST /queue/reset  *)
(* runs beside them, on a thread of its own.  A process that starts        *)
(* recovers the queue and then binds the port; if the port is taken it     *)
(* exits, but its recovery is done by then (create_app runs before the     *)
(* server binds).                                                          *)
(***************************************************************************)
EXTENDS Integers, FiniteSets

CONSTANTS
    Match, Video, AbsoluteVideo, VideoId, NoMatch, NoVideo, NoVideoId,
    DefaultMaxRetries, RetryLimits, MaxItemId, MaxRetryCount,
    SecondStart   \* whether a process may start while a Worker serves

VARIABLES
    queue, files,   \* as in UploadQueue
    loop,           \* the Worker that owns the port
    starting        \* a process that starts (at most one at a time)

vars == <<queue, files, loop, starting>>

Queue == INSTANCE UploadQueue

ASSUME SecondStartAssumption == SecondStart \in BOOLEAN

-----------------------------------------------------------------------------

Down == [phase |-> "down"]
Idle == [phase |-> "idle"]
Writing(i, columns) == [phase |-> "writing", item |-> i, columns |-> columns]

NotStarting == [phase |-> "none"]
Scanned(rows) == [phase |-> "scanned", rows |-> rows]
Recovered == [phase |-> "recovered"]

Init ==
    /\ Queue!Init
    /\ loop = Down
    /\ starting = NotStarting

Create ==
    /\ loop = Idle
    /\ Queue!Create
    /\ UNCHANGED <<loop, starting>>

-----------------------------------------------------------------------------
(***************************************************************************)
(* The commands: read the row, check its state, decide the columns.        *)
(***************************************************************************)

Decide(i, allowed, columns) ==
    /\ loop = Idle
    /\ Queue!RequireState(i, allowed)
    /\ loop' = Writing(i, columns)
    /\ UNCHANGED <<queue, files, starting>>

StartUpload(i) ==
    Decide(i, Queue!RESUMABLE_STATES, [state |-> "uploading"])

MarkUploaded(i, videoId) ==
    Decide(i, {"uploading", "need_manual_review"},
           [state |-> "uploaded", youtube_video_id |-> videoId])

MarkUploadFailed(i, limit) ==
    /\ i \in DOMAIN queue /\ queue[i].retry_count < MaxRetryCount
    /\ LET failed == Queue!FailedState(queue[i], limit)
       IN  Decide(i, {"uploading", "ready_upload", "upload_failed"},
                  [state       |-> failed.state,
                   retry_count |-> failed.retry_count,
                   max_retries |-> failed.max_retries])

MarkQuotaWaiting(i) ==
    Decide(i, {"uploading", "ready_upload", "upload_failed"},
           [state |-> "quota_waiting"])

MarkNeedManualReview(i) ==
    Decide(i, Queue!OPEN_STATES, [state |-> "need_manual_review"])

Retry(i) ==
    Decide(i, {"upload_failed", "quota_waiting", "need_manual_review"},
           [state |-> "ready_upload"])

Discard(i) == Decide(i, Queue!OPEN_STATES, [state |-> "discarded"])

\* Mutation: the columns of the row that was read are all written back,
\* whether the row is still there or not.
UpsertColumns(i, columns) ==
    queue' = [j \in DOMAIN queue \cup {i} |->
                 IF j # i THEN queue[j]
                 ELSE [c \in {"match_id", "state", "video_path",
                              "youtube_video_id", "retry_count", "max_retries"} |->
                          CASE c \in DOMAIN columns -> columns[c]
                            [] i \in DOMAIN queue   -> queue[i][c]
                            [] c = "match_id"       -> NoMatch
                            [] c = "video_path"     -> NoVideo
                            [] c = "state"          -> "ready_upload"
                            [] c = "youtube_video_id" -> NoVideoId
                            [] OTHER                -> 0]]

\* UPDATE ... WHERE id: the columns decided, if the row is still there.
UpdateColumns(i, columns) ==
    queue' = [j \in DOMAIN queue |->
                 IF j = i
                 THEN [c \in DOMAIN queue[j] |->
                          IF c \in DOMAIN columns THEN columns[c] ELSE queue[j][c]]
                 ELSE queue[j]]

Write ==
    /\ loop.phase = "writing"
    /\ UpdateColumns(loop.item, loop.columns)
    /\ loop' = Idle
    /\ UNCHANGED <<files, starting>>

\* The reset needs only a live Worker: it may fall between a command's read
\* and its write.
Reset ==
    /\ loop # Down
    /\ Queue!ResetItems
    /\ UNCHANGED <<loop, starting>>

\* A write that is not committed is gone with the process.
Crash ==
    /\ loop # Down
    /\ loop' = Down
    /\ UNCHANGED <<queue, files, starting>>

-----------------------------------------------------------------------------
(***************************************************************************)
(* A starting process.                                                     *)
(***************************************************************************)

Scan ==
    /\ starting = NotStarting
    /\ loop = Down \/ SecondStart
    /\ starting' = Scanned([i \in {j \in DOMAIN queue : queue[j].state = "uploading"} |-> queue[i]])
    /\ UNCHANGED <<queue, files, loop>>

\* Mutation: a process that finds nothing to recover forgets to.
RecoverNothing ==
    /\ starting.phase = "scanned"
    /\ starting' = Recovered
    /\ UNCHANGED <<queue, files, loop>>

\* The state each scanned row had decides; only the column state is written.
Recover ==
    /\ starting.phase = "scanned"
    /\ queue' = [i \in DOMAIN queue |->
                    IF i \in DOMAIN starting.rows
                    THEN [queue[i] EXCEPT !.state = Queue!RecoveredState(starting.rows[i])]
                    ELSE queue[i]]
    /\ starting' = Recovered
    /\ UNCHANGED <<files, loop>>

\* The port is free and the process becomes the Worker, or it exits.
Bind ==
    /\ starting = Recovered
    /\ loop' = IF loop = Down THEN Idle ELSE loop
    /\ starting' = NotStarting
    /\ UNCHANGED <<queue, files>>

StartCrash ==
    /\ starting # NotStarting
    /\ starting' = NotStarting
    /\ UNCHANGED <<queue, files, loop>>

FileChange ==
    /\ Queue!FileChange
    /\ UNCHANGED <<loop, starting>>

-----------------------------------------------------------------------------

Command(i) ==
    \/ StartUpload(i)
    \/ \E videoId \in VideoId : MarkUploaded(i, videoId)
    \/ \E limit \in RetryLimits \cup {queue[i].max_retries} : MarkUploadFailed(i, limit)
    \/ MarkQuotaWaiting(i)
    \/ MarkNeedManualReview(i)
    \/ Retry(i)
    \/ Discard(i)

Next ==
    \/ Create
    \/ \E i \in DOMAIN queue : Command(i)
    \/ Write
    \/ Reset
    \/ Crash
    \/ Scan
    \/ Recover
    \/ Bind
    \/ StartCrash
    \/ FileChange

Spec == Init /\ [][Next]_vars

-----------------------------------------------------------------------------
(***************************************************************************)
(* Properties.                                                             *)
(***************************************************************************)

\* With one process at a time the reads and writes of the store behave as
\* if every operation were one step, the reset on its own thread and the
\* crashes included: the store is the queue of UploadQueue.
Serializable == Queue!Spec

\* A Worker begins to serve only when the recovery has left no row in
\* "uploading": none stays there without an upload that could end it.
ServesRecoveredQueue ==
    [][loop = Down /\ loop' = Idle =>
          \A i \in DOMAIN queue : queue[i].state # "uploading"]_vars

=============================================================================
