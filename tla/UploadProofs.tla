---------------------------- MODULE UploadProofs ----------------------------
(***************************************************************************)
(* Proofs about the upload queue (UploadQueue) and the two modules that    *)
(* use it: the Worker at work on it (UploadWorker), and the reads and      *)
(* writes its operations are made of (QueueTransactions).  Every step of   *)
(* either is shown to be a step of the queue, so that what is proved about *)
(* its rows holds for them.                                                *)
(***************************************************************************)
EXTENDS UploadWorker, TLAPS

VARIABLES loop, starting   \* of QueueTransactions

Transactions == INSTANCE QueueTransactions

-----------------------------------------------------------------------------
(***************************************************************************)
(* What one operation does to the rows, in one form for all operations.    *)
(***************************************************************************)

\* The row i becomes row, and nothing else changes.
Rewrites(i, row) ==
    /\ i \in DOMAIN queue
    /\ queue' = [queue EXCEPT ![i] = row]

\* The rows a command may leave, given the row it finds.
Outcome(old, new) ==
    \/ /\ old.state \in RESUMABLE_STATES
       /\ new = [old EXCEPT !.state = "uploading"]
    \/ /\ old.state \in {"uploading", "need_manual_review"}
       /\ \E videoId \in VideoId :
             new = [old EXCEPT !.state = "uploaded", !.youtube_video_id = videoId]
    \/ /\ old.state \in OPEN_STATES
       /\ \E limit \in Int : new = FailedState(old, limit)
    \/ /\ old.state \in OPEN_STATES
       /\ new = [old EXCEPT !.state = "quota_waiting"]
    \/ /\ old.state \in OPEN_STATES
       /\ new = [old EXCEPT !.state = "need_manual_review"]
    \/ /\ old.state \in {"upload_failed", "quota_waiting", "need_manual_review"}
       /\ new = [old EXCEPT !.state = "ready_upload"]
    \/ /\ old.state \in OPEN_STATES
       /\ new = [old EXCEPT !.state = "discarded"]

\* Every command rewrites one row to one of its outcomes.
LEMMA CommandRewrites ==
    ASSUME TypeOK, NEW i \in DOMAIN queue, Command(i)
    PROVE  /\ UNCHANGED files
           /\ \E row : Rewrites(i, row) /\ Outcome(queue[i], row)
<1> USE DEF RequireState, MoveTo, UpdateItem, Rewrites, OPEN_STATES,
            QUEUE_STATES, TERMINAL_STATES, RESUMABLE_STATES
<1>1. CASE StartUpload(i)
  BY <1>1 DEF StartUpload, Outcome
<1>2. ASSUME NEW videoId \in VideoId, MarkUploaded(i, videoId)
      PROVE  UNCHANGED files /\ \E row : Rewrites(i, row) /\ Outcome(queue[i], row)
  BY <1>2 DEF MarkUploaded, Outcome
<1>3. ASSUME NEW limit \in RetryLimits \cup {queue[i].max_retries},
             MarkUploadFailed(i, limit)
      PROVE  UNCHANGED files /\ \E row : Rewrites(i, row) /\ Outcome(queue[i], row)
  <2>1. limit \in Int
    BY ConstantsAssumption DEF TypeOK, QueueItem
  <2> QED
    BY <1>3, <2>1 DEF MarkUploadFailed, Outcome
<1>4. CASE MarkQuotaWaiting(i)
  BY <1>4 DEF MarkQuotaWaiting, Outcome
<1>5. CASE MarkNeedManualReview(i)
  BY <1>5 DEF MarkNeedManualReview, Outcome
<1>6. CASE Retry(i)
  BY <1>6 DEF Retry, Outcome
<1>7. CASE Discard(i)
  BY <1>7 DEF Discard, Outcome
<1> QED
  BY <1>1, <1>2, <1>3, <1>4, <1>5, <1>6, <1>7 DEF Command

\* A new row as every creation writes it.
FreshRow(row) ==
    /\ row.state = "ready_upload"
    /\ row.youtube_video_id = NoVideoId

\* Every creation adds one fresh row under a new id.
LEMMA CreateAdds ==
    ASSUME Create
    PROVE  /\ UNCHANGED files
           /\ \E i \in ItemId, row \in QueueItem :
                 /\ i \notin DOMAIN queue
                 /\ FreshRow(row)
                 /\ queue' = [j \in DOMAIN queue \cup {i} |->
                                 IF j = i THEN row ELSE queue[j]]
<1>1. ASSUME NEW match \in Match \cup {NoMatch}, NEW video \in Video \cup {NoVideo},
             NEW limit \in Int, Insert(match, video, limit)
      PROVE  /\ UNCHANGED files
             /\ \E i \in ItemId, row \in QueueItem :
                   /\ i \notin DOMAIN queue
                   /\ FreshRow(row)
                   /\ queue' = [j \in DOMAIN queue \cup {i} |->
                                   IF j = i THEN row ELSE queue[j]]
  <2> DEFINE row == [match_id         |-> match,
                     state            |-> "ready_upload",
                     video_path       |-> video,
                     youtube_video_id |-> NoVideoId,
                     retry_count      |-> 0,
                     max_retries      |-> limit]
  <2>1. row \in QueueItem /\ FreshRow(row)
    BY DEF FreshRow, QueueItem, QUEUE_STATES
  <2>2. PICK i \in ItemId :
           /\ IsNextId(i)
           /\ queue' = [j \in DOMAIN queue \cup {i} |-> IF j = i THEN row ELSE queue[j]]
           /\ UNCHANGED files
    BY <1>1 DEF Insert
  <2>3. i \notin DOMAIN queue
    BY <2>2 DEF IsNextId, ItemId
  <2> HIDE DEF row
  <2> QED
    BY <2>1, <2>2, <2>3
<1>2. RetryLimits \cup {DefaultMaxRetries} \subseteq Int
  BY ConstantsAssumption
<1> QED
  BY <1>1, <1>2, ConstantsAssumption
     DEF Create, CreateItem, GetOrCreateReadyItemForMatch

-----------------------------------------------------------------------------
(***************************************************************************)
(* The type invariant.                                                     *)
(***************************************************************************)

LEMMA OutcomeType ==
    ASSUME NEW old \in QueueItem, NEW new, Outcome(old, new)
    PROVE  new \in QueueItem
<1>1. \A state \in QUEUE_STATES : [old EXCEPT !.state = state] \in QueueItem
  BY DEF QueueItem
<1>2. \A videoId \in VideoId :
         [old EXCEPT !.state = "uploaded", !.youtube_video_id = videoId] \in QueueItem
  BY DEF QueueItem, QUEUE_STATES
<1>3. \A limit \in Int : FailedState(old, limit) \in QueueItem
  <2> SUFFICES ASSUME NEW limit \in Int PROVE FailedState(old, limit) \in QueueItem
    OBVIOUS
  <2>1. old.retry_count + 1 \in Nat
    BY DEF QueueItem
  <2>2. \A state \in QUEUE_STATES, count \in Nat :
           [old EXCEPT !.state = state, !.retry_count = count, !.max_retries = limit]
              \in QueueItem
    BY DEF QueueItem
  <2>3. {"need_manual_review", "upload_failed"} \subseteq QUEUE_STATES
    BY DEF QUEUE_STATES
  <2> QED
    BY <2>1, <2>2, <2>3 DEF FailedState
<1>4. {"uploading", "quota_waiting", "need_manual_review", "ready_upload", "discarded"}
         \subseteq QUEUE_STATES
  BY DEF QUEUE_STATES
<1> QED
  BY <1>1, <1>2, <1>3, <1>4 DEF Outcome

LEMMA RecoveredType ==
    ASSUME NEW row \in QueueItem
    PROVE  [row EXCEPT !.state = RecoveredState(row)] \in QueueItem
<1>1. RecoveredState(row) \in QUEUE_STATES
  BY DEF RecoveredState, QUEUE_STATES
<1> QED
  BY <1>1 DEF QueueItem

LEMMA TypeInit == Init => TypeOK
BY DEF Init, TypeOK, NoItems

LEMMA TypeStep == TypeOK /\ [Next]_vars => TypeOK'
<1> SUFFICES ASSUME TypeOK, [Next]_vars PROVE TypeOK'
  OBVIOUS
<1>1. CASE Create
  <2>1. PICK i \in ItemId, row \in QueueItem :
           /\ FreshRow(row)
           /\ queue' = [j \in DOMAIN queue \cup {i} |-> IF j = i THEN row ELSE queue[j]]
    BY <1>1, CreateAdds
  <2> QED
    BY <1>1, <2>1, CreateAdds DEF TypeOK
<1>2. ASSUME NEW i \in DOMAIN queue, Command(i)
      PROVE  TypeOK'
  <2>1. PICK row : Rewrites(i, row) /\ Outcome(queue[i], row)
    BY <1>2, CommandRewrites
  <2>2. row \in QueueItem
    BY <2>1, OutcomeType DEF TypeOK
  <2> QED
    BY <1>2, <2>1, <2>2, CommandRewrites DEF TypeOK, Rewrites
<1>3. CASE ResetItems
  BY <1>3 DEF ResetItems, TypeOK, NoItems
<1>4. CASE RecoverStartup
  <2>1. DOMAIN queue' = DOMAIN queue /\ queue' = [i \in DOMAIN queue' |-> queue'[i]]
    BY <1>4 DEF RecoverStartup
  <2>2. \A i \in DOMAIN queue : queue'[i] \in QueueItem
    BY <1>4, RecoveredType DEF RecoverStartup, TypeOK
  <2> QED
    BY <1>4, <2>1, <2>2 DEF RecoverStartup, TypeOK
<1>5. CASE FileChange
  BY <1>5 DEF FileChange, TypeOK
<1>6. CASE UNCHANGED vars
  BY <1>6 DEF vars, TypeOK
<1> QED
  BY <1>1, <1>2, <1>3, <1>4, <1>5, <1>6 DEF Next

\* The rows stay well-formed under every operation of QueueStore.
THEOREM TypeCorrect == Spec => []TypeOK
BY TypeInit, TypeStep, PTL DEF Spec

-----------------------------------------------------------------------------
(***************************************************************************)
(* A row carries a video id exactly when it is uploaded.                   *)
(***************************************************************************)

RowMarked(row) == row.youtube_video_id # NoVideoId <=> row.state = "uploaded"

LEMMA OutcomeMarked ==
    ASSUME NEW old \in QueueItem, NEW new, Outcome(old, new), RowMarked(old)
    PROVE  RowMarked(new)
<1> USE DEF RowMarked, QueueItem, RESUMABLE_STATES, OPEN_STATES, TERMINAL_STATES, QUEUE_STATES
<1>1. ASSUME NEW videoId \in VideoId,
             new = [old EXCEPT !.state = "uploaded", !.youtube_video_id = videoId]
      PROVE  RowMarked(new)
  BY <1>1, ConstantsAssumption
<1>2. ASSUME NEW state, state # "uploaded", old.state # "uploaded",
             new = [old EXCEPT !.state = state]
      PROVE  RowMarked(new)
  BY <1>2
<1>3. ASSUME NEW limit \in Int, old.state # "uploaded", new = FailedState(old, limit)
      PROVE  RowMarked(new)
  BY <1>3 DEF FailedState
<1> QED
  BY <1>1, <1>2, <1>3 DEF Outcome

LEMMA MarkedStep == TypeOK /\ MarkedIffUploaded /\ [Next]_vars => MarkedIffUploaded'
<1> SUFFICES ASSUME TypeOK, MarkedIffUploaded, [Next]_vars PROVE MarkedIffUploaded'
  OBVIOUS
<1>1. CASE Create
  <2>1. PICK i \in ItemId, row \in QueueItem :
           /\ FreshRow(row)
           /\ queue' = [j \in DOMAIN queue \cup {i} |-> IF j = i THEN row ELSE queue[j]]
    BY <1>1, CreateAdds
  <2> QED
    BY <2>1 DEF MarkedIffUploaded, FreshRow
<1>2. ASSUME NEW i \in DOMAIN queue, Command(i)
      PROVE  MarkedIffUploaded'
  <2>1. PICK row : Rewrites(i, row) /\ Outcome(queue[i], row)
    BY <1>2, CommandRewrites
  <2>2. RowMarked(row)
    BY <2>1, OutcomeMarked DEF TypeOK, MarkedIffUploaded, RowMarked
  <2> QED
    BY <2>1, <2>2 DEF Rewrites, MarkedIffUploaded, RowMarked
<1>3. CASE ResetItems
  BY <1>3 DEF ResetItems, MarkedIffUploaded, NoItems
<1>4. CASE RecoverStartup
  <2> SUFFICES ASSUME NEW i \in DOMAIN queue' PROVE RowMarked(queue'[i])
    BY DEF MarkedIffUploaded, RowMarked
  <2>1. i \in DOMAIN queue /\ queue[i] \in QueueItem /\ RowMarked(queue[i])
    BY <1>4 DEF RecoverStartup, TypeOK, MarkedIffUploaded, RowMarked
  <2>2. CASE queue[i].state = "uploading"
    <3>1. queue'[i] = [queue[i] EXCEPT !.state = RecoveredState(queue[i])]
      BY <1>4, <2>1, <2>2 DEF RecoverStartup
    <3>2. RecoveredState(queue[i]) # "uploaded"
      BY <2>1, <2>2 DEF RecoveredState, RowMarked
    <3> QED
      BY <2>1, <2>2, <3>1, <3>2 DEF RowMarked, QueueItem
  <2>3. CASE queue[i].state # "uploading"
    BY <1>4, <2>1, <2>3 DEF RecoverStartup
  <2> QED
    BY <2>2, <2>3
<1>5. CASE FileChange \/ UNCHANGED vars
  BY <1>5 DEF FileChange, vars, MarkedIffUploaded
<1> QED
  BY <1>1, <1>2, <1>3, <1>4, <1>5 DEF Next

\* A row carries a YouTube video id exactly when it is uploaded, after any
\* sequence of requests, failures and recoveries.
THEOREM MarkedCorrect == Spec => []MarkedIffUploaded
<1>1. Init => MarkedIffUploaded
  BY DEF Init, NoItems, MarkedIffUploaded
<1> QED
  BY <1>1, MarkedStep, TypeCorrect, PTL DEF Spec

-----------------------------------------------------------------------------
(***************************************************************************)
(* A row that will be uploaded again has a retry left.                     *)
(***************************************************************************)

RowWithinBudget(row) ==
    row.state = "upload_failed" => row.retry_count \in 1 .. row.max_retries

LEMMA OutcomeWithinBudget ==
    ASSUME NEW old \in QueueItem, NEW new, Outcome(old, new)
    PROVE  RowWithinBudget(new)
<1> USE DEF QueueItem
<1>1. ASSUME NEW limit \in Int, new = FailedState(old, limit)
      PROVE  RowWithinBudget(new)
  <2>1. /\ new.retry_count = old.retry_count + 1
        /\ new.max_retries = limit
        /\ new.state = IF old.retry_count + 1 > limit
                       THEN "need_manual_review" ELSE "upload_failed"
    BY <1>1 DEF FailedState
  <2>2. old.retry_count \in Nat
    OBVIOUS
  <2> QED
    BY <2>1, <2>2 DEF RowWithinBudget
<1>2. ASSUME NEW state, state # "upload_failed", new = [old EXCEPT !.state = state]
      PROVE  RowWithinBudget(new)
  BY <1>2 DEF RowWithinBudget
<1>3. ASSUME NEW videoId \in VideoId,
             new = [old EXCEPT !.state = "uploaded", !.youtube_video_id = videoId]
      PROVE  RowWithinBudget(new)
  BY <1>3 DEF RowWithinBudget
<1> QED
  BY <1>1, <1>2, <1>3 DEF Outcome

LEMMA BudgetStep == TypeOK /\ FailedWithinBudget /\ [Next]_vars => FailedWithinBudget'
<1> SUFFICES ASSUME TypeOK, FailedWithinBudget, [Next]_vars PROVE FailedWithinBudget'
  OBVIOUS
<1>1. CASE Create
  <2>1. PICK i \in ItemId, row \in QueueItem :
           /\ FreshRow(row)
           /\ queue' = [j \in DOMAIN queue \cup {i} |-> IF j = i THEN row ELSE queue[j]]
    BY <1>1, CreateAdds
  <2> QED
    BY <2>1 DEF FailedWithinBudget, FreshRow
<1>2. ASSUME NEW i \in DOMAIN queue, Command(i)
      PROVE  FailedWithinBudget'
  <2>1. PICK row : Rewrites(i, row) /\ Outcome(queue[i], row)
    BY <1>2, CommandRewrites
  <2>2. RowWithinBudget(row)
    BY <2>1, OutcomeWithinBudget DEF TypeOK
  <2> QED
    BY <2>1, <2>2 DEF Rewrites, FailedWithinBudget, RowWithinBudget
<1>3. CASE ResetItems
  BY <1>3 DEF ResetItems, FailedWithinBudget, NoItems
<1>4. CASE RecoverStartup
  <2> SUFFICES ASSUME NEW i \in DOMAIN queue' PROVE RowWithinBudget(queue'[i])
    BY DEF FailedWithinBudget, RowWithinBudget
  <2>1. i \in DOMAIN queue /\ queue[i] \in QueueItem /\ RowWithinBudget(queue[i])
    BY <1>4 DEF RecoverStartup, TypeOK, FailedWithinBudget, RowWithinBudget
  <2>2. RecoveredState(queue[i]) # "upload_failed"
    BY DEF RecoveredState
  <2>3. CASE queue[i].state = "uploading"
    BY <1>4, <2>1, <2>2, <2>3 DEF RecoverStartup, RowWithinBudget, QueueItem
  <2>4. CASE queue[i].state # "uploading"
    BY <1>4, <2>1, <2>4 DEF RecoverStartup
  <2> QED
    BY <2>3, <2>4
<1>5. CASE FileChange \/ UNCHANGED vars
  BY <1>5 DEF FileChange, vars, FailedWithinBudget
<1> QED
  BY <1>1, <1>2, <1>3, <1>4, <1>5 DEF Next

\* The Worker never picks up a failed row whose retries are used up, however
\* requests change the limit from one failure to the next.
THEOREM BudgetCorrect == Spec => []FailedWithinBudget
<1>1. Init => FailedWithinBudget
  BY DEF Init, NoItems, FailedWithinBudget
<1> QED
  BY <1>1, BudgetStep, TypeCorrect, PTL DEF Spec

-----------------------------------------------------------------------------
(***************************************************************************)
(* Action properties.                                                      *)
(***************************************************************************)

LEMMA TerminalStep ==
    ASSUME TypeOK, [Next]_vars, NEW i \in DOMAIN queue, queue[i].state \in TERMINAL_STATES
    PROVE  \/ queue' = NoItems
           \/ i \in DOMAIN queue' /\ queue'[i] = queue[i]
<1>1. CASE Create
  <2>1. PICK j \in ItemId, row \in QueueItem :
           /\ j \notin DOMAIN queue
           /\ queue' = [k \in DOMAIN queue \cup {j} |-> IF k = j THEN row ELSE queue[k]]
    BY <1>1, CreateAdds
  <2> QED
    BY <2>1
<1>2. ASSUME NEW j \in DOMAIN queue, Command(j)
      PROVE  i \in DOMAIN queue' /\ queue'[i] = queue[i]
  <2>1. PICK row : Rewrites(j, row) /\ Outcome(queue[j], row)
    BY <1>2, CommandRewrites
  <2>2. queue[j].state \notin TERMINAL_STATES
    BY <2>1 DEF Outcome, TERMINAL_STATES, RESUMABLE_STATES, OPEN_STATES
  <2> QED
    BY <2>1, <2>2 DEF Rewrites
<1>3. CASE ResetItems
  BY <1>3 DEF ResetItems
<1>4. CASE RecoverStartup
  BY <1>4 DEF RecoverStartup, TERMINAL_STATES
<1>5. CASE FileChange \/ UNCHANGED vars
  BY <1>5 DEF FileChange, vars
<1> QED
  BY <1>1, <1>2, <1>3, <1>4, <1>5 DEF Next

\* An uploaded or discarded row keeps every column until the whole table is
\* emptied.
THEOREM TerminalCorrect == Spec => TerminalIsFinal
<1>1. TypeOK /\ [Next]_vars =>
         [\A i \in DOMAIN queue :
             queue[i].state \in TERMINAL_STATES =>
                 \/ queue' = NoItems
                 \/ i \in DOMAIN queue' /\ queue'[i] = queue[i]]_vars
  BY TerminalStep
<1> QED
  BY <1>1, TypeCorrect, PTL DEF Spec, TerminalIsFinal

LEMMA RequeueStep ==
    ASSUME TypeOK, [Next]_vars, NEW i \in DOMAIN queue \cap DOMAIN queue',
           queue[i].state = "uploading"
    PROVE  queue'[i].state # "ready_upload"
<1> USE DEF TypeOK, QueueItem
<1>1. CASE Create
  <2>1. PICK j \in ItemId, row \in QueueItem :
           /\ j \notin DOMAIN queue
           /\ queue' = [k \in DOMAIN queue \cup {j} |-> IF k = j THEN row ELSE queue[k]]
    BY <1>1, CreateAdds
  <2> QED
    BY <2>1
<1>2. ASSUME NEW j \in DOMAIN queue, Command(j)
      PROVE  queue'[i].state # "ready_upload"
  <2>1. PICK row : Rewrites(j, row) /\ Outcome(queue[j], row)
    BY <1>2, CommandRewrites
  <2>2. CASE j = i
    <3>1. row.state # "ready_upload"
      BY <2>1, <2>2 DEF Outcome, FailedState
    <3> QED
      BY <2>1, <2>2, <3>1 DEF Rewrites
  <2>3. CASE j # i
    BY <2>1, <2>3 DEF Rewrites
  <2> QED
    BY <2>2, <2>3
<1>3. CASE ResetItems
  BY <1>3 DEF ResetItems, NoItems
<1>4. CASE RecoverStartup
  <2>1. RecoveredState(queue[i]) # "ready_upload"
    BY DEF RecoveredState
  <2> QED
    BY <1>4, <2>1 DEF RecoverStartup
<1>5. CASE FileChange \/ UNCHANGED vars
  BY <1>5 DEF FileChange, vars
<1> QED
  BY <1>1, <1>2, <1>3, <1>4, <1>5 DEF Next

\* No single step, a startup recovery included, puts an upload whose outcome
\* is unknown back into ready_upload.
THEOREM RequeueCorrect == Spec => NoBlindRequeue
<1>1. TypeOK /\ [Next]_vars =>
         [\A i \in DOMAIN queue \cap DOMAIN queue' :
             queue[i].state = "uploading" => queue'[i].state # "ready_upload"]_vars
  BY RequeueStep
<1> QED
  BY <1>1, TypeCorrect, PTL DEF Spec, NoBlindRequeue

-----------------------------------------------------------------------------
(***************************************************************************)
(* The queue implements the write-once ledger.                             *)
(***************************************************************************)

Entries == [i \in DOMAIN queue |-> EntryOf(queue[i])]

\* What a command does to the entry of its row.
LEMMA OutcomeEntry ==
    ASSUME NEW old \in QueueItem, NEW new, Outcome(old, new)
    PROVE  /\ EntryOf(old) = "open"
           /\ EntryOf(new) \in VideoId \cup {"open", "dropped"}
<1>1. old.state \notin TERMINAL_STATES
  BY DEF Outcome, RESUMABLE_STATES, OPEN_STATES, TERMINAL_STATES
<1>2. CASE new.state = "uploaded"
  <2>1. new.youtube_video_id \in VideoId
    BY <1>2 DEF Outcome, FailedState, QueueItem
  <2> QED
    BY <1>1, <1>2, <2>1 DEF EntryOf, TERMINAL_STATES
<1>3. CASE new.state # "uploaded"
  BY <1>1, <1>3 DEF EntryOf, TERMINAL_STATES
<1> QED
  BY <1>2, <1>3

LEMMA LedgerStep ==
    ASSUME TypeOK, MarkedIffUploaded, [Next]_vars
    PROVE  [Ledger!Next]_Entries
<1> USE DEF Entries
<1>1. CASE Create
  <2>1. PICK i \in ItemId, row \in QueueItem :
           /\ i \notin DOMAIN queue
           /\ FreshRow(row)
           /\ queue' = [j \in DOMAIN queue \cup {i} |-> IF j = i THEN row ELSE queue[j]]
    BY <1>1, CreateAdds
  <2>2. EntryOf(row) = "open"
    BY <2>1 DEF FreshRow, EntryOf
  <2>3. Entries' = [j \in DOMAIN queue \cup {i} |-> IF j = i THEN "open" ELSE Entries[j]]
    BY <2>1, <2>2
  <2>4. Ledger!OpenEntry(i)
    BY <2>1, <2>3 DEF Ledger!OpenEntry
  <2> QED
    BY <2>4 DEF Ledger!Next
<1>2. ASSUME NEW i \in DOMAIN queue, Command(i)
      PROVE  [Ledger!Next]_Entries
  <2>1. PICK row : Rewrites(i, row) /\ Outcome(queue[i], row)
    BY <1>2, CommandRewrites
  <2>2. Entries[i] = "open" /\ EntryOf(row) \in VideoId \cup {"open", "dropped"}
    BY <2>1, OutcomeEntry DEF TypeOK
  <2>3. Entries' = [Entries EXCEPT ![i] = EntryOf(row)]
    BY <2>1 DEF Rewrites
  <2>4. CASE EntryOf(row) \in VideoId
    <3>1. Ledger!Publish(i, EntryOf(row))
      BY <2>2, <2>3 DEF Ledger!Publish
    <3> QED
      BY <2>4, <3>1 DEF Ledger!Next
  <2>5. CASE EntryOf(row) = "open"
    BY <2>2, <2>3, <2>5
  <2>6. CASE EntryOf(row) = "dropped"
    <3>1. Ledger!Drop({i})
      BY <2>2, <2>3, <2>6 DEF Ledger!Drop
    <3> QED
      BY <3>1 DEF Ledger!Next
  <2> QED
    BY <2>2, <2>4, <2>5, <2>6
<1>3. CASE ResetItems
  <2>1. Entries' = Ledger!Empty
    BY <1>3 DEF ResetItems, NoItems, Ledger!Empty
  <2> QED
    BY <2>1 DEF Ledger!Next, Ledger!Clear
<1>4. CASE RecoverStartup
  <2> DEFINE lost == {i \in DOMAIN queue : queue'[i].state = "discarded"
                                            /\ queue[i].state = "uploading"}
  <2>1. DOMAIN queue' = DOMAIN queue
    BY <1>4 DEF RecoverStartup
  <2>2. ASSUME NEW i \in DOMAIN queue, queue[i].state = "uploading"
        PROVE  /\ EntryOf(queue[i]) = "open"
               /\ EntryOf(queue'[i]) = IF i \in lost THEN "dropped" ELSE "open"
    <3>1. queue[i].youtube_video_id = NoVideoId /\ queue[i] \in QueueItem
      BY <2>2 DEF MarkedIffUploaded, TypeOK
    <3>2. queue'[i].state = RecoveredState(queue[i])
      BY <1>4, <2>2, <3>1 DEF RecoverStartup, QueueItem
    <3>3. RecoveredState(queue[i]) \in {"discarded", "need_manual_review"}
      BY <3>1 DEF RecoveredState
    <3> QED
      BY <2>2, <3>2, <3>3 DEF EntryOf
  <2>3. ASSUME NEW i \in DOMAIN queue, queue[i].state # "uploading"
        PROVE  queue'[i] = queue[i] /\ i \notin lost
    BY <1>4, <2>3 DEF RecoverStartup
  <2>4. Entries' = [i \in DOMAIN Entries |-> IF i \in lost THEN "dropped" ELSE Entries[i]]
    BY <2>1, <2>2, <2>3
  <2>5. lost \in SUBSET DOMAIN Entries /\ \A i \in lost : Entries[i] = "open"
    BY <2>2
  <2>6. Ledger!Drop(lost)
    BY <2>4, <2>5 DEF Ledger!Drop
  <2> QED
    BY <2>5, <2>6 DEF Ledger!Next
<1>5. CASE FileChange \/ UNCHANGED vars
  BY <1>5 DEF FileChange, vars
<1> QED
  BY <1>1, <1>2, <1>3, <1>4, <1>5 DEF Next

\* The queue is a write-once ledger: an item is opened once, settled at most
\* once with the video that YouTube holds for it or as dropped, and only
\* POST /queue/reset takes a settled item away.
THEOREM LedgerKept == Spec => KeepsLedger
<1>1. Init => Ledger!Init
  BY DEF Init, NoItems, Ledger!Init, Ledger!Empty
<1>2. TypeOK /\ MarkedIffUploaded /\ [Next]_vars => [Ledger!Next]_Entries
  BY LedgerStep
<1> QED
  BY <1>1, <1>2, TypeCorrect, MarkedCorrect, PTL DEF Spec, KeepsLedger, Ledger!Spec, Entries


-----------------------------------------------------------------------------
(***************************************************************************)
(* The effect of an operation, as far as it matters to the Worker: which   *)
(* rows there are, of which matches, and in which states.                  *)
(***************************************************************************)

\* One row changes its state.
Moves(i, state) ==
    /\ i \in DOMAIN queue
    /\ DOMAIN queue' = DOMAIN queue
    /\ queue'[i].state = state
    /\ \A j \in DOMAIN queue : /\ queue'[j].match_id = queue[j].match_id
                               /\ j # i => queue'[j].state = queue[j].state

LEMMA CommandMoves ==
    ASSUME TypeOK, NEW i, NEW videoId, NEW limit
    PROVE  /\ StartUpload(i) => Moves(i, "uploading")
           /\ MarkUploaded(i, videoId) => Moves(i, "uploaded")
           /\ MarkUploadFailed(i, limit) =>
                 Moves(i, "upload_failed") \/ Moves(i, "need_manual_review")
           /\ MarkQuotaWaiting(i) => Moves(i, "quota_waiting")
           /\ MarkNeedManualReview(i) => Moves(i, "need_manual_review")
           /\ Retry(i) => Moves(i, "ready_upload")
           /\ Discard(i) => Moves(i, "discarded")
<1>1. ASSUME NEW state, RequireState(i, QUEUE_STATES), MoveTo(i, state)
      PROVE  Moves(i, state)
  BY <1>1 DEF RequireState, MoveTo, UpdateItem, Moves, TypeOK, QueueItem
<1>2. ASSUME MarkUploaded(i, videoId)
      PROVE  Moves(i, "uploaded")
  BY <1>2 DEF MarkUploaded, RequireState, UpdateItem, Moves, TypeOK, QueueItem
<1>3. ASSUME MarkUploadFailed(i, limit)
      PROVE  Moves(i, "upload_failed") \/ Moves(i, "need_manual_review")
  BY <1>3 DEF MarkUploadFailed, FailedState, RequireState, UpdateItem, Moves, TypeOK, QueueItem
<1> QED
  BY <1>1, <1>2, <1>3 DEF StartUpload, MarkQuotaWaiting, MarkNeedManualReview, Retry, Discard,
     RequireState, RESUMABLE_STATES, OPEN_STATES, QUEUE_STATES

\* A row is added, of a match that had none.
Adds(match) ==
    \E i \in ItemId \ DOMAIN queue :
        /\ DOMAIN queue' = DOMAIN queue \cup {i}
        /\ queue'[i].match_id = match /\ queue'[i].state = "ready_upload"
        /\ \A j \in DOMAIN queue : queue'[j] = queue[j] /\ queue[j].match_id # match

\* No row stays in "uploading", and none becomes workable.
Recovers ==
    /\ DOMAIN queue' = DOMAIN queue
    /\ \A i \in DOMAIN queue :
          /\ queue'[i].match_id = queue[i].match_id
          /\ IF queue[i].state = "uploading"
             THEN queue'[i].state \in {"uploaded", "discarded", "need_manual_review"}
             ELSE queue'[i].state = queue[i].state

LEMMA HandoffAdds ==
    ASSUME NEW match, NEW video, GetOrCreateReadyItemForMatch(match, video)
    PROVE  Adds(match)
BY DEF GetOrCreateReadyItemForMatch, Insert, IsNextId, ItemId, Adds

LEMMA RecoveryRecovers ==
    ASSUME TypeOK, RecoverStartup
    PROVE  Recovers
<1>1. \A row : RecoveredState(row) \in {"uploaded", "discarded", "need_manual_review"}
  BY DEF RecoveredState
<1> QED
  BY <1>1 DEF RecoverStartup, Recovers, TypeOK, QueueItem

-----------------------------------------------------------------------------
(***************************************************************************)
(* Every step of the Worker is a step of the queue, or none.               *)
(***************************************************************************)

LEMMA WorkerQueueStep ==
    ASSUME [WorkerNext]_workerVars
    PROVE  [Next]_vars
<1> USE DEF vars
<1>1. ASSUME NEW match \in Match, NEW video \in Video, Handoff(match, video)
      PROVE  Next
  BY <1>1 DEF Handoff, Next, Create
<1>2. ASSUME NEW i \in DOMAIN queue, ProcessItem(i)
      PROVE  Next
  BY <1>2 DEF ProcessItem, DiscardMissing, BeginUpload, Next, Command
<1>3. CASE ProcessNext
  BY <1>2, <1>3 DEF ProcessNext
<1>4. ASSUME NEW i \in DOMAIN queue, OperatorRetry(i)
      PROVE  Next
  BY <1>4 DEF OperatorRetry, Next, Command
<1>5. ASSUME NEW i \in DOMAIN queue, OperatorDiscard(i)
      PROVE  Next
  BY <1>5 DEF OperatorDiscard, Next, Command
<1>6. ASSUME NEW i \in DOMAIN queue, OperatorMarkUploaded(i)
      PROVE  Next
  BY <1>6 DEF OperatorMarkUploaded, Next, Command
<1>7. CASE YouTubeAccepts \/ EndRejected \/ Crash
  BY <1>7 DEF YouTubeAccepts, EndRejected, Crash
<1>8. CASE EndSuccess
  BY <1>8 DEF EndSuccess, Settle, RequireState, Next, Command
<1>9. CASE EndNetworkError
  BY <1>9 DEF EndNetworkError, Settle, RequireState, Next, Command
<1>10. CASE EndQuotaExceeded
  BY <1>10 DEF EndQuotaExceeded, Settle, RequireState, Next, Command
<1>11. CASE EndAmbiguous
  BY <1>11 DEF EndAmbiguous, Settle, RequireState, Next, Command
<1>12. CASE Reset
  BY <1>12 DEF Reset, Next
<1>13. CASE Restart
  BY <1>13 DEF Restart, Next
<1>14. CASE StartBeside
  BY <1>14 DEF StartBeside, Next
<1>15. CASE WorkerFileChange
  BY <1>15 DEF WorkerFileChange, Next
<1>16. CASE UNCHANGED workerVars
  BY <1>16 DEF workerVars
<1> QED
  BY <1>1, <1>2, <1>3, <1>4, <1>5, <1>6, <1>7, <1>8, <1>9, <1>10, <1>11, <1>12,
     <1>13, <1>14, <1>15, <1>16 DEF WorkerNext, EndUpload

\* The Worker implements the queue: through an upload, its outcome for a row
\* that may be gone, a reset beside it, crashes, restarts and second starts,
\* every step is one operation of QueueStore, or none.
THEOREM WorkerImplementsQueue == WorkerSpec => KeepsQueue
<1>1. WorkerInit => Init
  BY DEF WorkerInit
<1>2. [WorkerNext]_workerVars => [Next]_vars
  BY WorkerQueueStep
<1> QED
  BY <1>1, <1>2, PTL DEF WorkerSpec, KeepsQueue, Spec

\* So its rows keep what the queue promises of them.
THEOREM WorkerKeepsRows ==
    WorkerSpec => /\ [](MarkedIffUploaded /\ FailedWithinBudget)
                  /\ TerminalIsFinal
                  /\ NoBlindRequeue
                  /\ KeepsLedger
<1>1. WorkerInit => Init
  BY DEF WorkerInit
<1>2. [WorkerNext]_workerVars => [Next]_vars
  BY WorkerQueueStep
<1> QED
  BY <1>1, <1>2, MarkedCorrect, BudgetCorrect, TerminalCorrect, RequeueCorrect, LedgerKept, PTL
     DEF WorkerSpec, Spec

-----------------------------------------------------------------------------
(***************************************************************************)
(* The invariant of the Worker.                                            *)
(***************************************************************************)

\* The states of a row that is not uploaded unless the operator asks for it.
Settled == {"uploading", "uploaded", "discarded", "need_manual_review"}

\* Every row is of a match.
RowsHaveMatch == \A i \in DOMAIN queue : queue[i].match_id \in Match

\* The row of the upload in progress is still its row and was not put back,
\* unless the queue was reset meanwhile.
CallKeepsItem ==
    call.phase # "none" =>
        IF call.item \in DOMAIN queue
        THEN queue[call.item].match_id = call.match /\ queue[call.item].state \in Settled
        ELSE call.match \in forgotten

\* A match on YouTube that must not be sent again has a row that is not.
PublishedIsKept ==
    \A match \in published \ (excused \cup forgotten) :
        \E i \in DOMAIN queue : queue[i].match_id = match /\ queue[i].state \in Settled

Matches == RowsHaveMatch /\ HandoffIdempotent

WorkerInv ==
    /\ WorkerTypeOK
    /\ Matches
    /\ CallKeepsItem
    /\ PublishedIsKept
    /\ NoBlindReupload
    /\ UploadingIsInFlight

\* What the Worker may be calling YouTube for.
LEMMA CallCases ==
    ASSUME WorkerTypeOK
    PROVE  /\ call.phase \in {"none", "sent", "accepted"}
           /\ call.phase = "none" => call = NoCall
           /\ call.phase # "none" => /\ up
                                     /\ call.item \in ItemId /\ call.match \in Match
                                     /\ call = [phase |-> call.phase, item |-> call.item, match |-> call.match]
           /\ NoCall.phase = "none"
BY DEF WorkerTypeOK, NoCall

LEMMA WorkerInitInv ==
    ASSUME WorkerInit
    PROVE  WorkerInv
<1>1. queue = NoItems /\ TypeOK
  BY TypeInit DEF WorkerInit, Init
<1> QED
  BY <1>1
     DEF WorkerInit, NoCall, NoItems, WorkerInv, WorkerTypeOK, Matches, RowsHaveMatch,
         CallKeepsItem, PublishedIsKept, NoBlindReupload, HandoffIdempotent,
         UploadingIsInFlight

LEMMA HandoffKeeps ==
    ASSUME WorkerInv, TypeOK', NEW match \in Match, NEW video \in Video,
           Handoff(match, video)
    PROVE  WorkerInv'
<1>1. Adds(match) /\ call = NoCall /\ up
  BY HandoffAdds DEF Handoff, LoopIdle
<1>2. call.phase = "none"
  BY <1>1, CallCases DEF WorkerInv
<1>3. UNCHANGED <<up, call, published, excused, forgotten, stranded>>
  BY DEF Handoff, history
<1> USE DEF WorkerInv
<1>4. WorkerTypeOK'
  BY <1>3 DEF WorkerTypeOK
<1>5. Matches'
  BY <1>1 DEF Adds, Matches, RowsHaveMatch, HandoffIdempotent
<1>6. PublishedIsKept'
  BY <1>1, <1>3 DEF Adds, PublishedIsKept
<1>7. UploadingIsInFlight'
  BY <1>1, <1>3 DEF Adds, UploadingIsInFlight
<1>8. CallKeepsItem' /\ NoBlindReupload'
  BY <1>2, <1>3 DEF CallKeepsItem, NoBlindReupload
<1> QED
  BY <1>4, <1>5, <1>6, <1>7, <1>8

\* A row that moves keeps its match, whatever becomes of its state.
LEMMA MoveKeepsMatches ==
    ASSUME Matches, NEW i, NEW state, Moves(i, state)
    PROVE  Matches'
BY DEF Moves, Matches, RowsHaveMatch, HandoffIdempotent

LEMMA IdleMoveKeeps ==
    ASSUME WorkerInv, TypeOK', NEW i, NEW state \in {"uploaded", "discarded"},
           Moves(i, state), call = NoCall,
           UNCHANGED <<up, call, published, excused, forgotten, stranded>>
    PROVE  WorkerInv'
<1> USE DEF WorkerInv
<1>1. call.phase = "none"
  BY CallCases
<1>2. WorkerTypeOK'
  BY DEF WorkerTypeOK
<1>3. Matches'
  BY MoveKeepsMatches
<1>4. PublishedIsKept'
  BY DEF Moves, PublishedIsKept, Settled
<1>5. UploadingIsInFlight'
  BY DEF Moves, UploadingIsInFlight
<1>6. CallKeepsItem' /\ NoBlindReupload'
  BY <1>1 DEF CallKeepsItem, NoBlindReupload
<1> QED
  BY <1>2, <1>3, <1>4, <1>5, <1>6

LEMMA BeginUploadKeeps ==
    ASSUME WorkerInv, TypeOK, TypeOK', NEW i, BeginUpload(i)
    PROVE  WorkerInv'
<1>1. /\ Moves(i, "uploading") /\ call = NoCall /\ up
      /\ queue[i].state \in {"ready_upload", "upload_failed"}
      /\ call' = Sent(i, queue[i].match_id)
  BY CommandMoves
     DEF BeginUpload, Uploadable, LoopIdle, RequireState, RESUMABLE_STATES
<1>2. /\ call.phase = "none" /\ call'.phase = "sent"
      /\ call'.item = i /\ call'.match = queue[i].match_id
  BY <1>1, CallCases DEF WorkerInv, Sent
<1>3. UNCHANGED <<up, published, excused, forgotten, stranded>>
  BY DEF BeginUpload, history
<1> USE DEF WorkerInv
<1>4. WorkerTypeOK'
  <2>1. i \in ItemId /\ queue[i].match_id \in Match
    BY <1>1 DEF Moves, TypeOK, Matches, RowsHaveMatch
  <2> QED
    BY <1>1, <1>3, <2>1 DEF WorkerTypeOK, Sent
<1>5. Matches'
  BY <1>1, MoveKeepsMatches
<1>6. PublishedIsKept'
  BY <1>1, <1>3 DEF Moves, PublishedIsKept, Settled
<1>7. UploadingIsInFlight'
  BY <1>1, <1>2, <1>3 DEF Moves, UploadingIsInFlight
<1>8. CallKeepsItem'
  BY <1>1, <1>2 DEF Moves, CallKeepsItem, Settled
<1>9. NoBlindReupload'
  <2>1. queue[i].match_id \notin published \ (excused \cup forgotten)
    BY <1>1 DEF Moves, PublishedIsKept, Settled, Matches, HandoffIdempotent
  <2> QED
    BY <1>2, <1>3, <2>1 DEF NoBlindReupload
<1> QED
  BY <1>4, <1>5, <1>6, <1>7, <1>8, <1>9

LEMMA OperatorRetryKeeps ==
    ASSUME WorkerInv, TypeOK, TypeOK', NEW i, OperatorRetry(i)
    PROVE  WorkerInv'
<1>1. /\ Moves(i, "ready_upload") /\ call = NoCall
      /\ queue[i].state \in {"upload_failed", "quota_waiting", "need_manual_review"}
  BY CommandMoves DEF OperatorRetry, LoopIdle, Retry, RequireState
<1>2. call.phase = "none"
  BY <1>1, CallCases DEF WorkerInv
<1>3. /\ UNCHANGED <<up, call, published, forgotten, stranded>>
      /\ excused' = IF queue[i].state = "need_manual_review"
                    THEN excused \cup {queue[i].match_id} ELSE excused
  BY DEF OperatorRetry
<1> USE DEF WorkerInv
<1>4. WorkerTypeOK'
  BY <1>1, <1>3 DEF WorkerTypeOK, Moves, Matches, RowsHaveMatch
<1>5. Matches'
  BY <1>1, MoveKeepsMatches
<1>6. PublishedIsKept'
  BY <1>1, <1>3 DEF Moves, PublishedIsKept, Settled
<1>7. UploadingIsInFlight'
  BY <1>1, <1>3 DEF Moves, UploadingIsInFlight
<1>8. CallKeepsItem' /\ NoBlindReupload'
  BY <1>2, <1>3 DEF CallKeepsItem, NoBlindReupload
<1> QED
  BY <1>4, <1>5, <1>6, <1>7, <1>8

\* What is left of the invariant when a call to YouTube ends: the row must leave
\* "uploading", and must not become workable if the match must not be sent.
LEMMA EndKeeps ==
    ASSUME WorkerInv, TypeOK', call.phase # "none", call' = NoCall,
           UNCHANGED <<up, published, forgotten>>,
           excused' \in {excused, excused \cup {call.match}},
           stranded' \in {stranded, stranded \cup {call.item}},
           \/ \E state \in QUEUE_STATES \ {"uploading"} :
                 /\ Moves(call.item, state)
                 /\ state \in Settled \/ call.match \notin published \ (excused' \cup forgotten)
           \/ /\ UNCHANGED queue
              /\ ~RequireState(call.item, {"uploading"}) \/ call.item \in stranded'
    PROVE  WorkerInv'
<1> USE DEF WorkerInv
<1>1. call'.phase = "none" /\ call.item \in ItemId /\ call.match \in Match /\ up
  BY CallCases
<1>2. WorkerTypeOK'
  BY <1>1 DEF WorkerTypeOK
<1>3. Matches'
  BY MoveKeepsMatches DEF Matches, RowsHaveMatch, HandoffIdempotent
<1>4. PublishedIsKept'
  BY DEF Moves, PublishedIsKept, CallKeepsItem
<1>5. UploadingIsInFlight'
  BY <1>1 DEF Moves, RequireState, UploadingIsInFlight
<1>6. CallKeepsItem' /\ NoBlindReupload'
  BY <1>1 DEF CallKeepsItem, NoBlindReupload
<1> QED
  BY <1>2, <1>3, <1>4, <1>5, <1>6

LEMMA EndUploadKeeps ==
    ASSUME WorkerInv, TypeOK, TypeOK', EndUpload
    PROVE  WorkerInv'
<1> USE CommandMoves DEF Settle, history
<1>1. CASE EndSuccess
  <2>1. \/ Moves(call.item, "uploaded")
        \/ UNCHANGED queue /\ ~RequireState(call.item, {"uploading"})
    BY <1>1 DEF EndSuccess, RequireState
  <2> QED
    BY <1>1, <2>1, EndKeeps DEF EndSuccess, Settled, QUEUE_STATES
<1>2. CASE EndNetworkError
  <2>1. \/ Moves(call.item, "upload_failed")
        \/ Moves(call.item, "need_manual_review")
        \/ UNCHANGED queue /\ ~RequireState(call.item, {"uploading"})
    BY <1>2 DEF EndNetworkError, RequireState
  <2>2. call.match \notin published \ (excused' \cup forgotten)
    BY <1>2, CallCases DEF EndNetworkError, WorkerInv, NoBlindReupload
  <2> QED
    BY <1>2, <2>1, <2>2, EndKeeps DEF EndNetworkError, QUEUE_STATES
<1>3. CASE EndQuotaExceeded
  <2>1. \/ Moves(call.item, "quota_waiting")
        \/ UNCHANGED queue /\ ~RequireState(call.item, {"uploading"})
    BY <1>3 DEF EndQuotaExceeded, RequireState
  <2>2. call.match \notin published \ (excused' \cup forgotten)
    BY <1>3 DEF EndQuotaExceeded, WorkerInv, NoBlindReupload
  <2> QED
    BY <1>3, <2>1, <2>2, EndKeeps DEF EndQuotaExceeded, QUEUE_STATES
<1>4. CASE EndAmbiguous
  <2>1. \/ Moves(call.item, "need_manual_review")
        \/ UNCHANGED queue /\ ~RequireState(call.item, {"uploading"})
    BY <1>4 DEF EndAmbiguous, RequireState, OPEN_STATES, QUEUE_STATES, TERMINAL_STATES
  <2> QED
    BY <1>4, <2>1, EndKeeps DEF EndAmbiguous, Settled, QUEUE_STATES
<1>5. CASE EndRejected
  BY <1>5, EndKeeps DEF EndRejected
<1> QED
  BY <1>1, <1>2, <1>3, <1>4, <1>5 DEF EndUpload

\* An upload that is published may not be repeated without a reason.
LEMMA YouTubeAcceptsKeeps ==
    ASSUME WorkerInv, TypeOK', YouTubeAccepts
    PROVE  WorkerInv'
<1> USE DEF WorkerInv
<1>1. /\ call.phase = "sent" /\ call.item \in ItemId /\ call.match \in Match /\ up
      /\ call' = [phase |-> "accepted", item |-> call.item, match |-> call.match]
  BY CallCases DEF YouTubeAccepts
<1>2. /\ UNCHANGED <<queue, files, up, forgotten, stranded>>
      /\ published' = published \cup {call.match}
      /\ excused' = excused \ {call.match}
  BY DEF YouTubeAccepts
<1>3. WorkerTypeOK'
  BY <1>1, <1>2 DEF WorkerTypeOK
<1>4. Matches'
  BY <1>2 DEF Matches, RowsHaveMatch, HandoffIdempotent
<1>5. CallKeepsItem'
  BY <1>1, <1>2 DEF CallKeepsItem
<1>6. PublishedIsKept'
  BY <1>1, <1>2 DEF PublishedIsKept, CallKeepsItem
<1>7. UploadingIsInFlight'
  BY <1>1, <1>2 DEF UploadingIsInFlight
<1>8. NoBlindReupload'
  BY <1>1 DEF NoBlindReupload
<1> QED
  BY <1>3, <1>4, <1>5, <1>6, <1>7, <1>8

LEMMA ResetKeeps ==
    ASSUME WorkerInv, TypeOK', Reset
    PROVE  WorkerInv'
<1> USE DEF WorkerInv
<1>1. /\ UNCHANGED <<up, call, published, excused>> /\ up
      /\ forgotten' = forgotten \cup ({queue[i].match_id : i \in DOMAIN queue} \ {NoMatch})
      /\ stranded' = {}
  BY DEF Reset
<1>2. DOMAIN queue' = {}
  BY DEF Reset, ResetItems, NoItems
<1>3. {queue[i].match_id : i \in DOMAIN queue} \ {NoMatch} = {queue[i].match_id : i \in DOMAIN queue}
  BY ConstantsAssumption DEF Matches, RowsHaveMatch
<1>4. WorkerTypeOK'
  BY <1>1, <1>3 DEF WorkerTypeOK, Matches, RowsHaveMatch
<1>5. Matches' /\ UploadingIsInFlight'
  BY <1>2 DEF Matches, RowsHaveMatch, HandoffIdempotent, UploadingIsInFlight
<1>6. CallKeepsItem'
  BY <1>1, <1>2, <1>3 DEF CallKeepsItem
<1>7. PublishedIsKept'
  BY <1>1, <1>3 DEF PublishedIsKept
<1>8. NoBlindReupload'
  BY <1>1 DEF NoBlindReupload
<1> QED
  BY <1>4, <1>5, <1>6, <1>7, <1>8

LEMMA CrashKeeps ==
    ASSUME WorkerInv, TypeOK', Crash
    PROVE  WorkerInv'
<1> USE DEF WorkerInv
<1>1. /\ UNCHANGED <<queue, files, forgotten, stranded>> /\ ~up' /\ call' = NoCall
      /\ \/ UNCHANGED <<published, excused>>
         \/ /\ call.phase = "sent"
            /\ published' = published \cup {call.match}
            /\ excused' = excused \ {call.match}
  BY DEF Crash, history, WorkerTypeOK
<1>2. call'.phase = "none"
  BY <1>1, CallCases
<1>3. WorkerTypeOK'
  BY <1>1, CallCases DEF WorkerTypeOK, Crash
<1>4. Matches'
  BY <1>1 DEF Matches, RowsHaveMatch, HandoffIdempotent
<1>5. PublishedIsKept'
  BY <1>1 DEF PublishedIsKept, CallKeepsItem
<1>6. CallKeepsItem' /\ NoBlindReupload' /\ UploadingIsInFlight'
  BY <1>1, <1>2 DEF CallKeepsItem, NoBlindReupload, UploadingIsInFlight
<1> QED
  BY <1>3, <1>4, <1>5, <1>6

\* A recovery, by the Worker that starts or by another process beside it.
LEMMA RecoveryKeeps ==
    ASSUME WorkerInv, TypeOK, TypeOK', Restart \/ StartBeside
    PROVE  WorkerInv'
<1> USE DEF WorkerInv
<1>1. Recovers
  BY RecoveryRecovers DEF Restart, StartBeside
<1>2. /\ UNCHANGED <<call, published, excused, forgotten>> /\ up'
      /\ stranded' \in {stranded, {}}
  BY DEF Restart, StartBeside, history
<1>3. WorkerTypeOK'
  BY <1>2 DEF WorkerTypeOK
<1>4. Matches'
  BY <1>1 DEF Recovers, Matches, RowsHaveMatch, HandoffIdempotent
<1>5. CallKeepsItem'
  BY <1>1, <1>2 DEF Recovers, CallKeepsItem, Settled
<1>6. PublishedIsKept'
  BY <1>1, <1>2 DEF Recovers, PublishedIsKept, Settled
<1>7. NoBlindReupload'
  BY <1>2 DEF NoBlindReupload
<1>8. UploadingIsInFlight'
  BY <1>1 DEF Recovers, UploadingIsInFlight
<1> QED
  BY <1>3, <1>4, <1>5, <1>6, <1>7, <1>8

\* Every step preserves the invariant.
LEMMA WorkerInvNext ==
    ASSUME WorkerInv, [WorkerNext]_workerVars
    PROVE  WorkerInv'
<1>1. TypeOK /\ TypeOK'
  <2>1. TypeOK
    BY DEF WorkerInv, WorkerTypeOK
  <2> QED
    BY <2>1, WorkerQueueStep, TypeStep
<1>2. ASSUME NEW i, ProcessItem(i)
      PROVE  WorkerInv'
  <2>1. CASE DiscardMissing(i)
    BY <1>1, <2>1, IdleMoveKeeps, CommandMoves
       DEF DiscardMissing, Uploadable, LoopIdle, history
  <2> QED
    BY <1>1, <1>2, <2>1, BeginUploadKeeps DEF ProcessItem
<1>3. ASSUME NEW i, OperatorDiscard(i) \/ OperatorMarkUploaded(i)
      PROVE  WorkerInv'
  BY <1>1, <1>3, IdleMoveKeeps, CommandMoves
     DEF OperatorDiscard, OperatorMarkUploaded, LoopIdle, history
<1>4. CASE ProcessNext
  BY <1>2, <1>4 DEF ProcessNext
<1>5. CASE WorkerFileChange \/ UNCHANGED workerVars
  <2>1. UNCHANGED <<queue, up, call, published, excused, forgotten, stranded>>
    BY <1>5 DEF WorkerFileChange, FileChange, workerVars, vars, history
  <2> QED
    BY <1>1, <2>1
       DEF WorkerInv, WorkerTypeOK, Matches, RowsHaveMatch, CallKeepsItem, PublishedIsKept,
           NoBlindReupload, HandoffIdempotent, UploadingIsInFlight
<1> QED
  BY <1>1, <1>2, <1>3, <1>4, <1>5, HandoffKeeps, OperatorRetryKeeps, EndUploadKeeps,
     YouTubeAcceptsKeeps, ResetKeeps, CrashKeeps, RecoveryKeeps DEF WorkerNext

\* The invariant holds throughout.
THEOREM WorkerInvariant == WorkerSpec => []WorkerInv
<1>1. WorkerInit => WorkerInv
  BY WorkerInitInv
<1>2. WorkerInv /\ [WorkerNext]_workerVars => WorkerInv'
  BY WorkerInvNext
<1> QED
  BY <1>1, <1>2, PTL DEF WorkerSpec

\* Calls, copies and histories of the Worker stay well-formed.
THEOREM WorkerTypeCorrect == WorkerSpec => []WorkerTypeOK
<1>1. WorkerInv => WorkerTypeOK
  BY DEF WorkerInv
<1> QED
  BY <1>1, WorkerInvariant, PTL

\* Nothing that is on YouTube is sent again unless the operator accepted it,
\* an answer was lost or the queue was reset.
THEOREM ReuploadCorrect == WorkerSpec => []NoBlindReupload
<1>1. WorkerInv => NoBlindReupload
  BY DEF WorkerInv
<1> QED
  BY <1>1, WorkerInvariant, PTL

\* The outcome of an upload reaches the row of its match or none.
THEOREM OutcomeCorrect == WorkerSpec => []OutcomeReachesItsItem
<1>1. WorkerInv => OutcomeReachesItsItem
  BY DEF WorkerInv, CallKeepsItem, Settled, RESUMABLE_STATES, OutcomeReachesItsItem
<1> QED
  BY <1>1, WorkerInvariant, PTL

\* A match has at most one row.
THEOREM HandoffCorrect == WorkerSpec => []HandoffIdempotent
<1>1. WorkerInv => HandoffIdempotent
  BY DEF WorkerInv, Matches
<1> QED
  BY <1>1, WorkerInvariant, PTL

\* While the Worker serves, a row in "uploading" is being uploaded or its
\* request was rejected too late.
THEOREM InFlightCorrect == WorkerSpec => []UploadingIsInFlight
<1>1. WorkerInv => UploadingIsInFlight
  BY DEF WorkerInv
<1> QED
  BY <1>1, WorkerInvariant, PTL

-----------------------------------------------------------------------------
(***************************************************************************)
(* The transactions: what they call Queue is the queue, too.               *)
(***************************************************************************)

LEMMA TransactionsUpdates ==
    /\ Transactions!Queue!RESUMABLE_STATES = RESUMABLE_STATES
    /\ Transactions!Queue!OPEN_STATES = OPEN_STATES
    /\ \A i, allowed : Transactions!Queue!RequireState(i, allowed) <=> RequireState(i, allowed)
    /\ \A i, row : Transactions!Queue!UpdateItem(i, row) <=> UpdateItem(i, row)
    /\ \A i, state : Transactions!Queue!MoveTo(i, state) <=> MoveTo(i, state)
    /\ \A row, limit : Transactions!Queue!FailedState(row, limit) = FailedState(row, limit)
    /\ \A row : Transactions!Queue!RecoveredState(row) = RecoveredState(row)
BY DEF Transactions!Queue!RESUMABLE_STATES, RESUMABLE_STATES, Transactions!Queue!OPEN_STATES,
       OPEN_STATES,
       Transactions!Queue!QUEUE_STATES, QUEUE_STATES, Transactions!Queue!TERMINAL_STATES,
       TERMINAL_STATES,
       Transactions!Queue!RequireState, RequireState, Transactions!Queue!UpdateItem, UpdateItem,
       Transactions!Queue!MoveTo, MoveTo, Transactions!Queue!FailedState, FailedState,
       Transactions!Queue!RecoveredState, RecoveredState,
       Transactions!Queue!LocalVideoMissing, LocalVideoMissing

LEMMA TransactionsCommands == \A i : Transactions!Queue!Command(i) <=> Command(i)
BY TransactionsUpdates
   DEF Transactions!Queue!Command, Command, Transactions!Queue!StartUpload, StartUpload,
       Transactions!Queue!MarkUploaded, MarkUploaded, Transactions!Queue!MarkUploadFailed,
       MarkUploadFailed,
       Transactions!Queue!MarkQuotaWaiting, MarkQuotaWaiting,
       Transactions!Queue!MarkNeedManualReview, MarkNeedManualReview,
       Transactions!Queue!Retry, Retry, Transactions!Queue!Discard, Discard

LEMMA TransactionsRows ==
    /\ Transactions!Queue!Init <=> Init
    /\ Transactions!Queue!ResetItems <=> ResetItems
    /\ Transactions!Queue!RecoverStartup <=> RecoverStartup
    /\ Transactions!Queue!FileChange <=> FileChange
    /\ Transactions!Queue!Create <=> Create
BY TransactionsUpdates
   DEF Transactions!Queue!Init, Init, Transactions!Queue!NoItems, NoItems,
       Transactions!Queue!ResetItems, ResetItems, Transactions!Queue!RecoverStartup, RecoverStartup,
       Transactions!Queue!FileChange, FileChange, Transactions!Queue!Create, Create,
       Transactions!Queue!CreateItem, CreateItem,
       Transactions!Queue!GetOrCreateReadyItemForMatch, GetOrCreateReadyItemForMatch,
       Transactions!Queue!Insert, Insert, Transactions!Queue!IsNextId, IsNextId,
       Transactions!Queue!ItemId, ItemId

\* So the two have the same steps.
LEMMA TransactionsNext == [Transactions!Queue!Next]_Transactions!Queue!vars <=> [Next]_vars
BY TransactionsCommands, TransactionsRows
   DEF Transactions!Queue!Next, Next, Transactions!Queue!vars, vars

-----------------------------------------------------------------------------
(***************************************************************************)
(* What a command decided still fits the row when it is written: the row   *)
(* is as it was read, or gone.                                             *)
(***************************************************************************)

\* Some command decides these columns for row i as it is.
Decided(i, columns) ==
    \/ RequireState(i, RESUMABLE_STATES) /\ columns = [state |-> "uploading"]
    \/ \E videoId \in VideoId :
          /\ RequireState(i, {"uploading", "need_manual_review"})
          /\ columns = [state |-> "uploaded", youtube_video_id |-> videoId]
    \/ \E limit \in RetryLimits \cup {queue[i].max_retries} :
          /\ RequireState(i, {"uploading", "ready_upload", "upload_failed"})
          /\ queue[i].retry_count < MaxRetryCount
          /\ columns = [state       |-> FailedState(queue[i], limit).state,
                        retry_count |-> FailedState(queue[i], limit).retry_count,
                        max_retries |-> FailedState(queue[i], limit).max_retries]
    \/ /\ RequireState(i, {"uploading", "ready_upload", "upload_failed"})
       /\ columns = [state |-> "quota_waiting"]
    \/ RequireState(i, OPEN_STATES) /\ columns = [state |-> "need_manual_review"]
    \/ /\ RequireState(i, {"upload_failed", "quota_waiting", "need_manual_review"})
       /\ columns = [state |-> "ready_upload"]
    \/ RequireState(i, OPEN_STATES) /\ columns = [state |-> "discarded"]

Column == {"match_id", "state", "video_path", "youtube_video_id", "retry_count", "max_retries"}

\* The columns written over a row, compared column by column with a row.
LEMMA MergedColumns ==
    ASSUME NEW row \in QueueItem, NEW columns, NEW new,
           new = [c \in Column |-> new[c]],
           \A c \in Column : new[c] = IF c \in DOMAIN columns THEN columns[c] ELSE row[c]
    PROVE  [c \in DOMAIN row |-> IF c \in DOMAIN columns THEN columns[c] ELSE row[c]] = new
<1>1. DOMAIN row = Column
  BY DEF QueueItem, Column
<1> QED
  BY <1>1

LEMMA MergedState ==
    ASSUME NEW row \in QueueItem, NEW state, NEW columns, columns = [state |-> state]
    PROVE  [c \in DOMAIN row |-> IF c \in DOMAIN columns THEN columns[c] ELSE row[c]]
               = [row EXCEPT !.state = state]
<1> DEFINE new == [row EXCEPT !.state = state]
<1>1. DOMAIN row = Column
  BY DEF QueueItem, Column
<1>2. DOMAIN columns = {"state"} /\ columns["state"] = state
  OBVIOUS
<1>3. new = [c \in Column |-> new[c]]
  BY <1>1, Zenon
<1>4. new["state"] = state /\ \A c \in Column \ {"state"} : new[c] = row[c]
  BY <1>1 DEF Column
<1> HIDE DEF new
<1>5. \A c \in Column : new[c] = IF c \in DOMAIN columns THEN columns[c] ELSE row[c]
  BY <1>2, <1>4
<1> QED
  BY <1>3, <1>5, MergedColumns DEF new

\* The row MarkUploaded leaves.
UploadedRow(row, videoId) ==
    [row EXCEPT !.state = "uploaded", !.youtube_video_id = videoId]

LEMMA MergedUpload ==
    ASSUME NEW row \in QueueItem, NEW videoId, NEW columns,
           columns = [state |-> "uploaded", youtube_video_id |-> videoId]
    PROVE  [c \in DOMAIN row |-> IF c \in DOMAIN columns THEN columns[c] ELSE row[c]]
               = UploadedRow(row, videoId)
<1> DEFINE new == UploadedRow(row, videoId)
<1>1. DOMAIN row = Column
  BY DEF QueueItem, Column
<1>2. /\ DOMAIN columns = {"state", "youtube_video_id"}
      /\ columns["state"] = "uploaded" /\ columns["youtube_video_id"] = videoId
  OBVIOUS
<1>3. new = [c \in Column |-> new[c]]
  BY <1>1, Zenon DEF UploadedRow
<1>4. /\ new["state"] = "uploaded" /\ new["youtube_video_id"] = videoId
      /\ \A c \in Column \ {"state", "youtube_video_id"} : new[c] = row[c]
  BY <1>1 DEF Column, UploadedRow
<1> HIDE DEF new
<1>5. \A c \in Column : new[c] = IF c \in DOMAIN columns THEN columns[c] ELSE row[c]
  BY <1>2, <1>4
<1> QED
  BY <1>3, <1>5, MergedColumns DEF new

LEMMA MergedFailure ==
    ASSUME NEW row \in QueueItem, NEW limit, NEW columns,
           columns = [state       |-> FailedState(row, limit).state,
                      retry_count |-> FailedState(row, limit).retry_count,
                      max_retries |-> FailedState(row, limit).max_retries]
    PROVE  [c \in DOMAIN row |-> IF c \in DOMAIN columns THEN columns[c] ELSE row[c]]
               = FailedState(row, limit)
<1> DEFINE new == FailedState(row, limit)
           written == {"state", "retry_count", "max_retries"}
<1>1. DOMAIN row = Column
  BY DEF QueueItem, Column
<1>2. /\ DOMAIN columns = written
      /\ columns["state"] = new.state
      /\ columns["retry_count"] = new.retry_count
      /\ columns["max_retries"] = new.max_retries
  OBVIOUS
<1>3. new = [c \in Column |-> new[c]]
  BY <1>1, Zenon DEF FailedState
<1>4. \A c \in Column \ written : new[c] = row[c]
  BY <1>1 DEF Column, FailedState
<1> HIDE DEF new
<1>5. \A c \in Column : new[c] = IF c \in DOMAIN columns THEN columns[c] ELSE row[c]
  BY <1>2, <1>4
<1> QED
  BY <1>3, <1>5, MergedColumns DEF new

\* Writing what was decided is the command as one step.
LEMMA WriteIsCommand ==
    ASSUME TypeOK, NEW i \in DOMAIN queue, NEW columns, Decided(i, columns),
           Transactions!UpdateColumns(i, columns), UNCHANGED files
    PROVE  Command(i)
<1> DEFINE merged == [c \in DOMAIN queue[i] |->
                         IF c \in DOMAIN columns THEN columns[c] ELSE queue[i][c]]
<1>1. queue[i] \in QueueItem
  BY DEF TypeOK
<1>2. queue' = [queue EXCEPT ![i] = merged]
  BY DEF Transactions!UpdateColumns
<1>3. UpdateItem(i, merged)
  BY <1>2 DEF UpdateItem
<1> HIDE DEF merged
<1>4. ASSUME NEW state, columns = [state |-> state]
      PROVE  MoveTo(i, state)
  BY <1>1, <1>3, <1>4, MergedState DEF MoveTo, merged
<1>5. ASSUME NEW videoId \in VideoId, RequireState(i, {"uploading", "need_manual_review"}),
             columns = [state |-> "uploaded", youtube_video_id |-> videoId]
      PROVE  MarkUploaded(i, videoId)
  <2>1. merged = UploadedRow(queue[i], videoId)
    BY <1>1, <1>5, MergedUpload DEF merged
  <2> QED
    BY <1>3, <1>5, <2>1 DEF MarkUploaded, UploadedRow
<1>6. ASSUME NEW limit, RequireState(i, {"uploading", "ready_upload", "upload_failed"}),
             queue[i].retry_count < MaxRetryCount,
             columns = [state       |-> FailedState(queue[i], limit).state,
                        retry_count |-> FailedState(queue[i], limit).retry_count,
                        max_retries |-> FailedState(queue[i], limit).max_retries]
      PROVE  MarkUploadFailed(i, limit)
  BY <1>1, <1>3, <1>6, MergedFailure DEF MarkUploadFailed, merged
<1> QED
  BY <1>4, <1>5, <1>6
     DEF Decided, Command, StartUpload, MarkQuotaWaiting, MarkNeedManualReview, Retry, Discard

-----------------------------------------------------------------------------
(***************************************************************************)
(* One process at a time.                                                  *)
(***************************************************************************)

UploadingRows == [i \in {j \in DOMAIN queue : queue[j].state = "uploading"} |-> queue[i]]

\* The command that is under way fits its row, or its row is gone.
CommandFits ==
    \E i, columns : /\ loop = Transactions!Writing(i, columns)
                    /\ i \in DOMAIN queue => Decided(i, columns)

\* A recovery meets the rows it scanned, because no Worker is at work.
TransactionsInv ==
    /\ TypeOK
    /\ loop \in {Transactions!Down, Transactions!Idle} \/ CommandFits
    /\ starting # Transactions!NotStarting => loop = Transactions!Down
    /\ starting \in {Transactions!NotStarting, Transactions!Recovered,
                    Transactions!Scanned(UploadingRows)}
    /\ starting = Transactions!Recovered =>
          \A i \in DOMAIN queue : queue[i].state # "uploading"

LEMMA Phases ==
    /\ Transactions!Down.phase = "down" /\ Transactions!Idle.phase = "idle"
    /\ Transactions!NotStarting.phase = "none" /\ Transactions!Recovered.phase = "recovered"
    /\ \A rows : /\ Transactions!Scanned(rows).phase = "scanned"
                 /\ Transactions!Scanned(rows).rows = rows
    /\ \A i, columns : /\ Transactions!Writing(i, columns).phase = "writing"
                       /\ Transactions!Writing(i, columns).item = i
                       /\ Transactions!Writing(i, columns).columns = columns
BY DEF Transactions!Down, Transactions!Idle, Transactions!NotStarting, Transactions!Recovered,
       Transactions!Scanned, Transactions!Writing

\* A command decides for the row as it is.
LEMMA CommandDecides ==
    ASSUME NEW i \in DOMAIN queue, Transactions!Command(i)
    PROVE  /\ loop = Transactions!Idle /\ UNCHANGED <<queue, files, starting>>
           /\ \E columns : loop' = Transactions!Writing(i, columns) /\ Decided(i, columns)
BY TransactionsUpdates
   DEF Transactions!Command, Transactions!StartUpload, Transactions!MarkUploaded,
       Transactions!MarkUploadFailed, Transactions!MarkQuotaWaiting,
       Transactions!MarkNeedManualReview, Transactions!Retry, Transactions!Discard,
       Transactions!Decide, Decided

\* Every step is a step of the queue, or none.
LEMMA TransactionsQueueStep ==
    ASSUME TransactionsInv, [Transactions!Next]_Transactions!vars
    PROVE  [Next]_vars
<1>1. CASE Transactions!Write
  <2>1. PICK i, columns : /\ loop = Transactions!Writing(i, columns)
                          /\ i \in DOMAIN queue => Decided(i, columns)
    BY <1>1, Phases DEF TransactionsInv, CommandFits, Transactions!Write
  <2>2. Transactions!UpdateColumns(i, columns) /\ UNCHANGED files
    BY <1>1, <2>1, Phases DEF Transactions!Write
  <2>3. CASE i \in DOMAIN queue
    BY <2>1, <2>2, <2>3, WriteIsCommand DEF TransactionsInv, Next
  <2>4. CASE i \notin DOMAIN queue
    BY <2>2, <2>4 DEF Transactions!UpdateColumns, TransactionsInv, TypeOK, vars
  <2> QED
    BY <2>3, <2>4
<1>2. CASE Transactions!Recover
  <2>1. starting = Transactions!Scanned(UploadingRows) /\ starting.rows = UploadingRows
    BY <1>2, Phases DEF TransactionsInv, Transactions!Recover
  <2>2. RecoverStartup
    BY <1>2, <2>1, TransactionsUpdates DEF Transactions!Recover, UploadingRows, RecoverStartup
  <2> QED
    BY <2>2 DEF Next
<1>3. CASE Transactions!Create \/ Transactions!Reset \/ Transactions!FileChange
  BY <1>3, TransactionsRows
     DEF Transactions!Create, Transactions!Reset, Transactions!FileChange, Next
<1>4. ASSUME NEW i \in DOMAIN queue, Transactions!Command(i)
      PROVE  UNCHANGED vars
  BY <1>4, CommandDecides DEF vars
<1>5. CASE \/ Transactions!Crash \/ Transactions!Scan \/ Transactions!Bind
           \/ Transactions!StartCrash \/ UNCHANGED Transactions!vars
  BY <1>5 DEF Transactions!Crash, Transactions!Scan, Transactions!Bind, Transactions!StartCrash,
              Transactions!vars, vars
<1> QED
  BY <1>1, <1>2, <1>3, <1>4, <1>5 DEF Transactions!Next

LEMMA TransactionsInvNext ==
    ASSUME ~SecondStart, TransactionsInv, [Transactions!Next]_Transactions!vars
    PROVE  TransactionsInv'
<1> USE DEF TransactionsInv, CommandFits
<1>1. TypeOK'
  BY TransactionsQueueStep, TypeStep
<1>2. CASE Transactions!Create
  <2>1. loop = Transactions!Idle /\ starting = Transactions!NotStarting
    BY <1>2, Phases DEF Transactions!Create
  <2> QED
    BY <1>1, <1>2, <2>1, Phases DEF Transactions!Create
<1>3. ASSUME NEW i \in DOMAIN queue, Transactions!Command(i)
      PROVE  TransactionsInv'
  <2>1. PICK columns : loop' = Transactions!Writing(i, columns) /\ Decided(i, columns)
    BY <1>3, CommandDecides
  <2>2. loop = Transactions!Idle /\ UNCHANGED <<queue, files, starting>>
    BY <1>3, CommandDecides
  <2>3. starting' = Transactions!NotStarting
    BY <2>2, Phases
  <2>4. Decided(i, columns)'
    BY <2>1, <2>2 DEF Decided, RequireState, FailedState
  <2> QED
    BY <1>1, <2>1, <2>3, <2>4, Phases
<1>4. CASE Transactions!Write
  <2>1. loop' = Transactions!Idle /\ starting' = Transactions!NotStarting
    BY <1>4, Phases DEF Transactions!Write
  <2> QED
    BY <1>1, <2>1, Phases
<1>5. CASE Transactions!Reset
  <2>1. starting' = Transactions!NotStarting /\ loop' = loop /\ DOMAIN queue' = {}
    BY <1>5, TransactionsRows, Phases DEF Transactions!Reset, ResetItems, NoItems
  <2> QED
    BY <1>1, <2>1, Phases
<1>6. CASE Transactions!Crash
  <2>1. starting' = Transactions!NotStarting /\ loop' = Transactions!Down
    BY <1>6, Phases DEF Transactions!Crash
  <2> QED
    BY <1>1, <2>1, Phases
<1>7. CASE Transactions!Scan
  <2>1. /\ loop = Transactions!Down /\ UNCHANGED <<queue, files, loop>>
        /\ starting' = Transactions!Scanned(UploadingRows)
    BY <1>7 DEF Transactions!Scan, UploadingRows
  <2>2. UploadingRows' = UploadingRows
    BY <2>1 DEF UploadingRows
  <2> QED
    BY <1>1, <2>1, <2>2, Phases
<1>8. CASE Transactions!Recover
  <2>1. starting = Transactions!Scanned(UploadingRows) /\ loop = Transactions!Down
    BY <1>8, Phases DEF Transactions!Recover
  <2>2. loop' = Transactions!Down /\ starting' = Transactions!Recovered
    BY <1>8, <2>1 DEF Transactions!Recover
  <2>3. RecoverStartup
    BY <1>8, <2>1, Phases, TransactionsUpdates DEF Transactions!Recover, UploadingRows,
                                                   RecoverStartup
  <2>4. \A i \in DOMAIN queue' : queue'[i].state # "uploading"
    BY <2>3, RecoveryRecovers DEF Recovers
  <2> QED
    BY <1>1, <2>2, <2>4, Phases
<1>9. CASE Transactions!Bind
  <2>1. loop' = Transactions!Idle /\ starting' = Transactions!NotStarting
    BY <1>9, Phases DEF Transactions!Bind
  <2> QED
    BY <1>1, <2>1, Phases
<1>10. CASE Transactions!StartCrash
  <2>1. loop' = Transactions!Down /\ starting' = Transactions!NotStarting
    BY <1>10 DEF Transactions!StartCrash
  <2> QED
    BY <1>1, <2>1, Phases
<1>11. CASE Transactions!FileChange \/ UNCHANGED Transactions!vars
  <2>1. UNCHANGED <<queue, loop, starting>>
    BY <1>11, TransactionsRows DEF Transactions!FileChange, FileChange, Transactions!vars
  <2>2. UploadingRows' = UploadingRows
    BY <2>1 DEF UploadingRows
  <2>3. ASSUME NEW i, NEW columns, Decided(i, columns)
        PROVE  Decided(i, columns)'
    BY <2>1, <2>3 DEF Decided, RequireState, FailedState
  <2> QED
    BY <1>1, <2>1, <2>2, <2>3
<1> QED
  BY <1>2, <1>3, <1>4, <1>5, <1>6, <1>7, <1>8, <1>9, <1>10, <1>11 DEF Transactions!Next

LEMMA TransactionsInitInv == Transactions!Init => TransactionsInv
BY TransactionsRows, TypeInit, Phases DEF Transactions!Init, TransactionsInv

\* The invariant holds throughout, with one process at a time.
THEOREM TransactionsInvariant ==
    ASSUME SecondStart = FALSE
    PROVE  Transactions!Spec => []TransactionsInv
<1>1. TransactionsInv /\ [Transactions!Next]_Transactions!vars => TransactionsInv'
  BY TransactionsInvNext
<1> QED
  BY <1>1, TransactionsInitInv, PTL DEF Transactions!Spec

\* With one process at a time, the reads and writes of the store are the
\* atomic operations of the queue.
THEOREM SerializableCorrect ==
    ASSUME SecondStart = FALSE
    PROVE  Transactions!Spec => Transactions!Serializable
<1>1. Transactions!Init => Transactions!Queue!Init
  BY DEF Transactions!Init
<1>2. TransactionsInv /\ [Transactions!Next]_Transactions!vars
         => [Transactions!Queue!Next]_Transactions!Queue!vars
  BY TransactionsQueueStep, TransactionsNext
<1> QED
  BY <1>1, <1>2, TransactionsInvariant, PTL
     DEF Transactions!Spec, Transactions!Serializable, Transactions!Queue!Spec

\* A Worker that begins to serve finds no row in "uploading".
THEOREM ServesRecoveredCorrect ==
    ASSUME SecondStart = FALSE
    PROVE  Transactions!Spec => Transactions!ServesRecoveredQueue
<1>1. ASSUME TransactionsInv, [Transactions!Next]_Transactions!vars,
             loop = Transactions!Down, loop' = Transactions!Idle
      PROVE  \A i \in DOMAIN queue : queue[i].state # "uploading"
  <2>1. Transactions!Bind
    BY <1>1, Phases, CommandDecides
       DEF Transactions!Next, Transactions!Create, Transactions!Write, Transactions!Reset,
           Transactions!Crash, Transactions!Scan, Transactions!Recover, Transactions!StartCrash,
           Transactions!FileChange, Transactions!vars
  <2> QED
    BY <1>1, <2>1 DEF TransactionsInv, Transactions!Bind
<1>2. TransactionsInv /\ [Transactions!Next]_Transactions!vars
         => [loop = Transactions!Down /\ loop' = Transactions!Idle =>
               \A i \in DOMAIN queue : queue[i].state # "uploading"]_Transactions!vars
  BY <1>1
<1> QED
  BY <1>2, TransactionsInvariant, PTL DEF Transactions!Spec, Transactions!ServesRecoveredQueue

=============================================================================
