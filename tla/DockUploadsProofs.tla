-------------------------- MODULE DockUploadsProofs -------------------------
(***************************************************************************)
(* Proofs about the upload page of the Dock and the thread that waits for  *)
(* an upload (DockUploads).                                                *)
(***************************************************************************)
EXTENDS DockUploads, SequenceTheorems, FiniteSetTheorems, WellFoundedInduction, TLAPS

-----------------------------------------------------------------------------
(***************************************************************************)
(* Uploads.  The page shows the item at the front of a snapshot.           *)
(***************************************************************************)

\* A nonempty set of numbers has a least one.
LEMMA Least ==
    ASSUME NEW T \in SUBSET Nat, T # {}
    PROVE  \E x \in T : \A y \in T : x <= y
<1>1. PICK x \in T : \A y \in T : ~(<<y, x>> \in OpToRel(<, Nat))
  BY WFMin, NatLessThanWellFounded, Zenon
<1>2. \A y \in T : ~(y < x)
  BY <1>1, Zenon DEF OpToRel
<1> QED
  BY <1>2

LEMMA RankType == ASSUME NEW state \in State PROVE Rank[state] \in Nat
BY DEF Rank, State

\* The item at the front is one of the items: Front chooses among them.
LEMMA FrontExists ==
    ASSUME NEW items \in Seq(State), items # <<>>
    PROVE  Front(items) \in DOMAIN items
<1> DEFINE rank(i) == Rank[items[i]]
           Before(i, j) == rank(i) < rank(j) \/ (rank(i) = rank(j) /\ i <= j)
<1>1. \A i \in DOMAIN items : i \in Nat /\ rank(i) \in Nat
  BY RankType
<1>2. DOMAIN items # {}
  <2>1. Len(items) \in Nat /\ Len(items) # 0
    BY EmptySeq, LenProperties
  <2>2. 1 \in DOMAIN items
    BY <2>1, LenProperties
  <2> QED
    BY <2>2
<1> HIDE DEF rank
<1>3. PICK r \in {rank(i) : i \in DOMAIN items} : \A s \in {rank(i) : i \in DOMAIN items} : r <= s
  <2>1. {rank(i) : i \in DOMAIN items} \in SUBSET Nat /\ {rank(i) : i \in DOMAIN items} # {}
    BY <1>1, <1>2
  <2> QED
    BY <2>1, Least
<1>4. PICK i \in {j \in DOMAIN items : rank(j) = r} :
         \A j \in {k \in DOMAIN items : rank(k) = r} : i <= j
  <2>1. {j \in DOMAIN items : rank(j) = r} \in SUBSET Nat /\ {j \in DOMAIN items : rank(j) = r} # {}
    BY <1>1, <1>3
  <2> QED
    BY <2>1, Least
<1>5. \A j \in DOMAIN items : Before(i, j)
  <2> TAKE j \in DOMAIN items
  <2>1. r <= rank(j) /\ rank(j) \in Nat /\ rank(i) = r /\ r \in Nat
    BY <1>1, <1>3, <1>4
  <2>2. rank(j) = r => i <= j
    BY <1>4
  <2> QED
    BY <2>1, <2>2
<1>6. \E k \in DOMAIN items : \A j \in DOMAIN items : Before(k, j)
  BY <1>4, <1>5
<1> QED
  BY <1>6, Zenon DEF Front, rank

-----------------------------------------------------------------------------
(***************************************************************************)
(* Uploads.  The invariant, part by part.                                  *)
(***************************************************************************)

Commanded == {"retry", "discard", "mark_uploaded", "reset"}
Stage == {"waiting", "uploading", "answered"} \cup Api!Verdicts

\* The Worker: it uploads a row in "uploading", and only while it lives.
RowsOK ==
    /\ up \in BOOLEAN
    /\ rows \in Seq(State) /\ recorded \in 0 .. MaxItem /\ Len(rows) <= recorded
    /\ job \in {0} \cup {i \in DOMAIN rows : rows[i] = "uploading"}
    /\ ~up => job = 0
    /\ late = None \/ late.button \in Commanded

SnapshotOK ==
    /\ DOMAIN snap = {"running", "items", "next"}
    /\ snap.items \in Seq(State) /\ Len(snap.items) <= MaxItem
    /\ fetched = None \/ (fetched.items \in Seq(State) /\ Len(fetched.items) <= MaxItem)

\* While an upload is in progress the page offers no other, and no dialog
\* that would begin one is open.
PageOK ==
    /\ inProgress \in BOOLEAN /\ selected \in 0 .. MaxItem /\ offered \subseteq Button
    /\ inProgress => "upload" \notin offered
    /\ inProgress => question = None \/ question.button # "upload"

\* The flag tells whether there is a thread.
ThreadsOK ==
    /\ IF inProgress THEN \E thread : threads = {thread} ELSE threads = {}
    /\ \A thread \in threads : DOMAIN thread = {"id", "stage"} /\ thread.stage \in Stage

UploadsInv == RowsOK /\ SnapshotOK /\ PageOK /\ ThreadsOK

LEMMA UploadsInit == Init => UploadsInv
<1> SUFFICES ASSUME Init
             PROVE  UploadsInv
  OBVIOUS
<1>1. RowsOK
  BY UploadsAssumption DEF Init, RowsOK
<1>2. SnapshotOK
  BY UploadsAssumption DEF Init, SnapshotOK
<1>3. PageOK
  <2>1. ~inProgress /\ inProgress \in BOOLEAN /\ selected = 0 /\ offered = {"reset"}
    BY DEF Init
  <2>2. {"reset"} \subseteq Button
    BY DEF Button
  <2> QED
    BY <2>1, <2>2, UploadsAssumption DEF PageOK
<1>4. ThreadsOK
  BY DEF Init, ThreadsOK
<1> QED
  BY <1>1, <1>2, <1>3, <1>4 DEF UploadsInv

\* What the run checks follows from the parts.
LEMMA UploadsChecked == UploadsInv => TypeOK /\ OneUploadAtATime
<1> SUFFICES ASSUME UploadsInv
             PROVE  TypeOK /\ OneUploadAtATime
  OBVIOUS
<1>1. TypeOK
  BY DEF UploadsInv, RowsOK, SnapshotOK, PageOK, ThreadsOK, Stage, TypeOK
<1>2. CASE inProgress
  <2>1. PICK thread : threads = {thread}
    BY <1>2 DEF UploadsInv, ThreadsOK
  <2>2. Cardinality(threads) = 1
    BY <2>1, FS_Singleton
  <2> QED
    BY <1>1, <1>2, <2>2 DEF OneUploadAtATime
<1>3. CASE ~inProgress
  <2>1. Cardinality(threads) = 0
    BY <1>3, FS_EmptySet DEF UploadsInv, ThreadsOK
  <2> QED
    BY <1>1, <1>3, <2>1 DEF OneUploadAtATime
<1> QED
  BY <1>1, <1>2, <1>3

-----------------------------------------------------------------------------
\* A command is carried out between two uploads, and loses rows at most.
LEMMA CarryOutKeeps ==
    ASSUME RowsOK, NEW command, command.button \in Commanded, CarryOut(command), job = 0,
           UNCHANGED <<up, recorded, job>>, late' \in {None, late}
    PROVE  RowsOK'
<1>1. rows' \in Seq(State) /\ Len(rows') <= Len(rows)
  <2>1. CASE command.button = "reset"
    BY <2>1 DEF CarryOut, RowsOK
  <2>2. CASE command.button # "reset" /\ CommandStatus(command) = 200
    <3>1. CommandTarget[command.button] \in State
      BY <2>2 DEF Commanded, CommandTarget, State
    <3>2. command.id \in DOMAIN rows
      BY <2>2 DEF CommandStatus
    <3>3. rows' = [rows EXCEPT ![command.id] = CommandTarget[command.button]]
      BY <2>2 DEF CarryOut
    <3> QED
      BY <3>1, <3>2, <3>3 DEF RowsOK
  <2>3. CASE command.button # "reset" /\ CommandStatus(command) # 200
    BY <2>3 DEF CarryOut, RowsOK
  <2> QED
    BY <2>1, <2>2, <2>3
<1> QED
  BY <1>1 DEF RowsOK

LEMMA SendKeeps ==
    ASSUME RowsOK, NEW command, NEW verdict, command.button \in Commanded, Send(command, verdict)
    PROVE  RowsOK'
<1>1. UNCHANGED <<up, recorded, job>>
  BY DEF Send
<1>2. \/ UNCHANGED <<rows, late>>
      \/ CarryOut(command) /\ UNCHANGED late /\ job = 0
      \/ late' = command /\ UNCHANGED rows
  <2>1. 200 \in Answers => job = 0
    BY DEF Answers, Api!NoAnswer
  <2> QED
    BY <2>1 DEF Send
<1> QED
  BY <1>1, <1>2, CarryOutKeeps DEF RowsOK

LEMMA OfferedButtons ==
    ASSUME NEW s, NEW target, NEW busy \in BOOLEAN
    PROVE  /\ Offered(s, target, busy) \subseteq Button
           /\ (busy => "upload" \notin Offered(s, target, busy))
BY DEF Offered, Button

\* A refresh selects an item there is, and offers no second upload.
LEMMA RefreshesKeep ==
    ASSUME PageOK, SnapshotOK', inProgress' \in BOOLEAN, Refreshes,
           inProgress' => question' = None \/ question'.button # "upload"
    PROVE  PageOK'
<1>1. selected' \in 0 .. MaxItem
  <2>1. snap'.items \in Seq(State) /\ Len(snap'.items) <= MaxItem
    BY DEF SnapshotOK
  <2>2. Front(snap'.items) \in 0 .. MaxItem
    <3>1. CASE snap'.items = <<>>
      BY <3>1, UploadsAssumption DEF Front
    <3>2. CASE snap'.items # <<>>
      BY <2>1, <3>2, FrontExists, LenProperties, UploadsAssumption
    <3> QED
      BY <3>1, <3>2
  <2> QED
    BY <2>1, <2>2 DEF Refreshes, SelectedAfter, PageOK
<1> QED
  BY <1>1, OfferedButtons DEF Refreshes, PageOK

LEMMA VerdictType == \A id, status : Api!process_upload_item(id, status) \in Api!Verdicts
BY DEF Api!process_upload_item, Api!Verdict, Api!Verdicts

\* Threads go from stage to stage, and none comes or goes.
LEMMA AdvanceKeeps ==
    ASSUME ThreadsOK, NEW thread \in threads, NEW stage \in Stage, Advance(thread, stage),
           UNCHANGED inProgress
    PROVE  ThreadsOK'
<1> DEFINE moved == [thread EXCEPT !.stage = stage]
<1>1. threads = {thread} /\ inProgress = inProgress'
  BY DEF ThreadsOK
<1>2. DOMAIN moved = {"id", "stage"} /\ moved.stage = stage
  BY DEF ThreadsOK
<1>3. threads' = {moved}
  BY <1>1 DEF Advance
<1> QED
  BY <1>1, <1>2, <1>3 DEF ThreadsOK

LEMMA EndingKeeps ==
    ASSUME ThreadsOK, NEW stages, NEW status, UNCHANGED inProgress,
           threads' = {IF thread.stage \in stages
                       THEN [thread EXCEPT !.stage = Api!process_upload_item(thread.id, status)]
                       ELSE thread : thread \in threads}
    PROVE  ThreadsOK'
<1>1. CASE ~inProgress
  BY <1>1 DEF ThreadsOK
<1>2. CASE inProgress
  <2>1. PICK thread : threads = {thread}
    BY <1>2 DEF ThreadsOK
  <2> DEFINE moved == [thread EXCEPT !.stage = Api!process_upload_item(thread.id, status)]
  <2>2. DOMAIN thread = {"id", "stage"} /\ thread.stage \in Stage
    BY <2>1 DEF ThreadsOK
  <2>3. DOMAIN moved = {"id", "stage"} /\ moved.stage \in Stage
    BY <2>2, VerdictType DEF Stage
  <2>4. threads' = {IF thread.stage \in stages THEN moved ELSE thread}
    BY <2>1
  <2> HIDE DEF moved
  <2> QED
    BY <1>2, <2>2, <2>3, <2>4 DEF ThreadsOK
<1> QED
  BY <1>1, <1>2

-----------------------------------------------------------------------------
\* The Worker's steps.
LEMMA TakeUpUploadKeeps ==
    ASSUME RowsOK, ThreadsOK, TakeUpUpload
    PROVE  RowsOK' /\ ThreadsOK'
<1>1. PICK thread \in threads :
         \/ /\ thread.id \in DOMAIN rows
            /\ rows' = [rows EXCEPT ![thread.id] = "uploading"]
            /\ job' = thread.id
            /\ Advance(thread, "uploading")
         \/ /\ \E status : Advance(thread, Api!process_upload_item(thread.id, status))
            /\ UNCHANGED <<rows, job>>
  BY DEF TakeUpUpload
<1>2. up /\ UNCHANGED <<up, recorded, late, inProgress>>
  BY DEF TakeUpUpload
<1>3. ThreadsOK'
  BY <1>1, <1>2, AdvanceKeeps, VerdictType DEF Stage
<1>4. CASE /\ thread.id \in DOMAIN rows /\ job' = thread.id
           /\ rows' = [rows EXCEPT ![thread.id] = "uploading"]
  <2>1. /\ rows' \in Seq(State) /\ Len(rows') = Len(rows) /\ DOMAIN rows' = DOMAIN rows
        /\ rows'[thread.id] = "uploading"
    BY <1>4 DEF RowsOK, State
  <2> QED
    BY <1>2, <1>3, <1>4, <2>1 DEF RowsOK
<1>5. CASE UNCHANGED <<rows, job>>
  BY <1>2, <1>3, <1>5 DEF RowsOK
<1> QED
  BY <1>1, <1>3, <1>4, <1>5

LEMMA UploadEndsKeeps ==
    ASSUME RowsOK, ThreadsOK, UploadEnds
    PROVE  RowsOK' /\ ThreadsOK'
<1>1. ThreadsOK'
  <2>1. threads' = {IF thread.stage \in {"uploading"}
                    THEN [thread EXCEPT !.stage = Api!process_upload_item(thread.id, 200)]
                    ELSE thread : thread \in threads}
    BY DEF UploadEnds
  <2>2. UNCHANGED inProgress
    BY DEF UploadEnds
  <2> QED
    BY <2>1, <2>2, EndingKeeps
<1>2. job \in DOMAIN rows /\ job' = 0 /\ UNCHANGED <<up, recorded, late>>
  BY DEF UploadEnds, RowsOK
<1>3. rows' \in Seq(State) /\ Len(rows') = Len(rows)
  BY <1>2 DEF UploadEnds, RowsOK, State
<1> QED
  BY <1>1, <1>2, <1>3 DEF RowsOK

LEMMA RestartKeeps ==
    ASSUME RowsOK, SnapshotOK, Restart
    PROVE  RowsOK' /\ SnapshotOK'
<1>1. rows' \in Seq(State) /\ Len(rows') = Len(rows)
  <2>1. \A i \in DOMAIN rows : rows[i] \in State
    BY DEF RowsOK
  <2>2. \A i \in 1 .. Len(rows) :
           (IF rows[i] = "uploading" THEN "need_manual_review" ELSE rows[i]) \in State
    BY <2>1 DEF RowsOK, State
  <2>3. rows' = [i \in 1 .. Len(rows) |->
                   IF rows[i] = "uploading" THEN "need_manual_review" ELSE rows[i]]
    BY DEF Restart, RowsOK
  <2> QED
    BY <2>2, <2>3 DEF RowsOK
<1>2. RowsOK'
  BY <1>1 DEF Restart, RowsOK
<1>3. DOMAIN snap' = DOMAIN snap /\ snap'.items = snap.items /\ fetched' = None
  BY DEF Restart, SnapshotOK
<1> QED
  BY <1>2, <1>3 DEF SnapshotOK

LEMMA WorkerKeeps ==
    ASSUME UploadsInv, Record \/ TakeUp \/ TakeUpUpload \/ UploadEnds \/ Crash \/ Restart
    PROVE  UploadsInv'
<1> USE DEF UploadsInv
<1>1. PageOK'
  BY DEF PageOK, Record, TakeUp, TakeUpUpload, UploadEnds, Crash, Restart, pageVars
<1>2. CASE Record
  <2>1. RowsOK'
    BY <1>2, UploadsAssumption DEF Record, RowsOK, State
  <2> QED
    BY <1>1, <1>2, <2>1 DEF Record, heartbeatVars, pageVars, SnapshotOK, ThreadsOK
<1>3. CASE TakeUp
  <2>1. late.button \in Commanded
    BY <1>3 DEF TakeUp, RowsOK
  <2>2. RowsOK'
    BY <1>3, <2>1, CarryOutKeeps DEF TakeUp
  <2> QED
    BY <1>1, <1>3, <2>2 DEF TakeUp, heartbeatVars, pageVars, SnapshotOK, ThreadsOK
<1>4. CASE TakeUpUpload
  BY <1>1, <1>4, TakeUpUploadKeeps DEF TakeUpUpload, heartbeatVars, SnapshotOK
<1>5. CASE UploadEnds
  BY <1>1, <1>5, UploadEndsKeeps DEF UploadEnds, heartbeatVars, SnapshotOK
<1>6. CASE Crash
  <2>1. ThreadsOK'
    BY <1>6, EndingKeeps DEF Crash
  <2>2. RowsOK'
    BY <1>6 DEF Crash, RowsOK
  <2> QED
    BY <1>1, <1>6, <2>1, <2>2 DEF Crash, heartbeatVars, SnapshotOK
<1>7. CASE Restart
  BY <1>1, <1>7, RestartKeeps DEF Restart, pageVars, ThreadsOK
<1> QED
  BY <1>2, <1>3, <1>4, <1>5, <1>6, <1>7

-----------------------------------------------------------------------------
\* The heartbeat.
LEMMA HeartbeatKeeps ==
    ASSUME UploadsInv, HeartbeatFetch \/ HeartbeatStore
    PROVE  UploadsInv'
<1> USE DEF UploadsInv
<1>1. UNCHANGED <<workerVars, pageVars>>
  BY DEF HeartbeatFetch, HeartbeatStore
<1>2. RowsOK' /\ PageOK' /\ ThreadsOK'
  BY <1>1 DEF workerVars, pageVars, RowsOK, PageOK, ThreadsOK
<1>3. Len(rows) <= MaxItem /\ rows \in Seq(State)
  BY UploadsAssumption DEF RowsOK
<1>4. ASSUME HeartbeatFetch
      PROVE  SnapshotOK'
  <2>1. CASE UNCHANGED snap
    <3>1. fetched' = fetched \/ (fetched'.items \in {rows, <<>>})
      BY <1>4 DEF HeartbeatFetch
    <3>2. \A items \in {rows, <<>>} : items \in Seq(State) /\ Len(items) <= MaxItem
      <4>1. <<>> \in Seq(State) /\ Len(<<>>) = 0
        OBVIOUS
      <4>2. 0 <= MaxItem
        BY UploadsAssumption
      <4>3. Len(<<>>) <= MaxItem
        BY <4>1, <4>2
      <4> QED
        BY <1>3, <4>1, <4>3
    <3>3. fetched' = fetched \/ (fetched'.items \in Seq(State) /\ Len(fetched'.items) <= MaxItem)
      BY <3>1, <3>2
    <3> QED
      BY <2>1, <3>3 DEF SnapshotOK
  <2>2. CASE snap' = [snap EXCEPT !.running = FALSE] /\ UNCHANGED fetched
    <3>1. DOMAIN snap' = DOMAIN snap /\ snap'.items = snap.items
      BY <2>2 DEF SnapshotOK
    <3> QED
      BY <2>2, <3>1 DEF SnapshotOK
  <2> QED
    BY <1>4, <2>1, <2>2 DEF HeartbeatFetch
<1>5. ASSUME HeartbeatStore
      PROVE  SnapshotOK'
  <2>1. /\ fetched' = None
        /\ \E next : snap' = [running |-> TRUE, items |-> fetched.items, next |-> next]
    BY <1>5 DEF HeartbeatStore
  <2>2. DOMAIN snap' = {"running", "items", "next"} /\ snap'.items = fetched.items
    BY <2>1
  <2>3. fetched.items \in Seq(State) /\ Len(fetched.items) <= MaxItem
    BY <1>5 DEF HeartbeatStore, SnapshotOK
  <2> QED
    BY <2>1, <2>2, <2>3 DEF SnapshotOK
<1> QED
  BY <1>2, <1>4, <1>5

-----------------------------------------------------------------------------
\* The page.  A handler ends in a refresh, and its dialog is gone by then.
LEMMA HandlerKeeps ==
    ASSUME UploadsInv, UNCHANGED <<heartbeatVars, inProgress, threads>>, RowsOK',
           question' \in {question, None}, Refreshes
    PROVE  UploadsInv'
<1> USE DEF UploadsInv
<1>1. SnapshotOK' /\ ThreadsOK'
  BY DEF heartbeatVars, SnapshotOK, ThreadsOK
<1>2. inProgress' \in BOOLEAN /\ (inProgress' => question' = None \/ question'.button # "upload")
  BY DEF PageOK
<1> QED
  BY <1>1, <1>2, RefreshesKeep

LEMMA SelectKeeps ==
    ASSUME UploadsInv, Select
    PROVE  UploadsInv'
<1> USE DEF UploadsInv
<1>1. RowsOK' /\ SnapshotOK' /\ ThreadsOK'
  BY DEF Select, workerVars, heartbeatVars, RowsOK, SnapshotOK, ThreadsOK
<1>2. selected' \in 0 .. MaxItem
  BY LenProperties, UploadsAssumption DEF Select, SnapshotOK
<1>3. offered' \subseteq Button /\ (inProgress => "upload" \notin offered')
  BY OfferedButtons DEF Select, PageOK
<1>4. UNCHANGED <<inProgress, question>>
  BY DEF Select
<1> QED
  BY <1>1, <1>2, <1>3, <1>4 DEF PageOK

\* Only a button that is offered opens a dialog, so none for a second upload.
LEMMA PressKeeps ==
    ASSUME UploadsInv, NEW button \in Button, Press(button)
    PROVE  UploadsInv'
<1> USE DEF UploadsInv
<1>1. RowsOK' /\ SnapshotOK' /\ ThreadsOK'
  BY DEF Press, workerVars, heartbeatVars, RowsOK, SnapshotOK, ThreadsOK
<1>2. button \in offered /\ question'.button = button /\ UNCHANGED <<selected, offered, inProgress>>
  BY DEF Press
<1> QED
  BY <1>1, <1>2 DEF PageOK

LEMMA ConfirmResetKeeps ==
    ASSUME UploadsInv, ConfirmReset
    PROVE  UploadsInv'
<1> USE DEF UploadsInv
<1>1. RowsOK' /\ ThreadsOK' /\ UNCHANGED inProgress
  <2>1. PICK verdict : Send(Command("reset", 0), verdict)
    BY DEF ConfirmReset
  <2>2. Command("reset", 0).button \in Commanded
    BY DEF Command, Commanded
  <2>3. UNCHANGED <<inProgress, threads>>
    BY DEF ConfirmReset
  <2> QED
    BY <2>1, <2>2, <2>3, SendKeeps DEF ThreadsOK
<1>2. question' = None /\ UNCHANGED fetched
  BY DEF ConfirmReset
<1>3. CASE snap' = [snap EXCEPT !.items = <<>>, !.next = NoTarget] /\ Refreshes
  <2>1. DOMAIN snap' = DOMAIN snap /\ snap'.items = <<>>
    BY <1>3 DEF SnapshotOK
  <2>2. SnapshotOK'
    BY <1>2, <2>1, UploadsAssumption DEF SnapshotOK
  <2>3. inProgress' \in BOOLEAN
    BY <1>1 DEF PageOK
  <2> QED
    BY <1>1, <1>2, <1>3, <2>2, <2>3, RefreshesKeep
<1>4. CASE UNCHANGED <<snap, selected, offered>>
  BY <1>1, <1>2, <1>4 DEF SnapshotOK, PageOK
<1> QED
  BY <1>3, <1>4 DEF ConfirmReset

\* An upload begins only when none is in progress, or its dialog would not
\* have come up.
LEMMA ConfirmUploadKeeps ==
    ASSUME UploadsInv, ConfirmUpload
    PROVE  UploadsInv'
<1> USE DEF UploadsInv
<1>1. ~inProgress /\ threads = {}
  <2>1. question # None /\ question.button = "upload"
    BY DEF ConfirmUpload
  <2>2. ~inProgress
    BY <2>1 DEF PageOK
  <2> QED
    BY <2>2 DEF ThreadsOK
<1>2. PICK stage \in {"waiting", "unavailable"} :
         threads' = threads \cup {[id |-> question.id, stage |-> stage]}
  BY DEF ConfirmUpload, Forwarded
<1>3. inProgress' = TRUE /\ question' = None /\ Refreshes /\ UNCHANGED <<workerVars, heartbeatVars>>
  BY DEF ConfirmUpload
<1>4. ThreadsOK'
  <2> DEFINE thread == [id |-> question.id, stage |-> stage]
  <2>1. threads' = {thread}
    BY <1>1, <1>2
  <2>2. DOMAIN thread = {"id", "stage"} /\ thread.stage \in Stage
    BY <1>2 DEF Stage, Api!Verdicts
  <2> HIDE DEF thread
  <2> QED
    BY <1>3, <2>1, <2>2 DEF ThreadsOK
<1>5. RowsOK' /\ SnapshotOK'
  BY <1>3 DEF workerVars, heartbeatVars, RowsOK, SnapshotOK
<1> QED
  BY <1>3, <1>4, <1>5, RefreshesKeep

LEMMA PageKeeps ==
    ASSUME UploadsInv, Refresh \/ RetryAtOnce \/ Cancel \/ ConfirmCommand
    PROVE  UploadsInv'
<1> USE DEF UploadsInv
<1>1. ASSUME NEW button \in Commanded, NEW id, NEW verdict, Send(Command(button, id), verdict)
      PROVE  RowsOK'
  <2>1. Command(button, id).button \in Commanded
    BY DEF Command
  <2> QED
    BY <1>1, <2>1, SendKeeps
<1>2. CASE Refresh
  <2>1. RowsOK'
    BY <1>2 DEF Refresh, workerVars, RowsOK
  <2> QED
    BY <1>2, <2>1, HandlerKeeps DEF Refresh
<1>3. CASE RetryAtOnce
  BY <1>1, <1>3, HandlerKeeps DEF RetryAtOnce, Commanded
<1>4. CASE ConfirmCommand
  BY <1>1, <1>4, HandlerKeeps DEF ConfirmCommand, Commanded
<1>5. CASE Cancel
  BY <1>5 DEF Cancel, workerVars, heartbeatVars, RowsOK, SnapshotOK, PageOK, ThreadsOK
<1> QED
  BY <1>2, <1>3, <1>4, <1>5

-----------------------------------------------------------------------------
\* The thread of an upload.
LEMMA ThreadKeeps ==
    ASSUME UploadsInv, ThreadGivesUp \/ ThreadReturns
    PROVE  UploadsInv'
<1> USE DEF UploadsInv
<1>1. RowsOK' /\ PageOK'
  BY DEF ThreadGivesUp, ThreadReturns, workerVars, RowsOK, PageOK
<1>2. UNCHANGED <<inProgress, fetched>>
  BY DEF ThreadGivesUp, ThreadReturns, heartbeatVars
<1>3. ThreadsOK'
  <2>1. \E thread \in threads, stage \in Stage : Advance(thread, stage)
    BY VerdictType DEF ThreadGivesUp, ThreadReturns, Stage
  <2> QED
    BY <1>2, <2>1, AdvanceKeeps
<1>4. snap' \in {snap, [snap EXCEPT !.next = NoTarget]}
  BY DEF ThreadGivesUp, ThreadReturns, heartbeatVars
<1>5. DOMAIN snap' = DOMAIN snap /\ snap'.items = snap.items
  BY <1>4 DEF SnapshotOK
<1> QED
  BY <1>1, <1>2, <1>3, <1>5 DEF SnapshotOK

\* The callback ends the upload that was in progress, and no other.
LEMMA UploadAnsweredKeeps ==
    ASSUME UploadsInv, UploadAnswered
    PROVE  UploadsInv'
<1> USE DEF UploadsInv
<1>1. inProgress' = FALSE /\ Refreshes /\ UNCHANGED <<workerVars, heartbeatVars, question>>
  BY DEF UploadAnswered
<1>2. RowsOK' /\ SnapshotOK'
  BY <1>1 DEF workerVars, heartbeatVars, RowsOK, SnapshotOK
<1>3. threads' = {}
  BY DEF UploadAnswered, ThreadsOK
<1>4. ThreadsOK'
  BY <1>1, <1>3 DEF ThreadsOK
<1> QED
  BY <1>1, <1>2, <1>4, RefreshesKeep

LEMMA UploadsNext ==
    ASSUME UploadsInv, [Next]_vars
    PROVE  UploadsInv'
<1>1. CASE UNCHANGED vars
  BY <1>1 DEF vars, workerVars, heartbeatVars, pageVars, UploadsInv, RowsOK, SnapshotOK,
              PageOK, ThreadsOK
<1> QED
  BY <1>1, WorkerKeeps, HeartbeatKeeps, PageKeeps, SelectKeeps, PressKeeps, ConfirmResetKeeps,
     ConfirmUploadKeeps, ThreadKeeps, UploadAnsweredKeeps DEF Next

\* The invariant holds throughout.
THEOREM UploadsInvariant == Spec => []UploadsInv
<1>1. UploadsInv /\ [Next]_vars => UploadsInv'
  BY UploadsNext
<1> QED
  BY <1>1, UploadsInit, PTL DEF Spec

\* The page, the queue and the threads stay well-formed.
THEOREM UploadsTypeCorrect == Spec => []TypeOK
BY UploadsInvariant, UploadsChecked, PTL

\* However dialogs, timer and answers cross, the Dock waits for one upload at
\* most, and the flag tells whether it does.
THEOREM OneUploadCorrect == Spec => []OneUploadAtATime
BY UploadsInvariant, UploadsChecked, PTL

=============================================================================
