---------------------------- MODULE UploadLedger ----------------------------
(***************************************************************************)
(* What the upload queue promises, without how it keeps it.  Every entry   *)
(* is written once: it is opened, and settled at most once, either with    *)
(* the id of the video YouTube holds for it or as dropped.  Only clearing  *)
(* the whole ledger makes a settled entry go away.                         *)
(***************************************************************************)
EXTENDS Naturals

CONSTANTS
    EntryId,    \* the numbers of the entries
    VideoId,    \* the ids YouTube gives to published videos
    Open,       \* the value of an entry nobody has settled yet, no video id
    Dropped     \* the value of an entry settled without a video, no video id

VARIABLE ledger

Empty == [e \in {} |-> Open]

Init == ledger = Empty

\* A new entry is opened; no other entry changes.
OpenEntry(e) ==
    /\ e \notin DOMAIN ledger
    /\ ledger' = [x \in DOMAIN ledger \cup {e} |-> IF x = e THEN Open ELSE ledger[x]]

\* An open entry is settled with the video that YouTube holds for it.
Publish(e, v) ==
    /\ ledger[e] = Open
    /\ ledger' = [ledger EXCEPT ![e] = v]

\* Some open entries are dropped together (one restart may drop several).
Drop(S) ==
    /\ \A e \in S : ledger[e] = Open
    /\ ledger' = [e \in DOMAIN ledger |-> IF e \in S THEN Dropped ELSE ledger[e]]

Clear == ledger' = Empty

Next ==
    \/ \E e \in EntryId : OpenEntry(e)
    \/ \E e \in DOMAIN ledger, v \in VideoId : Publish(e, v)
    \/ \E S \in SUBSET DOMAIN ledger : Drop(S)
    \/ Clear

Spec == Init /\ [][Next]_ledger

=============================================================================
