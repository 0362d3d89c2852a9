------------------------ MODULE MCQueueTransactions -------------------------
(***************************************************************************)
(* Two rows with absolute paths and one failure limit that a request       *)
(* lowers.                                                                 *)
(***************************************************************************)
EXTENDS QueueTransactions

MCRetryLimits == {0}

=============================================================================
