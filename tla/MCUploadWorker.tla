--------------------------- MODULE MCUploadWorker ---------------------------
(***************************************************************************)
(* Two matches, two rows and one absolute video path; a limit of one       *)
(* retry.  No symmetry, because the run checks a liveness property.        *)
(***************************************************************************)
EXTENDS UploadWorker

NoRetryLimits == {}   \* the requests of the Worker carry no limit

=============================================================================
