------------------------- MODULE MCRecordingWorker --------------------------
(***************************************************************************)
(* Two sessions, so that one can be cut short or handed over while the     *)
(* next is recorded, and two confirmations, the default of the code.       *)
(***************************************************************************)
EXTENDS RecordingWorker

=============================================================================
