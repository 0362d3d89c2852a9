------------------------ MODULE MCRecordingPipeline -------------------------
(***************************************************************************)
(* Two sessions, so that one follows the other while the Plugin still has  *)
(* an old picture of the first, and one confirmation for each end of a     *)
(* duel (RecordingWorker is checked with two).                             *)
(***************************************************************************)
EXTENDS RecordingPipeline

=============================================================================
