---------------------------- MODULE MCDockUploads ----------------------------
(***************************************************************************)
(* Two videos, so that one can be taken for the other, and two changes:    *)
(* two uploads, an upload and a failure in its way, or two failures.       *)
(***************************************************************************)
EXTENDS DockUploads

=============================================================================
