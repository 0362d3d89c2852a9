---------------------------- MODULE MCUploadQueue ---------------------------
(***************************************************************************)
(* Two rows, one match, one absolute and one relative path, limits below,  *)
(* at and above zero.                                                      *)
(***************************************************************************)
EXTENDS UploadQueue

MCRetryLimits == {-1, 0, 2}

=============================================================================
