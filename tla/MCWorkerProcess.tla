-------------------------- MODULE MCWorkerProcess ---------------------------
(***************************************************************************)
(* Three processes: the Plugin's own, one that an OBS left behind, and one *)
(* started by hand; two ports and two data directories to confuse them.    *)
(***************************************************************************)
EXTENDS WorkerProcess

=============================================================================
