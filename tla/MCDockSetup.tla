----------------------------- MODULE MCDockSetup ----------------------------
(***************************************************************************)
(* Ports below, within and above what a port can be, the default one and   *)
(* another; two screenshots and two captures at once.                      *)
(***************************************************************************)
EXTENDS DockSetup

=============================================================================
