---------------------------- MODULE MCOverlaySync ---------------------------
(***************************************************************************)
(* Two decks tell an update from the one before it; with three changes two *)
(* updates can cross a command, a crash or a restart.                      *)
(***************************************************************************)
EXTENDS OverlaySync

=============================================================================
