--------------------------- MODULE MCDockMetadata ---------------------------
(***************************************************************************)
(* Two data directories, two matches in one of them or one in each, a name *)
(* of another deck and a second spelling of the first.                     *)
(***************************************************************************)
EXTENDS DockMetadata

Plain(deck) == [key |-> deck, odd |-> FALSE]
MCName == {Plain("a"), Plain("b"), [key |-> "a", odd |-> TRUE]}
MCNoName == Plain("")

=============================================================================
