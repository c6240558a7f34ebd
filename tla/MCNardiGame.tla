---------------------------- MODULE MCNardiGame -----------------------------
(* Finite instances of NardiGame. *)
EXTENDS NardiGame, TLC

CONSTANTS a, b

TwoPlayers == {a, b}
=============================================================================
