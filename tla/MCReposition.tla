---------------------------- MODULE MCReposition ----------------------------
(* Two clients that place one aircraft at two places, apart or at once. *)
EXTENDS Reposition, TLC

CONSTANTS c1, c2, home, away

MCClient == {c1, c2}
Symmetry == Permutations(MCClient)
MCPlace == {home, away}
=============================================================================
