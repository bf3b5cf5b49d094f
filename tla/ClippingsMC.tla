----------------------------- MODULE ClippingsMC -----------------------------
(* Clippings for TLC. *)
EXTENDS Clippings

CONSTANTS m1, m2, o1

Symmetry == Permutations(Mine)
=============================================================================
