---------------------------- MODULE LibraryIndexMC ----------------------------
(* LibraryIndex for TLC: of three books, two have files of one size. *)
EXTENDS LibraryIndex, TLC

CONSTANTS b1, b2, b3, p1, p2, p3

SizeMC == [b \in {b1, b2, b3} |-> IF b = b3 THEN 2 ELSE 1]

Symmetry == Permutations(Paths) \cup Permutations({b1, b2})
=============================================================================
