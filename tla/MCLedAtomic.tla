----------------------------- MODULE MCLedAtomic -----------------------------
(* Small instances of LedAtomic for TLC. *)
EXTENDS LedAtomic, TLC

CONSTANTS p1, p2, p3

TwoProcess == {p1, p2}
ThreeProcess == {p1, p2, p3}
Symmetry2 == Permutations(TwoProcess)
Symmetry3 == Permutations(ThreeProcess)
===============================================================================
