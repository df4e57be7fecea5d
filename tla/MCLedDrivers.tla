---------------------------- MODULE MCLedDrivers ----------------------------
(* Small instances of LedDrivers for TLC. *)
EXTENDS LedDrivers, TLC

CONSTANTS p1, p2, p3

TwoProcess == {p1, p2}
ThreeProcess == {p1, p2, p3}
Symmetry2 == Permutations(TwoProcess)
Symmetry3 == Permutations(ThreeProcess)
=============================================================================
