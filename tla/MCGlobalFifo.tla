----------------------------- MODULE MCGlobalFifo -----------------------------
(* Small instances of GlobalFifo for TLC. *)
EXTENDS GlobalFifo, TLC

CONSTANTS p1, p2, p3

TwoProcess == {p1, p2}
ThreeProcess == {p1, p2, p3}
Symmetry2 == Permutations(TwoProcess)
Symmetry3 == Permutations(ThreeProcess)

OneByte == {0}
TwoBytes == {0, 1}
===============================================================================
