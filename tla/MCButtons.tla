------------------------------ MODULE MCButtons ------------------------------
(* Small instances of Buttons for TLC. *)
EXTENDS Buttons, TLC

CONSTANTS t1, t2, t3

TwoTask == {t1, t2}
ThreeTask == {t1, t2, t3}
Symmetry2 == Permutations(TwoTask)
Symmetry3 == Permutations(ThreeTask)
===============================================================================
