----------------------------- MODULE MCGlobalMem -----------------------------
(* Small instances of GlobalMem for TLC. *)
EXTENDS GlobalMem, TLC

CONSTANTS t1, t2, f1, f2

TwoTask == {t1, t2}
TwoFile == {f1, f2}
SomeOffsets == {-3, -1, 2}      \* with SEEK_END to -1, 1 and 4, which is WordSize
Symmetry2 == Permutations(TwoTask) \union Permutations(TwoFile)
===============================================================================
