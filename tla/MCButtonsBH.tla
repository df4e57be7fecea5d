----------------------------- MODULE MCButtonsBH -----------------------------
(* Small instances of ButtonsBH for TLC. *)
EXTENDS ButtonsBH

CONSTANTS t1, t2

TwoTask == {t1, t2}
===============================================================================
