---------------------------- MODULE MCModuleLoad ----------------------------
(* Every driver of ModuleLoad and ModuleCode, with a few tasks, for TLC. *)
EXTENDS ModuleCode

CONSTANTS t1, t2

TwoTask == {t1, t2}
AllDrivers == DOMAIN DriverTable
===============================================================================
