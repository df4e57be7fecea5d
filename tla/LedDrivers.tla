------------------------------ MODULE LedDrivers ------------------------------
(***************************************************************************)
(* The LED drivers side by side.  They differ in how open() guards the      *)
(* device and share led_ioctl(), the register and the caller's view, so a   *)
(* behaviour starts with one of them loaded and stays with it.              *)
(***************************************************************************)
EXTENDS LedIoctl

CONSTANTS Driver,   \* the drivers of this instance, a subset of AllDrivers
          Sharer    \* the tasks that use led.c and led_nums.c (bound)

AllDrivers == {"shared",       \* led.c
               "minors",       \* led_nums.c, which has a led_obj per minor
               "sem",          \* led_sem.c
               "spinlock",     \* led_spinlock.c
               "atomic",       \* led_atomic.c on a preemptible kernel
               "atomic_up"}    \* and on the one the repository builds it for

ASSUME DriverAssumption == Driver \subseteq AllDrivers
ASSUME SharerAssumption == Sharer \subseteq Process
ASSUME FiniteAssumption == IsFiniteSet(Process)     \* AvailableAccounts counts them

VARIABLES driver,
          led_lock, spin_lock, user_count, led_available, refused

open == <<led_lock, spin_lock, user_count, led_available, refused>>
vars == <<ledVars, driver, open>>

OneMinor == {CHOOSE m \in Minor : TRUE}

OneObj   == INSTANCE LedIoctl WITH Minor <- OneMinor
Shared   == INSTANCE Led WITH Minor <- OneMinor, Process <- Sharer
Minors   == INSTANCE Led WITH Process <- Sharer
Sem      == INSTANCE LedSem WITH Minor <- OneMinor
Spinlock == INSTANCE LedSpinlock WITH Minor <- OneMinor, led_lock <- spin_lock
Atomic   == INSTANCE LedAtomic WITH Minor <- OneMinor, Preemption <- TRUE
AtomicUP == INSTANCE LedAtomic WITH Minor <- OneMinor, Preemption <- FALSE

Init == /\ driver \in Driver
        /\ IF driver = "minors" THEN LedInit ELSE OneObj!LedInit
        /\ led_lock = 1                                \* LedSem
        /\ spin_lock = NoProcess /\ user_count = 0     \* LedSpinlock
        /\ led_available = 1                           \* LedAtomic
        /\ refused = {}

Next ==
  /\ UNCHANGED driver
  /\ \/ driver = "shared" /\ Shared!Next /\ UNCHANGED open
     \/ driver = "minors" /\ Minors!Next /\ UNCHANGED open
     \/ /\ driver = "sem" /\ Sem!Next
        /\ UNCHANGED <<spin_lock, user_count, led_available>>
     \/ /\ driver = "spinlock" /\ Spinlock!Next
        /\ UNCHANGED <<led_lock, led_available>>
     \/ /\ driver = "atomic" /\ Atomic!Next
        /\ UNCHANGED <<led_lock, spin_lock, user_count>>
     \/ /\ driver = "atomic_up" /\ AtomicUP!Next
        /\ UNCHANGED <<led_lock, spin_lock, user_count>>

Spec == Init /\ [][Next]_vars
-------------------------------------------------------------------------------
(* Types, and that each driver's guard counts: the semaphore and user_count     *)
(* are never above 1, led_available never above 1 or below one per task.        *)
TypeOK == CASE driver = "shared"    -> OneObj!LedTypeOK /\ pc \in [Process -> LedLabel]
            [] driver = "minors"    -> LedTypeOK /\ pc \in [Process -> LedLabel]
            [] driver = "sem"       -> Sem!TypeOK
            [] driver = "spinlock"  -> Spinlock!TypeOK
            [] driver = "atomic"    -> Atomic!TypeOK
            [] driver = "atomic_up" -> AtomicUP!TypeOK

(* led.c and those derived from it keep one copy of the LEDs' state, and it is  *)
(* the register's; led_nums.c keeps one per minor, and they drift apart.        *)
OneShadowMatchesRegister ==
  driver # "minors" => \A m \in OneMinor : ShadowMatchesRegister(m)

(* Every driver that refuses a second open gives the device to one task only.   *)
ExclusiveHolder ==
  driver \in {"sem", "spinlock", "atomic", "atomic_up"} => Cardinality(Holders) <= 1

(* That task reads back what it set, whatever it and others tried in between.   *)
ReadsOwnWritesIfExclusive ==
  driver \in {"sem", "spinlock", "atomic", "atomic_up"} => ReadsOwnWrites

(* led_available is what is left of 1 after every open file and every failed    *)
(* open() not yet undone: no storm of refused opens makes it drift, so the      *)
(* device is neither lost for good nor given twice.                             *)
AvailableAccounts ==
  driver \in {"atomic", "atomic_up"} =>
    led_available = 1 - Cardinality(Holders) - Cardinality(Atomic!Undoing)

(* open() of led_sem.c and led_spinlock.c, and of led_atomic.c where nothing    *)
(* preempts it, implements exclusive open: -EBUSY only while a file is open.    *)
Strict == driver \in {"sem", "spinlock", "atomic_up"}
Exclusive == INSTANCE ExclusiveOpen
               WITH holder  <- IF Strict THEN Holders ELSE {},
                    refused <- IF Strict THEN refused ELSE {}
ExclusiveSpec == Exclusive!Spec
===============================================================================
