------------------------------- MODULE LedAtomic -------------------------------
(***************************************************************************)
(* led_atomic.c: open() takes led_available from 1 to 0 with                *)
(* atomic_dec_and_test(), and undoes a failed decrement with atomic_inc().  *)
(* The two are separate atomic operations: with Preemption (a preemptible   *)
(* or multiprocessor kernel) others run between them.  The modules in the   *)
(* repository are built for a kernel that is neither.                       *)
(***************************************************************************)
EXTENDS LedIoctl

CONSTANT Preemption       \* TRUE or FALSE

VARIABLES led_available,
          refused         \* tasks whose latest open() returned -EBUSY

vars == <<ledVars, led_available, refused>>

Init == LedInit /\ led_available = 1 /\ refused = {}

(* Variant: atomic_dec() without the test. *)
OpenUntested(p) == /\ pc[p] = "user" /\ p \notin Holders
                   /\ led_available' = led_available - 1
                   /\ \E m \in Minor : Attach(p, m)
                   /\ refused' = refused \ {p}
                   /\ UNCHANGED ioctl

OpenGranted(p) == /\ pc[p] = "user" /\ p \notin Holders
                  /\ led_available - 1 = 0
                  /\ led_available' = led_available - 1
                  /\ \E m \in Minor : Attach(p, m)
                  /\ refused' = refused \ {p}
                  /\ UNCHANGED ioctl

OpenRefused(p) == /\ pc[p] = "user" /\ p \notin Holders
                  /\ led_available - 1 # 0
                  /\ refused' = refused \union {p}
                  /\ IF Preemption
                     THEN led_available' = led_available - 1 /\ Goto(p, "undo")
                     ELSE UNCHANGED <<led_available, pc>>
                  /\ UNCHANGED <<port, minor, bkl, cmd, tmp, val>>

(* Variant: a refused open() does not give back what it took. *)
OpenUndoForgotten(p) == /\ pc[p] = "undo"
                        /\ Goto(p, "user")
                        /\ UNCHANGED <<port, minor, bkl, cmd, tmp, val,
                                       led_available, refused>>

OpenUndo(p) == /\ pc[p] = "undo"
               /\ led_available' = led_available + 1
               /\ Goto(p, "user")
               /\ UNCHANGED <<port, minor, bkl, cmd, tmp, val, refused>>

Release(p) == /\ pc[p] = "user" /\ p \in Holders
              /\ led_available' = led_available + 1
              /\ Detach(p)
              /\ UNCHANGED <<ioctl, refused>>

Next == \E p \in Process :
          \/ OpenGranted(p) \/ OpenRefused(p) \/ OpenUndo(p) \/ Release(p)
          \/ Ioctl(p) /\ UNCHANGED <<led_available, refused>>

Spec == Init /\ [][Next]_vars
-------------------------------------------------------------------------------
(* Types. *)
TypeOK == /\ LedTypeOK
          /\ pc \in [Process -> LedLabel \union {"undo"}]
          /\ led_available \in 1 - Cardinality(Process) .. 1
          /\ refused \subseteq Process

Undoing == {p \in Process : pc[p] = "undo"}

(* open() behaves as promised.  With Preemption it does not: a second failed  *)
(* open() can be told -EBUSY, "already open", because a first one has not     *)
(* undone its decrement, though the device was closed in between.             *)
Exclusive == INSTANCE ExclusiveOpen WITH holder <- Holders
ExclusiveSpec == Exclusive!Spec
===============================================================================
