------------------------------ MODULE LedSpinlock ------------------------------
(***************************************************************************)
(* led_spinlock.c: open() and release() change user_count under the spin    *)
(* lock led_lock.                                                           *)
(***************************************************************************)
EXTENDS LedIoctl

VARIABLES led_lock,     \* the task that holds the spin lock
          user_count,
          refused       \* tasks whose latest open() returned -EBUSY

vars == <<ledVars, led_lock, user_count, refused>>

Init == /\ LedInit
        /\ led_lock = NoProcess /\ user_count = 0 /\ refused = {}

(* Variant: no spin_lock_irqsave(). *)
OpenEnterUnlocked(p) == /\ pc[p] = "user" /\ p \notin Holders
                        /\ Goto(p, "test")
                        /\ UNCHANGED <<port, minor, bkl, cmd, tmp, val, led_lock,
                                       user_count, refused>>

OpenEnter(p) == /\ pc[p] = "user" /\ p \notin Holders
                /\ led_lock = NoProcess
                /\ led_lock' = p
                /\ Goto(p, "test")
                /\ UNCHANGED <<port, minor, bkl, cmd, tmp, val, user_count, refused>>

(* Variant: a refused open() is counted too. *)
OpenTestCounts(p) ==
  /\ pc[p] = "test"
  /\ IF user_count = 0
     THEN Goto(p, "take") /\ UNCHANGED <<led_lock, refused, user_count>>
     ELSE /\ user_count' = user_count + 1
          /\ led_lock' = NoProcess
          /\ refused' = refused \union {p}
          /\ Goto(p, "user")
  /\ UNCHANGED <<port, minor, bkl, cmd, tmp, val>>

OpenTest(p) == /\ pc[p] = "test"
               /\ IF user_count = 0
                  THEN Goto(p, "take") /\ UNCHANGED <<led_lock, refused>>
                  ELSE /\ led_lock' = NoProcess
                       /\ refused' = refused \union {p}
                       /\ Goto(p, "user")
               /\ UNCHANGED <<port, minor, bkl, cmd, tmp, val, user_count>>

(* user_count++, unlock, private_data *)
OpenTake(p) == /\ pc[p] = "take"
               /\ user_count' = user_count + 1
               /\ led_lock' = NoProcess
               /\ \E m \in Minor : Attach(p, m)
               /\ refused' = refused \ {p}
               /\ Goto(p, "user")
               /\ UNCHANGED <<bkl, cmd, tmp, val>>

ReleaseEnter(p) == /\ pc[p] = "user" /\ p \in Holders
                   /\ led_lock = NoProcess
                   /\ led_lock' = p
                   /\ Goto(p, "release")
                   /\ UNCHANGED <<port, minor, bkl, cmd, tmp, val, user_count, refused>>

Release(p) == /\ pc[p] = "release"
              /\ user_count' = user_count - 1
              /\ led_lock' = NoProcess
              /\ Detach(p)
              /\ Goto(p, "user")
              /\ UNCHANGED <<bkl, cmd, tmp, val, refused>>

Next == \E p \in Process :
          \/ OpenEnter(p) \/ OpenTest(p) \/ OpenTake(p)
          \/ ReleaseEnter(p) \/ Release(p)
          \/ Ioctl(p) /\ UNCHANGED <<led_lock, user_count, refused>>

Spec == Init /\ [][Next]_vars
-------------------------------------------------------------------------------
(* Types; user_count is the number of open files. *)
TypeOK == /\ LedTypeOK
          /\ pc \in [Process -> LedLabel \union {"test", "take", "release"}]
          /\ led_lock \in Process \union {NoProcess}
          /\ user_count \in {0, 1}
          /\ refused \subseteq Process

(* open() behaves as promised: one file at a time, -EBUSY only while there is one. *)
Exclusive == INSTANCE ExclusiveOpen WITH holder <- Holders
ExclusiveSpec == Exclusive!Spec
===============================================================================
