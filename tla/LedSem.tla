-------------------------------- MODULE LedSem --------------------------------
(* led_sem.c: open() takes the semaphore led_lock with down_trylock(). *)
EXTENDS LedIoctl

VARIABLES led_lock,   \* count of the semaphore
          refused     \* tasks whose latest open() returned -EBUSY

vars == <<ledVars, led_lock, refused>>

Init == LedInit /\ led_lock = 1 /\ refused = {}

OpenGranted(p) == /\ pc[p] = "user" /\ p \notin Holders
                  /\ led_lock > 0
                  /\ led_lock' = led_lock - 1
                  /\ \E m \in Minor : Attach(p, m)
                  /\ refused' = refused \ {p}
                  /\ UNCHANGED ioctl

(* Variant: the refused open() also calls up(). *)
OpenRefusedUps(p) == /\ pc[p] = "user" /\ p \notin Holders
                     /\ led_lock = 0
                     /\ led_lock' = led_lock + 1
                     /\ refused' = refused \union {p}
                     /\ UNCHANGED ledVars

OpenRefused(p) == /\ pc[p] = "user" /\ p \notin Holders
                  /\ led_lock = 0
                  /\ refused' = refused \union {p}
                  /\ UNCHANGED <<ledVars, led_lock>>

(* Variant: release() forgets up(). *)
ReleaseKeepsLock(p) == /\ pc[p] = "user" /\ p \in Holders
                       /\ Detach(p)
                       /\ UNCHANGED <<ioctl, led_lock, refused>>

Release(p) == /\ pc[p] = "user" /\ p \in Holders
              /\ led_lock' = led_lock + 1
              /\ Detach(p)
              /\ UNCHANGED <<ioctl, refused>>

Next == \E p \in Process :
          \/ OpenGranted(p) \/ OpenRefused(p) \/ Release(p)
          \/ Ioctl(p) /\ UNCHANGED <<led_lock, refused>>

Spec == Init /\ [][Next]_vars
-------------------------------------------------------------------------------
(* Types; the semaphore counts down once for the task that has the device. *)
TypeOK == /\ LedTypeOK
          /\ pc \in [Process -> LedLabel]
          /\ led_lock \in {0, 1}
          /\ refused \subseteq Process

(* open() behaves as promised: one file at a time, -EBUSY only while there is one. *)
Exclusive == INSTANCE ExclusiveOpen WITH holder <- Holders
ExclusiveSpec == Exclusive!Spec
===============================================================================
