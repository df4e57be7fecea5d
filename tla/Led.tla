--------------------------------- MODULE Led ---------------------------------
(* led.c and led_nums.c: any number of tasks open the device. *)
EXTENDS LedIoctl

Open(p) == /\ pc[p] = "user" /\ p \notin Holders
           /\ \E m \in Minor : Attach(p, m)
           /\ UNCHANGED ioctl

Release(p) == /\ pc[p] = "user" /\ p \in Holders
              /\ Detach(p)
              /\ UNCHANGED ioctl

Next == \E p \in Process : Open(p) \/ Release(p) \/ Ioctl(p)

Spec == LedInit /\ [][Next]_ledVars
-------------------------------------------------------------------------------
(* Types. *)
TypeOK == LedTypeOK /\ pc \in [Process -> LedLabel]
===============================================================================
