----------------------------- MODULE ExclusiveOpen -----------------------------
(***************************************************************************)
(* What led_sem.c, led_atomic.c and led_spinlock.c each promise about       *)
(* open(2): one open file at a time, and -EBUSY only while there is one.    *)
(***************************************************************************)
CONSTANT Process

VARIABLES holder,    \* tasks that have the device open
          refused    \* tasks whose latest open() returned -EBUSY

Init == holder = {} /\ refused = {}

Grant(p) == /\ holder = {}
            /\ holder' = {p}
            /\ refused' = refused \ {p}

Refuse(p) == /\ holder # {} /\ p \notin holder
             /\ refused' = refused \union {p}
             /\ UNCHANGED holder

Close(p) == /\ p \in holder
            /\ holder' = holder \ {p}
            /\ UNCHANGED refused

Next == \E p \in Process : Grant(p) \/ Refuse(p) \/ Close(p)

Spec == Init /\ [][Next]_<<holder, refused>>
===============================================================================
