-------------------------------- MODULE Buttons --------------------------------
(***************************************************************************)
(* The interrupt driven key driver char_driver/5/mini2440_buttons.c: an     *)
(* interrupt handler that fills key_values and raises ev_press, and the     *)
(* read and poll that wait for it.  An interrupt handler runs between any   *)
(* two steps of a task.                                                     *)
(***************************************************************************)
EXTENDS ButtonLines

VARIABLES
  key_values, ev_press,
  waiting,      \* queued on button_waitq and not woken since
  signalled,
  count,        \* how many keys a read copies
  owed,         \* ghost: keys with a stored value that no read has copied or
                \* passed over since
  seen          \* ghost: keys whose handler ran since the line was requested

keys   == <<key_values, ev_press>>
sleep  == <<waiting, signalled>>
vars   == <<lineVars, keys, sleep, count, owed, seen>>

Init == /\ LinesInit
        /\ key_values = [k \in Key |-> 0] /\ ev_press = FALSE
        /\ waiting = {} /\ signalled = {}
        /\ count = [p \in Task |-> 0] /\ owed = {} /\ seen = {}

(* What a read is still to copy, by copy_to_user() byte after byte. *)
ToCopy(p) == IF pc[p] = "r_copy" THEN i[p] .. count[p] - 1 ELSE {}

Return(p) == /\ Goto(p, "user") /\ Count(p, 0)
             /\ count' = [count EXCEPT ![p] = 0]
             /\ signalled' = signalled \ {p}
-------------------------------------------------------------------------------
KeyMoves(k) == Toggle(k, {0, 1}) /\ UNCHANGED <<keys, sleep, count, owed, seen>>

(* Variant: the line is requested for falling edges only. *)
InterruptOnPress(k) ==
  /\ Interrupt(k)
  /\ seen' = seen \union {k}
  /\ IF level[k] = 1 /\ key_values[k] = 0
     THEN /\ key_values' = [key_values EXCEPT ![k] = 1]
          /\ ev_press' = TRUE
          /\ waiting' = {}
          /\ owed' = owed \union {k}
     ELSE UNCHANGED <<keys, waiting, owed>>
  /\ UNCHANGED <<signalled, count>>

(* Variant: no wake_up_interruptible(). *)
InterruptSilent(k) ==
  /\ Interrupt(k)
  /\ seen' = seen \union {k}
  /\ IF level[k] # key_values[k]
     THEN /\ key_values' = [key_values EXCEPT ![k] = level[k]]
          /\ ev_press' = TRUE
          /\ owed' = owed \union {k}
     ELSE UNCHANGED <<keys, owed>>
  /\ UNCHANGED <<sleep, count>>

buttons_interrupt(k) ==
  /\ Interrupt(k)
  /\ seen' = seen \union {k}
  /\ IF level[k] # key_values[k]
     THEN /\ key_values' = [key_values EXCEPT ![k] = level[k]]
          /\ ev_press' = TRUE
          /\ waiting' = {}
          /\ owed' = owed \union {k}
     ELSE UNCHANGED <<keys, waiting, owed>>
  /\ UNCHANGED <<signalled, count>>
-------------------------------------------------------------------------------
(* open and close *)

Using == {p \in Task : pc[p] \in {"r_wait", "r_test", "r_sched", "r_clear", "r_copy",
                                  "p_test", "p_sched"}}

(* While the file is closed for good nobody is in a call on it. *)
Lines(p) == /\ \/ OpenCall(p) \/ RequestIrq(p) \/ UnwindIrq(p)
               \/ Using = {} /\ CloseCall(p)
               \/ CloseIrq(p)
            /\ seen' = {k \in seen : irq'[k] = irq[k]}
            /\ UNCHANGED <<keys, sleep, count, owed>>

Open(p) == /\ OpenDone(p)
           /\ ev_press' = TRUE
           /\ UNCHANGED <<key_values, sleep, count, owed, seen>>
-------------------------------------------------------------------------------
(* read and poll *)

Signal(p) == /\ p \in Using \ signalled
             /\ signalled' = signalled \union {p}
             /\ UNCHANGED <<hw, keys, lines, seen, pc, i, waiting, count, owed>>

(* -EAGAIN for a nonblocking file without an event. *)
ReadCall(p) == /\ pc[p] = "user" /\ file # NoTask
               /\ IF ev_press THEN Goto(p, "r_clear")
                              ELSE Goto(p, "r_wait") \/ UNCHANGED pc
               /\ UNCHANGED <<hw, keys, lines, seen, i, sleep, count, owed>>

(* wait_event_interruptible(): queue, test, sleep, and queue again. *)
Wait(p) == /\ \/ pc[p] = "r_wait"
              \/ pc[p] = "r_sched" /\ (p \notin waiting \/ p \in signalled)
           /\ waiting' = waiting \union {p}
           /\ Goto(p, "r_test")
           /\ UNCHANGED <<hw, keys, lines, seen, i, signalled, count, owed>>

(* A signal also ends the wait; read ignores that and goes on as if woken. *)
WaitTest(p) == /\ pc[p] = "r_test"
               /\ IF ev_press \/ p \in signalled
                  THEN Goto(p, "r_clear") /\ waiting' = waiting \ {p}
                  ELSE Goto(p, "r_sched") /\ UNCHANGED waiting
               /\ UNCHANGED <<hw, keys, lines, seen, i, signalled, count, owed>>

(* The event is taken before the copy, of count keys, cut to the size of the array; *)
(* a short read passes over the others.  What count the call was given matters from *)
(* here on only, and is chosen here.                                                *)
ReadClear(p) == /\ pc[p] = "r_clear"
                /\ ev_press' = FALSE
                /\ \E n \in 0 .. N :
                     /\ owed' = owed \intersect 0 .. n - 1
                     /\ IF n = 0
                        THEN Return(p)
                        ELSE /\ Goto(p, "r_copy") /\ count' = [count EXCEPT ![p] = n]
                             /\ UNCHANGED <<i, signalled>>
                /\ UNCHANGED <<hw, key_values, lines, seen, waiting>>

CopyOne(p) == /\ owed' = owed \ {i[p]}
              /\ IF i[p] = count[p] - 1
                 THEN Return(p)
                 ELSE Count(p, i[p] + 1) /\ UNCHANGED <<pc, count, signalled>>

(* Variant: ev_press is cleared after the copy. *)
CopyKeyThenClear(p) ==
  /\ pc[p] = "r_copy"
  /\ CopyOne(p)
  /\ IF i[p] = count[p] - 1 THEN ev_press' = FALSE ELSE UNCHANGED ev_press
  /\ UNCHANGED <<hw, key_values, lines, seen, waiting>>

(* A fault passes over the keys that are still to be copied. *)
CopyKey(p) == /\ pc[p] = "r_copy"
              /\ CopyOne(p) \/ (owed' = owed \ ToCopy(p) /\ Return(p))
              /\ UNCHANGED <<hw, keys, lines, seen, waiting>>

PollCall(p) == /\ pc[p] = "user" /\ file # NoTask
               /\ waiting' = waiting \union {p}
               /\ Goto(p, "p_test")
               /\ UNCHANGED <<hw, keys, lines, seen, i, signalled, count, owed>>

PollTest(p) == /\ pc[p] = "p_test"
               /\ IF ev_press \/ p \in signalled
                  THEN Return(p) /\ waiting' = waiting \ {p}
                  ELSE Goto(p, "p_sched") /\ UNCHANGED <<i, sleep, count>>
               /\ UNCHANGED <<hw, keys, lines, seen, owed>>

PollWake(p) == /\ pc[p] = "p_sched" /\ (p \notin waiting \/ p \in signalled)
               /\ waiting' = waiting \union {p}
               /\ Goto(p, "p_test")
               /\ UNCHANGED <<hw, keys, lines, seen, i, signalled, count, owed>>

PollTimeout(p) == /\ pc[p] = "p_sched"
                  /\ Return(p)
                  /\ waiting' = waiting \ {p}
                  /\ UNCHANGED <<hw, keys, lines, seen, owed>>
-------------------------------------------------------------------------------
ReadStep(p) == Wait(p) \/ WaitTest(p) \/ ReadClear(p) \/ CopyKey(p)

Next == \/ \E p \in Task :
             \/ Lines(p) \/ Open(p)
             \/ ReadCall(p) \/ ReadStep(p)
             \/ PollCall(p) \/ PollTest(p) \/ PollWake(p) \/ PollTimeout(p)
             \/ Signal(p)
        \/ \E k \in Key : KeyMoves(k) \/ buttons_interrupt(k)

Spec == Init /\ [][Next]_vars

(* A read that can go on does, however often keys interrupt it. *)
FairSpec == Spec /\ \A p \in Task : WF_vars(ReadStep(p))
-------------------------------------------------------------------------------
Label == LineLabel \union {"r_wait", "r_test", "r_sched", "r_clear", "r_copy",
                            "p_test", "p_sched"}

Asleep(p) == pc[p] \in {"r_sched", "p_sched"} /\ p \in waiting /\ p \notin signalled

(* Types. *)
TypeOK == /\ LinesTypeOK /\ pc \in [Task -> Label]
          /\ key_values \in [Key -> {0, 1}] /\ ev_press \in BOOLEAN
          /\ waiting \subseteq Task /\ signalled \subseteq Task
          /\ count \in [Task -> 0 .. N] /\ owed \subseteq Key /\ seen \subseteq Key

(* No lost wake-up: nobody sleeps in read or poll once ev_press is set, by the *)
(* handler or by the next open(), which sets it and wakes nobody.              *)
NoSleepOverEvent == \A p \in Task : Asleep(p) => ~ev_press

(* No lost key: a value the handler stored is announced by ev_press, or a reader   *)
(* that has cleared ev_press is still to copy it, until a read has copied it or    *)
(* passed it over.  Passing over is what a read that asks for fewer keys, even for *)
(* none, or that faults does: it takes the event all the same (lines 123-127), and *)
(* another reader that sleeps does not hear of that value again.                   *)
NoLostEvent == ev_press \/ owed \subseteq UNION {ToCopy(p) : p \in Task}

Reading == {p \in Task : pc[p] \in {"r_wait", "r_test", "r_sched", "r_clear"}}

(* While somebody waits in read, no stored value stays where no read looks: none   *)
(* of several readers sleeps on, and none takes the event away and leaves a value  *)
(* that it was asked for.  With reads that ask for all keys and do not fault the   *)
(* value is copied; a short or failed one may pass it over, as above.              *)
ValueReachesReader == \A k \in Key : k \in owed /\ Reading # {} ~> k \notin owed

(* Once a key's handler has run for this open, key_values is the key's state    *)
(* whenever no edge is waiting to be handled, however the key bounced.          *)
KeyValuesFollowKeys ==
  \A k \in seen : irq[k] # NoTask /\ k \notin pending => key_values[k] = level[k]
===============================================================================
