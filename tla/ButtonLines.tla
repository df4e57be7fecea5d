------------------------------ MODULE ButtonLines ------------------------------
(***************************************************************************)
(* The keys, their interrupt lines, and the open() and close() that take    *)
(* and give back all lines: the same code in mini2440_buttons.c,            *)
(* buttons_tsklet.c and buttons_workqueue.c.  What a handler does, and the  *)
(* other calls, are in the modules that extend this one.                    *)
(*                                                                          *)
(* Only one process can have the device open, because open() needs every    *)
(* line for itself.  A task is a thread of some process; once the file is   *)
(* open all threads of the process may use it.                              *)
(***************************************************************************)
EXTENDS Integers, FiniteSets

CONSTANTS Task, NoTask,
          N                 \* number of keys; key i is button_irqs[i]

ASSUME NAssumption == N \in Nat \ {0}
ASSUME TaskAssumption == NoTask \notin Task

Key == 0 .. N - 1

VARIABLES
  level,        \* 1 while the key is held down (the pin is low)
  pending,      \* keys whose line has an edge latched and not handled
  irq,          \* irq[k]: the task whose open() registered the handler
  file,         \* the task that has the device open
  pc, i         \* and the loop counter of open, close and the copy

hw       == <<level, pending>>
lines    == <<irq, file>>
lineVars == <<hw, lines, pc, i>>

LinesInit == /\ level \in [Key -> {0, 1}] /\ pending = {}
             /\ irq = [k \in Key |-> NoTask] /\ file = NoTask
             /\ pc = [p \in Task |-> "user"] /\ i = [p \in Task |-> 0]

Goto(p, label) == pc' = [pc EXCEPT ![p] = label]
Count(p, n)    == i' = [i EXCEPT ![p] = n]
-------------------------------------------------------------------------------
(* The keys and the interrupt controller, which latches a change to one of the *)
(* levels in edges; on a line nobody requested it may or may not.              *)
Toggle(k, edges) ==
  /\ level' = [level EXCEPT ![k] = 1 - level[k]]
  /\ \/ pending' = IF 1 - level[k] \in edges THEN pending \union {k} ELSE pending
     \/ irq[k] = NoTask /\ UNCHANGED pending
  /\ UNCHANGED <<lines, pc, i>>

(* The controller's part of an interrupt: the edge is acknowledged. *)
Interrupt(k) == /\ k \in pending /\ irq[k] # NoTask
                /\ pending' = pending \ {k}
                /\ UNCHANGED <<level, lines, pc, i>>
-------------------------------------------------------------------------------
(* open *)

OpenCall(p) == /\ pc[p] = "user"
               /\ Goto(p, "request")
               /\ UNCHANGED <<hw, lines, i>>

(* request_irq() of line i[p], exclusive: taken, or refused for whatever reason. *)
RequestIrq(p) ==
  /\ pc[p] = "request" /\ i[p] < N
  /\ \/ /\ irq[i[p]] = NoTask
        /\ irq' = [irq EXCEPT ![i[p]] = p]
        /\ Count(p, i[p] + 1)
        /\ UNCHANGED pc
     \/ /\ Goto(p, "unwind")
        /\ UNCHANGED <<irq, i>>
  /\ UNCHANGED <<hw, file>>

OpenDone(p) == /\ pc[p] = "request" /\ i[p] = N
               /\ file' = p
               /\ Goto(p, "user") /\ Count(p, 0)
               /\ UNCHANGED <<hw, irq>>

(* Variant: the loop starts at the line that was refused. *)
UnwindRefused(p) ==
  /\ pc[p] = "unwind"
  /\ IF i[p] < 0
     THEN Goto(p, "user") /\ Count(p, 0) /\ UNCHANGED irq
     ELSE /\ irq' = [irq EXCEPT ![i[p]] = NoTask]
          /\ Count(p, i[p] - 1)
          /\ UNCHANGED pc
  /\ UNCHANGED <<hw, file>>

(* The error path gives back lines i-1 down to 0, last taken first. *)
UnwindIrq(p) ==
  /\ pc[p] = "unwind"
  /\ IF i[p] = 0
     THEN Goto(p, "user") /\ UNCHANGED <<irq, i>>
     ELSE /\ irq' = [irq EXCEPT ![i[p] - 1] = NoTask]
          /\ Count(p, i[p] - 1)
          /\ UNCHANGED pc
  /\ UNCHANGED <<hw, file>>
-------------------------------------------------------------------------------
(* close, when the last reference to the file is gone *)

CloseCall(p) == /\ pc[p] = "user" /\ file = p
                /\ file' = NoTask
                /\ Goto(p, "close")
                /\ UNCHANGED <<hw, irq, i>>

CloseIrq(p) == /\ pc[p] = "close"
               /\ irq' = [irq EXCEPT ![i[p]] = NoTask]
               /\ IF i[p] = N - 1 THEN Goto(p, "user") /\ Count(p, 0)
                                  ELSE Count(p, i[p] + 1) /\ UNCHANGED pc
               /\ UNCHANGED <<hw, file>>
-------------------------------------------------------------------------------
LineLabel == {"user", "request", "unwind", "close"}

(* Types, but for pc: the other calls add labels of their own. *)
LinesTypeOK == /\ level \in [Key -> {0, 1}] /\ pending \subseteq Key
               /\ irq \in [Key -> Task \union {NoTask}]
               /\ file \in Task \union {NoTask}
               /\ i \in [Task -> 0 .. N]

(* The file has every line or none, and a line is registered only for the open  *)
(* file or for an open or close in progress: no error path, and no overlap of   *)
(* one task's close with another's open, leaks a line or frees another's.       *)
LinesFollowFile ==
  /\ file # NoTask => \A k \in Key : irq[k] = file
  /\ \A k \in Key : irq[k] # NoTask =>
       \/ irq[k] = file
       \/ pc[irq[k]] \in {"request", "unwind"} /\ k < i[irq[k]]
       \/ pc[irq[k]] = "close" /\ k >= i[irq[k]]
===============================================================================
