----------------------------- MODULE ButtonsProofs -----------------------------
(***************************************************************************)
(* Proofs about the interrupt driven key driver, for any number of keys and *)
(* tasks: interrupt lines follow the file, no wake-up and no key value is   *)
(* lost, and key_values follows the keys.                                   *)
(***************************************************************************)
EXTENDS Buttons, TLAPS

CallLabel == Label \ {"request", "unwind", "close"}

(* The loop counter is 0 outside the three loops, and an index inside two of them. *)
Counters == \A p \in Task : /\ pc[p] = "close" => i[p] < N
                            /\ pc[p] = "r_copy" => i[p] < count[p]
                            /\ pc[p] \in CallLabel \ {"r_copy"} => i[p] = 0

(* The file has every line, and its owner is in no loop over lines. *)
FileHasLines == \A p \in Task : file = p => /\ \A k \in Key : irq[k] = p
                                            /\ pc[p] # "close"
                                            /\ pc[p] \in {"request", "unwind"} => i[p] = 0

(* Any other task has just the lines that its loop has taken or not yet freed. *)
LoopHasLines ==
  \A p \in Task : file # p => \A k \in Key :
     irq[k] = p <=> \/ pc[p] \in {"request", "unwind"} /\ k < i[p]
                    \/ pc[p] = "close" /\ k >= i[p]

LinesInv == TypeOK /\ Counters /\ FileHasLines /\ LoopHasLines

(* Who is in a call has the file open. *)
CallersHaveFile == Using # {} => file # NoTask

IInv == LinesInv /\ CallersHaveFile /\ NoSleepOverEvent /\ NoLostEvent /\ KeyValuesFollowKeys
-------------------------------------------------------------------------------
(* What the steps of read and poll have in common: they leave files and lines alone, *)
(* and move one task between labels outside open and close.                          *)
CallStep(p) == /\ UNCHANGED <<hw, lines, key_values, seen>>
               /\ pc[p] \in CallLabel
               /\ pc' \in [Task -> Label] /\ i' \in [Task -> 0 .. N]
               /\ count' \in [Task -> 0 .. N]
               /\ \A q \in Task \ {p} : pc'[q] = pc[q] /\ i'[q] = i[q] /\ count'[q] = count[q]
               /\ pc'[p] \in CallLabel
               /\ pc'[p] = "r_copy" => i'[p] < count'[p]
               /\ pc'[p] # "r_copy" => i'[p] = 0

ReadOrPoll(p) == \/ ReadCall(p) \/ ReadStep(p)
                 \/ PollCall(p) \/ PollTest(p) \/ PollWake(p) \/ PollTimeout(p)

LEMMA CallSteps ==
  ASSUME LinesInv, NEW p \in Task, ReadOrPoll(p)
  PROVE  CallStep(p)
<1> USE NAssumption DEF LinesInv, TypeOK, LinesTypeOK, Counters, Label, LineLabel, CallLabel,
                        CallStep, Goto, Count, Return, keys
<1>1. CASE ReadCall(p)
  BY <1>1 DEF ReadCall
<1>2. CASE Wait(p)
  BY <1>2 DEF Wait
<1>3. CASE WaitTest(p)
  BY <1>3 DEF WaitTest
<1>4. CASE ReadClear(p)
  BY <1>4 DEF ReadClear
<1>5. CASE CopyKey(p)
  <2>1. i[p] \in 0 .. N /\ count[p] \in 0 .. N /\ i[p] < count[p]
    BY <1>5 DEF CopyKey
  <2> QED
    BY <1>5, <2>1 DEF CopyKey, CopyOne
<1>6. CASE PollCall(p)
  BY <1>6 DEF PollCall
<1>7. CASE PollTest(p)
  BY <1>7 DEF PollTest
<1>8. CASE PollWake(p)
  BY <1>8 DEF PollWake
<1>9. CASE PollTimeout(p)
  BY <1>9 DEF PollTimeout
<1> QED
  BY <1>1, <1>2, <1>3, <1>4, <1>5, <1>6, <1>7, <1>8, <1>9 DEF ReadOrPoll, ReadStep
-------------------------------------------------------------------------------
(* open and close: each step keeps LinesInv. *)

LineStep(p) == OpenCall(p) \/ RequestIrq(p) \/ OpenDone(p) \/ UnwindIrq(p) \/ CloseCall(p)
               \/ CloseIrq(p)

(* The types that these steps change. *)
LEMMA LineStepTypes ==
  ASSUME LinesInv, NEW p \in Task, LineStep(p)
  PROVE  /\ irq' \in [Key -> Task \union {NoTask}] /\ file' \in Task \union {NoTask}
         /\ pc' \in [Task -> Label] /\ i' \in [Task -> 0 .. N]
         /\ UNCHANGED hw
         /\ \A q \in Task \ {p} : pc'[q] = pc[q] /\ i'[q] = i[q]
<1> USE NAssumption DEF LinesInv, TypeOK, LinesTypeOK, Counters, Label, LineLabel, Goto, Count
<1>1. CASE OpenCall(p)
  BY <1>1 DEF OpenCall, lines
<1>2. CASE RequestIrq(p)
  <2>1. i[p] \in Key /\ i[p] + 1 \in 0 .. N
    BY <1>2 DEF RequestIrq, Key
  <2> QED
    BY <1>2, <2>1 DEF RequestIrq
<1>3. CASE OpenDone(p)
  BY <1>3 DEF OpenDone
<1>4. CASE UnwindIrq(p)
  <2>1. i[p] # 0 => i[p] - 1 \in Key /\ i[p] - 1 \in 0 .. N
    BY <1>4 DEF UnwindIrq, Key
  <2> QED
    BY <1>4, <2>1 DEF UnwindIrq
<1>5. CASE CloseCall(p)
  BY <1>5 DEF CloseCall
<1>6. CASE CloseIrq(p)
  <2>1. i[p] \in Key /\ (i[p] # N - 1 => i[p] + 1 \in 0 .. N)
    BY <1>6 DEF CloseIrq, Key
  <2> QED
    BY <1>6, <2>1 DEF CloseIrq
<1> QED
  BY <1>1, <1>2, <1>3, <1>4, <1>5, <1>6 DEF LineStep

(* A file whose lines are not all its owner's does not exist. *)
LEMMA NoFileIfLineFree ==
  ASSUME LinesInv, NEW k \in Key, irq[k] # file
  PROVE  file = NoTask
  BY DEF LinesInv, TypeOK, LinesTypeOK, FileHasLines

LEMMA LineStepKeepsLines ==
  ASSUME LinesInv, NEW p \in Task, LineStep(p), UNCHANGED count
  PROVE  Counters' /\ FileHasLines' /\ LoopHasLines'
<1> USE NAssumption, TaskAssumption
<1>t. /\ irq \in [Key -> Task \union {NoTask}] /\ file \in Task \union {NoTask}
      /\ pc \in [Task -> Label] /\ i \in [Task -> 0 .. N]
  BY DEF LinesInv, TypeOK, LinesTypeOK
<1>1. CASE OpenCall(p)
  <2>1. pc[p] = "user" /\ Goto(p, "request") /\ UNCHANGED <<irq, file, i>>
    BY <1>1 DEF OpenCall, lines
  <2>2. i[p] = 0
    BY <2>1 DEF LinesInv, Counters, CallLabel, Label, LineLabel
  <2>3. Counters' /\ FileHasLines'
    BY <2>1, <2>2, <1>t DEF Goto, LinesInv, Counters, FileHasLines, CallLabel
  <2>4. LoopHasLines'
    BY <2>1, <2>2, <1>t DEF Goto, LinesInv, LoopHasLines, Key
  <2> QED
    BY <2>3, <2>4
<1>2. CASE RequestIrq(p)
  <2>1. CASE irq[i[p]] = NoTask /\ irq' = [irq EXCEPT ![i[p]] = p] /\ Count(p, i[p] + 1)
             /\ UNCHANGED <<pc, file>>
    <3>1. i[p] \in Key
      BY <1>2, <1>t DEF RequestIrq, Key
    <3>2. file = NoTask
      BY <3>1, <2>1, <1>t, NoFileIfLineFree
    <3>3. Counters'
      BY <1>2, <2>1, <1>t DEF LinesInv, Counters, Count, RequestIrq, CallLabel
    <3>4. FileHasLines'
      BY <3>2, <2>1 DEF FileHasLines
    <3>5. LoopHasLines'
      <4>1. SUFFICES ASSUME NEW q \in Task, NEW k \in Key
                     PROVE  irq'[k] = q <=> \/ pc[q] \in {"request", "unwind"} /\ k < i'[q]
                                            \/ pc[q] = "close" /\ k >= i'[q]
        BY <2>1 DEF LoopHasLines
      <4>2. irq[k] = q <=> \/ pc[q] \in {"request", "unwind"} /\ k < i[q]
                           \/ pc[q] = "close" /\ k >= i[q]
        BY <3>2 DEF LinesInv, LoopHasLines
      <4>3. CASE q = p
        BY <4>2, <4>3, <3>1, <2>1, <1>2, <1>t DEF Count, RequestIrq, Key
      <4>4. CASE q # p
        BY <4>2, <4>4, <3>1, <2>1, <1>t DEF Count
      <4> QED
        BY <4>3, <4>4
    <3> QED
      BY <3>3, <3>4, <3>5
  <2>2. CASE Goto(p, "unwind") /\ UNCHANGED <<irq, i, file>>
    BY <1>2, <2>2, <1>t DEF RequestIrq, Goto, LinesInv, Counters, FileHasLines, LoopHasLines, CallLabel
  <2> QED
    BY <1>2, <2>1, <2>2 DEF RequestIrq
<1>3. CASE OpenDone(p)
  <2>1. file # p
    BY <1>3, <1>t DEF OpenDone, LinesInv, FileHasLines
  <2>2. \A k \in Key : irq[k] = p
    BY <1>3, <2>1, <1>t DEF OpenDone, LinesInv, LoopHasLines, Key
  <2>3. file = NoTask
    BY <2>1, <2>2, NoFileIfLineFree DEF Key
  <2> QED
    BY <1>3, <2>2, <2>3, <1>t DEF OpenDone, Goto, Count, LinesInv, Counters, FileHasLines,
                                   LoopHasLines, CallLabel
<1>4. CASE UnwindIrq(p)
  <2>1. CASE i[p] = 0
    BY <1>4, <2>1, <1>t DEF UnwindIrq, Goto, LinesInv, Counters, FileHasLines, LoopHasLines,
                            CallLabel, Key
  <2>2. CASE i[p] # 0
    <3>1. i[p] - 1 \in Key /\ file # p
      BY <1>4, <2>2, <1>t DEF UnwindIrq, LinesInv, FileHasLines, Key
    <3>2. irq[i[p] - 1] = p
      BY <1>4, <3>1, <1>t DEF UnwindIrq, LinesInv, LoopHasLines
    <3>3. file = NoTask
      BY <3>1, <3>2, NoFileIfLineFree
    <3>4. /\ irq' = [irq EXCEPT ![i[p] - 1] = NoTask] /\ Count(p, i[p] - 1)
          /\ pc[p] = "unwind" /\ UNCHANGED <<pc, file>>
      BY <1>4, <2>2 DEF UnwindIrq
    <3>5. Counters' /\ FileHasLines'
      BY <3>3, <3>4, <1>t DEF LinesInv, Counters, FileHasLines, Count, CallLabel
    <3>6. LoopHasLines'
      <4>1. SUFFICES ASSUME NEW q \in Task, NEW k \in Key
                     PROVE  irq'[k] = q <=> \/ pc[q] \in {"request", "unwind"} /\ k < i'[q]
                                            \/ pc[q] = "close" /\ k >= i'[q]
        BY <3>4 DEF LoopHasLines
      <4>2. irq[k] = q <=> \/ pc[q] \in {"request", "unwind"} /\ k < i[q]
                           \/ pc[q] = "close" /\ k >= i[q]
        BY <3>3 DEF LinesInv, LoopHasLines
      <4> QED
        BY <4>2, <3>1, <3>2, <3>4, <1>t DEF Count, Key
    <3> QED
      BY <3>5, <3>6
  <2> QED
    BY <2>1, <2>2
<1>5. CASE CloseCall(p)
  BY <1>5, <1>t DEF CloseCall, Goto, LinesInv, Counters, FileHasLines, LoopHasLines, CallLabel, Key,
                    Label, LineLabel
<1>6. CASE CloseIrq(p)
  <2>1. i[p] \in Key /\ file # p /\ pc[p] = "close"
    BY <1>6, <1>t DEF CloseIrq, LinesInv, Counters, FileHasLines, Key
  <2>2. irq[i[p]] = p
    BY <2>1, <1>t DEF LinesInv, LoopHasLines, Key
  <2>3. file = NoTask
    BY <2>1, <2>2, NoFileIfLineFree
  <2>4. irq' = [irq EXCEPT ![i[p]] = NoTask] /\ UNCHANGED file
    BY <1>6 DEF CloseIrq
  <2>5. \/ i[p] = N - 1 /\ Goto(p, "user") /\ Count(p, 0)
        \/ i[p] # N - 1 /\ Count(p, i[p] + 1) /\ UNCHANGED pc
    BY <1>6 DEF CloseIrq
  <2>6. Counters' /\ FileHasLines'
    BY <2>1, <2>3, <2>4, <2>5, <1>t DEF LinesInv, Counters, FileHasLines, Goto, Count, CallLabel, Key
  <2>7. LoopHasLines'
    <3>1. SUFFICES ASSUME NEW q \in Task, NEW k \in Key
                   PROVE  irq'[k] = q <=> \/ pc'[q] \in {"request", "unwind"} /\ k < i'[q]
                                          \/ pc'[q] = "close" /\ k >= i'[q]
      BY DEF LoopHasLines
    <3>2. irq[k] = q <=> \/ pc[q] \in {"request", "unwind"} /\ k < i[q]
                         \/ pc[q] = "close" /\ k >= i[q]
      BY <2>3 DEF LinesInv, LoopHasLines
    <3> QED
      BY <3>2, <2>1, <2>2, <2>4, <2>5, <1>t DEF Goto, Count, Key
  <2> QED
    BY <2>6, <2>7
<1> QED
  BY <1>1, <1>2, <1>3, <1>4, <1>5, <1>6 DEF LineStep
-------------------------------------------------------------------------------
(* The other steps keep LinesInv too. *)

LEMMA CallStepKeepsLines ==
  ASSUME LinesInv, NEW p \in Task, CallStep(p)
  PROVE  Counters' /\ FileHasLines' /\ LoopHasLines'
  BY DEF CallStep, lines, LinesInv, Counters, FileHasLines, LoopHasLines, CallLabel, Label,
         LineLabel

LEMMA StillStepKeepsLines ==
  ASSUME LinesInv, UNCHANGED <<lines, pc, i, count>>
  PROVE  Counters' /\ FileHasLines' /\ LoopHasLines'
  BY DEF lines, LinesInv, Counters, FileHasLines, LoopHasLines

LEMMA InterruptTypes ==
  ASSUME LinesInv, NEW k \in Key, KeyMoves(k) \/ buttons_interrupt(k)
  PROVE  TypeOK' /\ UNCHANGED <<lines, pc, i, count>>
<1>1. CASE KeyMoves(k)
  <2>1. level' \in [Key -> {0, 1}] /\ pending' \subseteq Key /\ UNCHANGED <<lines, pc, i, count>>
    BY <1>1 DEF KeyMoves, Toggle, LinesInv, TypeOK, LinesTypeOK
  <2> QED
    BY <1>1, <2>1 DEF KeyMoves, LinesInv, TypeOK, LinesTypeOK, lines, keys, sleep
<1>2. CASE buttons_interrupt(k)
  <2>1. pending' \subseteq Key /\ UNCHANGED <<level, lines, pc, i, signalled, count>>
    BY <1>2 DEF buttons_interrupt, Interrupt, LinesInv, TypeOK, LinesTypeOK
  <2>2. /\ key_values' \in [Key -> {0, 1}] /\ ev_press' \in BOOLEAN /\ waiting' \subseteq Task
        /\ seen' \subseteq Key /\ owed' \subseteq Key
    BY <1>2 DEF buttons_interrupt, LinesInv, TypeOK, LinesTypeOK, keys
  <2> QED
    BY <2>1, <2>2 DEF LinesInv, TypeOK, LinesTypeOK, lines
<1> QED
  BY <1>1, <1>2

(* The variables of read and poll keep their types. *)
LEMMA ReadOrPollTypes ==
  ASSUME LinesInv, NEW p \in Task, ReadOrPoll(p)
  PROVE  /\ ev_press' \in BOOLEAN /\ waiting' \subseteq Task /\ signalled' \subseteq Task
         /\ owed' \subseteq owed
<1> USE DEF LinesInv, TypeOK, keys, sleep, Return
<1>1. CASE ReadCall(p)
  BY <1>1 DEF ReadCall
<1>2. CASE Wait(p)
  BY <1>2 DEF Wait
<1>3. CASE WaitTest(p)
  BY <1>3 DEF WaitTest
<1>4. CASE ReadClear(p)
  BY <1>4 DEF ReadClear
<1>5. CASE CopyKey(p)
  BY <1>5 DEF CopyKey, CopyOne
<1>6. CASE PollCall(p)
  BY <1>6 DEF PollCall
<1>7. CASE PollTest(p)
  BY <1>7 DEF PollTest
<1>8. CASE PollWake(p)
  BY <1>8 DEF PollWake
<1>9. CASE PollTimeout(p)
  BY <1>9 DEF PollTimeout
<1> QED
  BY <1>1, <1>2, <1>3, <1>4, <1>5, <1>6, <1>7, <1>8, <1>9 DEF ReadOrPoll, ReadStep

(* open and close change nothing of read and poll but ev_press, which open sets. *)
LEMMA LineStepRest ==
  ASSUME NEW p \in Task, Lines(p) \/ Open(p)
  PROVE  /\ LineStep(p)
         /\ UNCHANGED <<key_values, waiting, signalled, count, owed>>
         /\ UNCHANGED ev_press \/ (ev_press' = TRUE /\ OpenDone(p))
         /\ seen' \subseteq seen /\ \A k \in seen' : irq'[k] = irq[k]
<1>1. CASE Lines(p)
  BY <1>1 DEF Lines, LineStep, keys, sleep
<1>2. CASE Open(p)
  BY <1>2 DEF Open, LineStep, OpenDone, sleep
<1> QED
  BY <1>1, <1>2

LEMMA LinesStep == LinesInv /\ [Next]_vars => LinesInv'
<1> SUFFICES ASSUME LinesInv, [Next]_vars
             PROVE  LinesInv'
  OBVIOUS
<1>1. ASSUME NEW p \in Task, Lines(p) \/ Open(p)
      PROVE  LinesInv'
  <2>1. LineStep(p)
    BY <1>1, LineStepRest
  <2>2. TypeOK'
    BY <1>1, <2>1, LineStepTypes, LineStepRest DEF LinesInv, TypeOK, LinesTypeOK, hw
  <2> QED
    BY <1>1, <2>1, <2>2, LineStepRest, LineStepKeepsLines DEF LinesInv
<1>2. ASSUME NEW p \in Task, ReadOrPoll(p)
      PROVE  LinesInv'
  <2>1. CallStep(p)
    BY <1>2, CallSteps
  <2>2. TypeOK'
    BY <1>2, <2>1, ReadOrPollTypes DEF CallStep, hw, lines, LinesInv, TypeOK, LinesTypeOK
  <2> QED
    BY <2>1, <2>2, CallStepKeepsLines DEF LinesInv
<1>3. ASSUME NEW p \in Task, Signal(p)
      PROVE  LinesInv'
  <2>1. TypeOK' /\ UNCHANGED <<lines, pc, i, count>>
    BY <1>3 DEF Signal, hw, keys, lines, LinesInv, TypeOK, LinesTypeOK
  <2> QED
    BY <2>1, StillStepKeepsLines DEF LinesInv
<1>4. ASSUME NEW k \in Key, KeyMoves(k) \/ buttons_interrupt(k)
      PROVE  LinesInv'
  BY <1>4, InterruptTypes, StillStepKeepsLines DEF LinesInv
<1>5. CASE UNCHANGED vars
  <2>1. TypeOK' /\ UNCHANGED <<lines, pc, i, count>>
    BY <1>5 DEF vars, lineVars, hw, lines, keys, sleep, LinesInv, TypeOK, LinesTypeOK
  <2> QED
    BY <2>1, StillStepKeepsLines DEF LinesInv
<1> QED
  BY <1>1, <1>2, <1>3, <1>4, <1>5 DEF Next, ReadOrPoll
-------------------------------------------------------------------------------
(* What the calls rely on. *)

(* An open that gets all lines finds no file, and so nobody in a call. *)
LEMMA OpenIsAlone ==
  ASSUME IInv, NEW p \in Task, OpenDone(p)
  PROVE  file = NoTask /\ Using = {}
<1>1. file # p
  <2>1. pc[p] = "request" /\ i[p] # 0
    BY NAssumption DEF OpenDone
  <2> QED
    BY <2>1 DEF IInv, LinesInv, FileHasLines
<1>2. \A k \in Key : irq[k] = p
  <2>1. pc[p] = "request" /\ \A k \in Key : k < i[p]
    BY NAssumption DEF OpenDone, Key
  <2> QED
    BY <1>1, <2>1 DEF IInv, LinesInv, LoopHasLines
<1>3. file = NoTask
  BY <1>1, <1>2, NAssumption, NoFileIfLineFree DEF IInv, Key
<1> QED
  BY <1>3 DEF IInv, CallersHaveFile

LEMMA CallersStep == IInv /\ [Next]_vars => CallersHaveFile'
<1> SUFFICES ASSUME IInv, [Next]_vars
             PROVE  CallersHaveFile'
  OBVIOUS
<1> USE DEF IInv, CallersHaveFile
<1>1. ASSUME NEW p \in Task, Lines(p) \/ Open(p)
      PROVE  CallersHaveFile'
  <2>1. \A q \in Task \ {p} : pc'[q] = pc[q]
    BY <1>1, LineStepRest, LineStepTypes
  <2>2. pc'[p] \in LineLabel
    BY <1>1, LineStepRest DEF LineStep, OpenCall, RequestIrq, OpenDone, UnwindIrq, CloseCall,
                              CloseIrq, Goto, LineLabel, LinesInv, TypeOK
  <2>3. Using' \subseteq Using
    BY <2>1, <2>2 DEF Using, LineLabel
  <2>4. CASE Open(p)
    BY <2>4, TaskAssumption DEF Open, OpenDone
  <2>5. CASE Lines(p)
    <3>1. Using = {} \/ UNCHANGED file
      BY <2>5 DEF Lines, OpenCall, RequestIrq, UnwindIrq, CloseIrq, lines
    <3> QED
      BY <3>1, <2>3
  <2> QED
    BY <1>1, <2>4, <2>5
<1>2. ASSUME NEW p \in Task, ReadOrPoll(p)
      PROVE  CallersHaveFile'
  <2>1. p \in Using \/ file # NoTask
    BY <1>2 DEF ReadOrPoll, ReadCall, ReadStep, Wait, WaitTest, ReadClear, CopyKey, PollCall,
                PollTest, PollWake, PollTimeout, Using
  <2>2. UNCHANGED file
    BY <1>2, CallSteps DEF CallStep, lines
  <2> QED
    BY <2>1, <2>2, <1>2, CallSteps DEF CallStep, Using
<1>3. ASSUME NEW p \in Task, Signal(p)
      PROVE  CallersHaveFile'
  BY <1>3 DEF Signal, lines, Using
<1>4. ASSUME NEW k \in Key, KeyMoves(k) \/ buttons_interrupt(k)
      PROVE  CallersHaveFile'
  BY <1>4, InterruptTypes DEF lines, Using
<1>5. CASE UNCHANGED vars
  BY <1>5 DEF vars, lineVars, lines, Using
<1> QED
  BY <1>1, <1>2, <1>3, <1>4, <1>5 DEF Next, ReadOrPoll
-------------------------------------------------------------------------------
(* No lost wake-up *)

LEMMA SleepStep == IInv /\ [Next]_vars => NoSleepOverEvent'
<1> SUFFICES ASSUME IInv, [Next]_vars
             PROVE  NoSleepOverEvent'
  OBVIOUS
<1> USE DEF NoSleepOverEvent, Asleep
<1>t. pc \in [Task -> Label] /\ NoSleepOverEvent
  BY DEF IInv, LinesInv, TypeOK
<1>1. ASSUME NEW p \in Task, Lines(p) \/ Open(p)
      PROVE  NoSleepOverEvent'
  <2>1. \A q \in Task : pc'[q] \in {"r_sched", "p_sched"} => pc'[q] = pc[q]
    <3>1. \A q \in Task \ {p} : pc'[q] = pc[q]
      BY <1>1, LineStepRest, LineStepTypes DEF IInv
    <3>2. pc'[p] \in LineLabel
      BY <1>1, <1>t, LineStepRest DEF LineStep, OpenCall, RequestIrq, OpenDone, UnwindIrq,
                                      CloseCall, CloseIrq, Goto, LineLabel
    <3> QED
      BY <3>1, <3>2 DEF LineLabel
  <2>2. UNCHANGED ev_press \/ Using = {}
    BY <1>1, LineStepRest, OpenIsAlone
  <2>3. UNCHANGED <<waiting, signalled>>
    BY <1>1, LineStepRest
  <2> QED
    BY <2>1, <2>2, <2>3, <1>t DEF Using
<1>2. ASSUME NEW p \in Task, ReadOrPoll(p)
      PROVE  NoSleepOverEvent'
  <2> USE <1>t DEF Goto, Return, keys, sleep
  <2>1. CASE ReadCall(p)
    BY <2>1 DEF ReadCall
  <2>2. CASE Wait(p)
    BY <2>2 DEF Wait
  <2>3. CASE WaitTest(p)
    BY <2>3 DEF WaitTest
  <2>4. CASE ReadClear(p)
    BY <2>4 DEF ReadClear
  <2>5. CASE CopyKey(p)
    BY <2>5 DEF CopyKey, CopyOne
  <2>6. CASE PollCall(p)
    BY <2>6 DEF PollCall
  <2>7. CASE PollTest(p)
    BY <2>7 DEF PollTest
  <2>8. CASE PollWake(p)
    BY <2>8 DEF PollWake
  <2>9. CASE PollTimeout(p)
    BY <2>9 DEF PollTimeout
  <2> QED
    BY <1>2, <2>1, <2>2, <2>3, <2>4, <2>5, <2>6, <2>7, <2>8, <2>9 DEF ReadOrPoll, ReadStep
<1>3. ASSUME NEW p \in Task, Signal(p)
      PROVE  NoSleepOverEvent'
  BY <1>3, <1>t DEF Signal, keys
<1>4. ASSUME NEW k \in Key, KeyMoves(k)
      PROVE  NoSleepOverEvent'
  BY <1>4, <1>t DEF KeyMoves, Toggle, keys, sleep
<1>5. ASSUME NEW k \in Key, buttons_interrupt(k)
      PROVE  NoSleepOverEvent'
  BY <1>5, <1>t DEF buttons_interrupt, Interrupt, keys
<1>6. CASE UNCHANGED vars
  BY <1>6, <1>t DEF vars, lineVars, keys, sleep
<1> QED
  BY <1>1, <1>2, <1>3, <1>4, <1>5, <1>6 DEF Next, ReadOrPoll
-------------------------------------------------------------------------------
(* No lost value *)

(* NoLostEvent survives a step that owes no more and leaves the readers alone, or *)
(* sets ev_press.                                                                   *)
LEMMA EventKept ==
  ASSUME NoLostEvent, owed' \subseteq owed, UNCHANGED ev_press \/ ev_press',
         \A q \in Task : pc[q] = "r_copy" => /\ pc'[q] = "r_copy"
                                            /\ i'[q] = i[q] /\ count'[q] = count[q]
  PROVE  NoLostEvent'
<1>1. \A q \in Task : ToCopy(q) \subseteq ToCopy(q)'
  BY DEF ToCopy
<1> QED
  BY <1>1 DEF NoLostEvent

(* What a reader copies or passes over is owed no more, and what it is still to copy *)
(* stays with it.                                                                     *)
LEMMA CopyKept ==
  ASSUME LinesInv, NEW p \in Task, CopyKey(p), NoLostEvent
  PROVE  NoLostEvent'
<1>1. /\ pc[p] = "r_copy" /\ UNCHANGED ev_press
      /\ i \in [Task -> 0 .. N] /\ count \in [Task -> 0 .. N] /\ pc \in [Task -> Label]
  BY DEF CopyKey, keys, LinesInv, TypeOK, LinesTypeOK
<1>2. \A q \in Task \ {p} : ToCopy(q)' = ToCopy(q)
  BY CallSteps DEF CallStep, ReadOrPoll, ReadStep, ToCopy
<1>3. owed' \subseteq owed /\ owed' \intersect ToCopy(p) \subseteq ToCopy(p)'
  <2>1. CASE CopyOne(p) /\ i[p] = count[p] - 1
    <3>1. ToCopy(p) = {i[p]} /\ owed' = owed \ {i[p]}
      BY <1>1, <2>1 DEF ToCopy, CopyOne
    <3> QED
      BY <3>1
  <2>2. CASE CopyOne(p) /\ i[p] # count[p] - 1
    <3>1. /\ owed' = owed \ {i[p]}
          /\ i'[p] = i[p] + 1 /\ pc'[p] = "r_copy" /\ count'[p] = count[p]
      BY <1>1, <2>2 DEF CopyOne, Count
    <3> QED
      BY <1>1, <3>1 DEF ToCopy
  <2>3. CASE owed' = owed \ ToCopy(p)
    BY <2>3
  <2> QED
    BY <2>1, <2>2, <2>3 DEF CopyKey
<1> QED
  BY <1>1, <1>2, <1>3 DEF NoLostEvent

LEMMA EventStep == IInv /\ [Next]_vars => NoLostEvent'
<1> SUFFICES ASSUME IInv, [Next]_vars
             PROVE  NoLostEvent'
  OBVIOUS
<1>t. /\ pc \in [Task -> Label] /\ i \in [Task -> 0 .. N] /\ NoLostEvent
      /\ owed \subseteq Key /\ LinesInv
  BY DEF IInv, LinesInv, TypeOK, LinesTypeOK
<1>1. ASSUME NEW p \in Task, Lines(p) \/ Open(p)
      PROVE  NoLostEvent'
  <2>1. pc[p] # "r_copy"
    BY <1>1, LineStepRest DEF LineStep, OpenCall, RequestIrq, OpenDone, UnwindIrq, CloseCall,
                              CloseIrq
  <2>2. \A q \in Task \ {p} : pc'[q] = pc[q] /\ i'[q] = i[q]
    BY <1>1, <1>t, LineStepRest, LineStepTypes
  <2> QED
    BY <1>1, <2>1, <2>2, <1>t, LineStepRest, EventKept
<1>2. ASSUME NEW p \in Task, ReadOrPoll(p)
      PROVE  NoLostEvent'
  <2>1. CallStep(p)
    BY <1>2, <1>t, CallSteps
  <2>2. CASE ReadClear(p)
    <3>1. PICK n \in 0 .. N :
            /\ owed' = owed \intersect 0 .. n - 1
            /\ \/ n = 0
               \/ Goto(p, "r_copy") /\ count' = [count EXCEPT ![p] = n] /\ UNCHANGED i
      BY <2>2 DEF ReadClear
    <3>2. CASE n = 0
      <4>1. owed' = {}
        BY <3>1, <3>2
      <4> QED
        BY <4>1 DEF NoLostEvent
    <3>3. CASE n # 0
      <4>1. i[p] = 0
        BY <2>2, <1>t DEF ReadClear, LinesInv, Counters, CallLabel, Label, LineLabel
      <4>2. count \in [Task -> 0 .. N]
        BY <1>t DEF LinesInv, TypeOK
      <4>3. ToCopy(p)' = 0 .. n - 1
        BY <3>1, <3>3, <4>1, <4>2, <1>t DEF Goto, ToCopy
      <4> QED
        BY <3>1, <4>3 DEF NoLostEvent
    <3> QED
      BY <3>2, <3>3
  <2>3. CASE CopyKey(p)
    BY <2>3, <1>t, CopyKept
  <2>4. CASE ReadCall(p) \/ Wait(p) \/ WaitTest(p) \/ PollCall(p) \/ PollTest(p)
             \/ PollWake(p) \/ PollTimeout(p)
    <3>1. pc[p] # "r_copy" /\ UNCHANGED <<ev_press, owed>>
      BY <2>4 DEF ReadCall, Wait, WaitTest, PollCall, PollTest, PollWake, PollTimeout, keys
    <3> QED
      BY <3>1, <2>1, <1>t, EventKept DEF CallStep
  <2> QED
    BY <1>2, <2>2, <2>3, <2>4 DEF ReadOrPoll, ReadStep
<1>3. ASSUME NEW p \in Task, Signal(p)
      PROVE  NoLostEvent'
  BY <1>3, <1>t, EventKept DEF Signal, keys
<1>4. ASSUME NEW k \in Key, KeyMoves(k)
      PROVE  NoLostEvent'
  BY <1>4, <1>t, EventKept DEF KeyMoves, Toggle, keys
<1>5. ASSUME NEW k \in Key, buttons_interrupt(k)
      PROVE  NoLostEvent'
  <2>1. ev_press' \/ UNCHANGED <<ev_press, owed, pc, i, count>>
    BY <1>5 DEF buttons_interrupt, Interrupt, keys
  <2> QED
    BY <2>1, <1>t, EventKept DEF NoLostEvent
<1>6. CASE UNCHANGED vars
  BY <1>6, <1>t, EventKept DEF vars, lineVars, keys
<1> QED
  BY <1>1, <1>2, <1>3, <1>4, <1>5, <1>6 DEF Next, ReadOrPoll
-------------------------------------------------------------------------------
(* The stored values and the keys *)

LEMMA ValuesStep == IInv /\ [Next]_vars => KeyValuesFollowKeys'
<1> SUFFICES ASSUME IInv, [Next]_vars
             PROVE  KeyValuesFollowKeys'
  OBVIOUS
<1> USE DEF KeyValuesFollowKeys
<1>t. /\ level \in [Key -> {0, 1}] /\ pending \subseteq Key /\ seen \subseteq Key
      /\ key_values \in [Key -> {0, 1}] /\ KeyValuesFollowKeys
  BY DEF IInv, LinesInv, TypeOK, LinesTypeOK
<1>1. ASSUME NEW p \in Task, Lines(p) \/ Open(p)
      PROVE  KeyValuesFollowKeys'
  <2>1. UNCHANGED <<level, pending>>
    BY <1>1, LineStepRest, LineStepTypes DEF IInv, hw
  <2> QED
    BY <1>1, <2>1, <1>t, LineStepRest
<1>2. ASSUME NEW p \in Task, ReadOrPoll(p)
      PROVE  KeyValuesFollowKeys'
  BY <1>2, <1>t, CallSteps DEF IInv, CallStep, hw, lines
<1>3. ASSUME NEW p \in Task, Signal(p)
      PROVE  KeyValuesFollowKeys'
  BY <1>3, <1>t DEF Signal, hw, lines, keys
<1>4. ASSUME NEW k \in Key, KeyMoves(k)
      PROVE  KeyValuesFollowKeys'
  <2>1. /\ level' = [level EXCEPT ![k] = 1 - level[k]]
        /\ pending' = pending \union {k} \/ (irq[k] = NoTask /\ UNCHANGED pending)
        /\ UNCHANGED <<irq, key_values, seen>>
    BY <1>4, <1>t DEF KeyMoves, Toggle, lines, keys
  <2> QED
    BY <2>1, <1>t
<1>5. ASSUME NEW k \in Key, buttons_interrupt(k)
      PROVE  KeyValuesFollowKeys'
  <2>1. /\ pending' = pending \ {k} /\ seen' = seen \union {k}
        /\ UNCHANGED <<level, irq>>
    BY <1>5 DEF buttons_interrupt, Interrupt, lines
  <2>2. key_values' = [key_values EXCEPT ![k] = level[k]]
    BY <1>5, <1>t DEF buttons_interrupt, keys
  <2> QED
    BY <2>1, <2>2, <1>t
<1>6. CASE UNCHANGED vars
  BY <1>6, <1>t DEF vars, lineVars, hw, lines, keys
<1> QED
  BY <1>1, <1>2, <1>3, <1>4, <1>5, <1>6 DEF Next, ReadOrPoll
-------------------------------------------------------------------------------
LEMMA Initially == Init => IInv
<1> SUFFICES ASSUME Init
             PROVE  IInv
  OBVIOUS
<1> USE NAssumption, TaskAssumption DEF Init, LinesInit
<1>1. TypeOK
  <2>1. LinesTypeOK /\ pc \in [Task -> Label]
    BY DEF LinesTypeOK, Label, LineLabel
  <2>2. /\ key_values \in [Key -> {0, 1}] /\ ev_press \in BOOLEAN
        /\ owed \subseteq Key /\ seen \subseteq Key
        /\ waiting \subseteq Task /\ signalled \subseteq Task
    OBVIOUS
  <2>3. count \in [Task -> 0 .. N]
    OBVIOUS
  <2> QED
    BY <2>1, <2>2, <2>3 DEF TypeOK
<1>2. Counters /\ FileHasLines /\ LoopHasLines
  BY DEF Counters, FileHasLines, LoopHasLines, CallLabel
<1>3. CallersHaveFile /\ NoSleepOverEvent /\ NoLostEvent /\ KeyValuesFollowKeys
  BY DEF CallersHaveFile, Using, NoSleepOverEvent, Asleep, NoLostEvent, KeyValuesFollowKeys
<1> QED
  BY <1>1, <1>2, <1>3 DEF IInv, LinesInv

THEOREM Invariance == Spec => []IInv
<1>1. IInv /\ [Next]_vars => IInv'
  BY LinesStep, CallersStep, SleepStep, EventStep, ValuesStep DEF IInv
<1> QED
  BY <1>1, Initially, PTL DEF Spec

(* The counters of the loops over keys and lines stay in range. *)
THEOREM TypeCorrect == Spec => []TypeOK
<1>1. IInv => TypeOK
  BY DEF IInv, LinesInv
<1> QED
  BY <1>1, Invariance, PTL

(* Whatever line a request fails at, and however open and close of several tasks     *)
(* interleave, a line is registered only for the open file or a loop that will free  *)
(* or keep it.                                                                       *)
THEOREM LinesNeverLeak == Spec => []LinesFollowFile
<1>1. IInv => LinesFollowFile
  <2> SUFFICES ASSUME IInv
               PROVE  LinesFollowFile
    OBVIOUS
  <2>1. irq \in [Key -> Task \union {NoTask}] /\ file \in Task \union {NoTask}
    BY DEF IInv, LinesInv, TypeOK, LinesTypeOK
  <2> QED
    BY <2>1 DEF IInv, LinesInv, FileHasLines, LoopHasLines, LinesFollowFile
<1> QED
  BY <1>1, Invariance, PTL

(* No reader and no poller sleeps once there is an event. *)
THEOREM NoLostWakeUp == Spec => []NoSleepOverEvent
<1>1. IInv => NoSleepOverEvent
  BY DEF IInv
<1> QED
  BY <1>1, Invariance, PTL

(* No value that the handler has stored is forgotten: it is announced or a reader is *)
(* still to copy it, until a read has copied it or, short or failed, passed it over. *)
THEOREM NoLostValue == Spec => []NoLostEvent
<1>1. IInv => NoLostEvent
  BY DEF IInv
<1> QED
  BY <1>1, Invariance, PTL

(* A key whose handler has run is known, however it bounces. *)
THEOREM ValuesFollowKeys == Spec => []KeyValuesFollowKeys
<1>1. IInv => KeyValuesFollowKeys
  BY DEF IInv
<1> QED
  BY <1>1, Invariance, PTL
===============================================================================
