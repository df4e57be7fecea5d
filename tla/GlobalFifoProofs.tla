--------------------------- MODULE GlobalFifoProofs ---------------------------
(* Theorems about GlobalFifo, for every set of processes, every buffer size *)
(* and every choice of operations.                                          *)
EXTENDS GlobalFifo, SequenceTheorems, TLAPS

LEMMA ErrorCodes == -EAGAIN \in Int /\ -EFAULT \in Int /\ -ERESTARTSYS \in Int
BY DEF EAGAIN, EFAULT, ERESTARTSYS

LEMMA Labels == /\ \A l \in {"user", "r_down", "r_sched", "r_down2", "r_copy",
                             "r_commit", "r_out", "r_out2"} : l \in Label
                /\ \A l \in {"w_down", "w_sched", "w_down2", "w_copy", "w_commit",
                             "w_out", "w_out2"} : l \in Label
                /\ \A l \in {"i_down", "p_down", "p_sched", "p_last"} : l \in Label
BY DEF Label

(* A function on 1..n is a sequence of length n. *)
LEMMA ByteSeq == ASSUME NEW S, NEW n \in Nat, NEW s \in [1 .. n -> S]
                 PROVE  s \in Seq(S) /\ Len(s) = n
BY SeqDef

(* Storing n bytes, or part of them and zeros, leaves a memory of bytes. *)
LEMMA StoreType ==
  ASSUME NEW m \in [Index -> Byte], NEW at \in Nat, NEW n \in Nat,
         NEW s \in Seq(Byte), n <= Len(s)
  PROVE  /\ Store(m, at, s, n) \in [Index -> Byte]
         /\ \A k \in 0 .. n - 1 : StoreFaulted(m, at, s, n, k) \in [Index -> Byte]
<1>1. ASSUME NEW k \in Nat, k <= n PROVE Store(m, at, s, k) \in [Index -> Byte]
  <2>1. \A i \in Index : i \in at .. at + k - 1 => i - at + 1 \in 1 .. n
    BY <1>1, SizeAssumption DEF Index
  <2>2. QED
    BY <2>1 DEF Store
<1>2. QED
  BY <1>1, ByteAssumption DEF StoreFaulted

(* Until write clamps it, count is the length of the caller's buffer. *)
WriteBuffer == \A p \in Process :
  pc[p] \in {"w_down", "w_sched", "w_down2", "w_copy"} => Len(buf[p]) = count[p]

LEMMA TypeStep ==
  ASSUME TypeOK, WriteBuffer, MutualExclusion, ClampStillValid, [Next]_vars
  PROVE  TypeOK'
<1> USE SizeAssumption, ByteAssumption, CountsAssumption, Labels
        DEF TypeOK, Index, dev, wq, files, args, vars
<1>1. CASE UNCHANGED vars
  BY <1>1
<1>2. ASSUME NEW p \in Process, Open(p) PROVE TypeOK'
  BY <1>2 DEF Open
<1>3. ASSUME NEW p \in Process, Release(p) PROVE TypeOK'
  BY <1>3 DEF Release
<1>4. ASSUME NEW p \in Process, Signal(p) PROVE TypeOK'
  BY <1>4 DEF Signal
<1>5. ASSUME NEW p \in Process, ReadCall(p) PROVE TypeOK'
  BY <1>5 DEF ReadCall, Goto
<1>6. ASSUME NEW p \in Process, ReadDown(p) PROVE TypeOK'
  <2>1. /\ r_wait' = r_wait \union {p}
        /\ UNCHANGED <<dev, w_wait, files, signalled, args, buf>>
    BY <1>6 DEF ReadDown
  <2>2. sem' \in {0, 1} /\ waiting' \subseteq Process
    BY <1>6 DEF ReadDown, Down
  <2>3. pc' \in [Process -> Label] /\ ret' \in [Process -> Int]
    BY <1>6, ErrorCodes, ZenonT(60) DEF ReadDown, Goto, Result
  <2>4. QED
    BY <2>1, <2>2, <2>3
<1>7. ASSUME NEW p \in Process, ReadSchedule(p) PROVE TypeOK'
  BY <1>7, ErrorCodes DEF ReadSchedule, Result, Goto
<1>8. ASSUME NEW p \in Process, ReadDownAgain(p) PROVE TypeOK'
  BY <1>8 DEF ReadDownAgain, Down, Goto
<1>9. ASSUME NEW p \in Process, ReadCopy(p) PROVE TypeOK'
  <2> DEFINE n == Clamp(count[p], current_len)
             s == [i \in 1..n |-> mem[i - 1]]
  <2>1. n \in Nat /\ n <= current_len
    BY DEF Clamp
  <2>2. s \in Seq(Byte)
    <3>1. s \in [1..n -> Byte]
      BY <2>1
    <3>2. QED
      BY <2>1, <3>1, ByteSeq, ZenonT(60)
  <2>3. count' = [count EXCEPT ![p] = n]
        /\ UNCHANGED <<dev, sem, wq, files, signalled, nonblock, events>>
    BY <1>9 DEF ReadCopy
  <2>4. CASE buf' = [buf EXCEPT ![p] = s] /\ UNCHANGED ret /\ Goto(p, "r_commit")
    BY <2>1, <2>2, <2>3, <2>4 DEF Goto
  <2>5. CASE UNCHANGED buf /\ Result(p, -EFAULT) /\ Goto(p, "r_out")
    BY <2>1, <2>3, <2>5, ErrorCodes DEF Goto, Result
  <2>6. QED
    BY <1>9, <2>4, <2>5 DEF ReadCopy
<1>10. ASSUME NEW p \in Process, ReadCommit(p) PROVE TypeOK'
  BY <1>10 DEF ReadCommit, ShiftDown, WakeUp, Result, Goto, ClampStillValid
<1>11. ASSUME NEW p \in Process, ReadOut(p) PROVE TypeOK'
  BY <1>11 DEF ReadOut, Up, Goto, MutualExclusion, Inside, Critical
<1>12. ASSUME NEW p \in Process, ReadOut2(p) PROVE TypeOK'
  BY <1>12 DEF ReadOut2, RemoveWaitQueue, Return, Goto
<1>13. ASSUME NEW p \in Process, WriteCall(p) PROVE TypeOK'
  BY <1>13, ByteSeq DEF WriteCall, Goto
<1>14. ASSUME NEW p \in Process, WriteDown(p) PROVE TypeOK'
  <2>1. /\ w_wait' = w_wait \union {p}
        /\ UNCHANGED <<dev, r_wait, files, signalled, args, buf>>
    BY <1>14 DEF WriteDown
  <2>2. sem' \in {0, 1} /\ waiting' \subseteq Process
    BY <1>14 DEF WriteDown, Down
  <2>3. pc' \in [Process -> Label] /\ ret' \in [Process -> Int]
    BY <1>14, ErrorCodes, ZenonT(60) DEF WriteDown, Goto, Result
  <2>4. QED
    BY <2>1, <2>2, <2>3
<1>15. ASSUME NEW p \in Process, WriteSchedule(p) PROVE TypeOK'
  BY <1>15, ErrorCodes, ZenonT(60) DEF WriteSchedule, Result, Goto
<1>16. ASSUME NEW p \in Process, WriteDownAgain(p) PROVE TypeOK'
  BY <1>16 DEF WriteDownAgain, Down, Goto
<1>17. ASSUME NEW p \in Process, WriteCopy(p) PROVE TypeOK'
  <2> DEFINE n == Clamp(count[p], GLOBALFIFO_SIZE - current_len)
  <2>1. n \in Nat /\ n <= count[p]
    BY DEF Clamp
  <2>2. buf[p] \in Seq(Byte) /\ n <= Len(buf[p])
    BY <1>17, <2>1 DEF WriteCopy, WriteBuffer
  <2>3. \/ mem' = Store(mem, current_len, buf[p], n)
        \/ \E k \in 0 .. n - 1 :
             mem' = StoreFaulted(mem, current_len, buf[p], n, k)
    BY <1>17 DEF WriteCopy
  <2>4. mem' \in [Index -> Byte]
    <3> HIDE DEF n
    <3>1. /\ Store(mem, current_len, buf[p], n) \in [Index -> Byte]
          /\ \A k \in 0 .. n - 1 :
               StoreFaulted(mem, current_len, buf[p], n, k) \in [Index -> Byte]
      BY ONLY <2>1, <2>2, StoreType, TypeOK DEF TypeOK
    <3>2. QED
      BY <2>3, <3>1
  <2>5. QED
    BY <1>17, <2>1, <2>4, ErrorCodes, ZenonT(60) DEF WriteCopy, Result, Goto
<1>18. ASSUME NEW p \in Process, WriteCommit(p) PROVE TypeOK'
  BY <1>18 DEF WriteCommit, WakeUp, Result, Goto, ClampStillValid
<1>19. ASSUME NEW p \in Process, WriteOut(p) PROVE TypeOK'
  BY <1>19 DEF WriteOut, Up, Goto, MutualExclusion, Inside, Critical
<1>20. ASSUME NEW p \in Process, WriteOut2(p) PROVE TypeOK'
  BY <1>20 DEF WriteOut2, RemoveWaitQueue, Return, Goto
<1>21. ASSUME NEW p \in Process, IoctlCall(p) PROVE TypeOK'
  BY <1>21 DEF IoctlCall, Goto
<1>22. ASSUME NEW p \in Process, IoctlClear(p) PROVE TypeOK'
  BY <1>22 DEF IoctlClear, Return, Goto
<1>23. ASSUME NEW p \in Process, PollCall(p) PROVE TypeOK'
  BY <1>23 DEF PollCall, Goto
<1>24. ASSUME NEW p \in Process, PollCheck(p) PROVE TypeOK'
  <2>1. CASE RemoveWaitQueue(p) /\ waiting' = waiting \ {p} /\ Return(p)
    <3>1. UNCHANGED <<dev, sem, files>>
      BY <1>24 DEF PollCheck
    <3>2. QED
      BY <2>1, <3>1 DEF RemoveWaitQueue, Return, Goto
  <2>2. CASE pc' = [pc EXCEPT ![p] = "p_sched"]
    BY <1>24, <2>2 DEF PollCheck, Return, Goto
  <2>3. QED
    BY <1>24, <2>1, <2>2 DEF PollCheck, Goto
<1>25. ASSUME NEW p \in Process, PollSchedule(p) PROVE TypeOK'
  BY <1>25 DEF PollSchedule, Goto
<1>26. ASSUME NEW p \in Process, PollTimeout(p) PROVE TypeOK'
  BY <1>26 DEF PollTimeout, Goto
<1>27. ASSUME NEW p \in Process, NEW on \in BOOLEAN, Fasync(p, on) PROVE TypeOK'
  BY <1>27 DEF Fasync
<1>28. QED
    BY <1>1, <1>2, <1>3, <1>4, <1>5, <1>6, <1>7, <1>8, <1>9, <1>10, <1>11,
     <1>12, <1>13, <1>14, <1>15, <1>16, <1>17, <1>18, <1>19, <1>20, <1>21,
     <1>22, <1>23, <1>24, <1>25, <1>26, <1>27 DEF Next, Kernel, Contend, User

LEMMA LockStep ==
  ASSUME TypeOK, MutualExclusion, [Next]_vars
  PROVE  MutualExclusion'
<1> USE DEF TypeOK, MutualExclusion, Inside, Critical, dev, wq, files, args, vars
<1>1. CASE UNCHANGED vars
  BY <1>1
<1>2. ASSUME NEW p \in Process, Open(p) PROVE MutualExclusion'
  BY <1>2 DEF Open
<1>3. ASSUME NEW p \in Process, Release(p) PROVE MutualExclusion'
  BY <1>3 DEF Release
<1>4. ASSUME NEW p \in Process, Signal(p) PROVE MutualExclusion'
  BY <1>4 DEF Signal
<1>5. ASSUME NEW p \in Process, ReadCall(p) PROVE MutualExclusion'
  BY <1>5 DEF ReadCall, Goto, Label
<1>6. ASSUME NEW p \in Process, ReadDown(p) PROVE MutualExclusion'
  BY <1>6 DEF ReadDown, Down, Result, Goto
<1>7. ASSUME NEW p \in Process, ReadSchedule(p) PROVE MutualExclusion'
  BY <1>7, ZenonT(60) DEF ReadSchedule, Result, Goto
<1>8. ASSUME NEW p \in Process, ReadDownAgain(p) PROVE MutualExclusion'
  BY <1>8 DEF ReadDownAgain, Down, Goto
<1>9. ASSUME NEW p \in Process, ReadCopy(p) PROVE MutualExclusion'
  BY <1>9 DEF ReadCopy, Result, Goto
<1>10. ASSUME NEW p \in Process, ReadCommit(p) PROVE MutualExclusion'
  BY <1>10 DEF ReadCommit, ShiftDown, WakeUp, Result, Goto
<1>11. ASSUME NEW p \in Process, ReadOut(p) PROVE MutualExclusion'
  BY <1>11 DEF ReadOut, Up, Goto
<1>12. ASSUME NEW p \in Process, ReadOut2(p) PROVE MutualExclusion'
  BY <1>12 DEF ReadOut2, RemoveWaitQueue, Return, Goto
<1>13. ASSUME NEW p \in Process, WriteCall(p) PROVE MutualExclusion'
  BY <1>13 DEF WriteCall, Goto
<1>14. ASSUME NEW p \in Process, WriteDown(p) PROVE MutualExclusion'
  BY <1>14 DEF WriteDown, Down, Result, Goto
<1>15. ASSUME NEW p \in Process, WriteSchedule(p) PROVE MutualExclusion'
  BY <1>15, ZenonT(60) DEF WriteSchedule, Result, Goto
<1>16. ASSUME NEW p \in Process, WriteDownAgain(p) PROVE MutualExclusion'
  BY <1>16 DEF WriteDownAgain, Down, Goto
<1>17. ASSUME NEW p \in Process, WriteCopy(p) PROVE MutualExclusion'
  BY <1>17 DEF WriteCopy, Result, Goto
<1>18. ASSUME NEW p \in Process, WriteCommit(p) PROVE MutualExclusion'
  BY <1>18 DEF WriteCommit, WakeUp, Result, Goto
<1>19. ASSUME NEW p \in Process, WriteOut(p) PROVE MutualExclusion'
  BY <1>19 DEF WriteOut, Up, Goto
<1>20. ASSUME NEW p \in Process, WriteOut2(p) PROVE MutualExclusion'
  BY <1>20 DEF WriteOut2, RemoveWaitQueue, Return, Goto
<1>21. ASSUME NEW p \in Process, IoctlCall(p) PROVE MutualExclusion'
  BY <1>21 DEF IoctlCall, Goto
<1>22. ASSUME NEW p \in Process, IoctlClear(p) PROVE MutualExclusion'
  BY <1>22 DEF IoctlClear, Return, Goto
<1>23. ASSUME NEW p \in Process, PollCall(p) PROVE MutualExclusion'
  BY <1>23 DEF PollCall, Goto
<1>24. ASSUME NEW p \in Process, PollCheck(p) PROVE MutualExclusion'
  BY <1>24 DEF PollCheck, RemoveWaitQueue, Return, Goto
<1>25. ASSUME NEW p \in Process, PollSchedule(p) PROVE MutualExclusion'
  BY <1>25 DEF PollSchedule, Goto
<1>26. ASSUME NEW p \in Process, PollTimeout(p) PROVE MutualExclusion'
  BY <1>26 DEF PollTimeout, Goto
<1>27. ASSUME NEW p \in Process, NEW on \in BOOLEAN, Fasync(p, on) PROVE MutualExclusion'
  BY <1>27 DEF Fasync
<1>28. QED
    BY <1>1, <1>2, <1>3, <1>4, <1>5, <1>6, <1>7, <1>8, <1>9, <1>10, <1>11,
     <1>12, <1>13, <1>14, <1>15, <1>16, <1>17, <1>18, <1>19, <1>20, <1>21,
     <1>22, <1>23, <1>24, <1>25, <1>26, <1>27 DEF Next, Kernel, Contend, User

LEMMA ClampStep ==
  ASSUME TypeOK, MutualExclusion, ClampStillValid, [Next]_vars
  PROVE  ClampStillValid'
<1> USE SizeAssumption DEF TypeOK, MutualExclusion, ClampStillValid, Inside, Critical, Clamp, dev, wq, files, args, vars
<1>1. CASE UNCHANGED vars
  BY <1>1
<1>2. ASSUME NEW p \in Process, Open(p) PROVE ClampStillValid'
  BY <1>2 DEF Open
<1>3. ASSUME NEW p \in Process, Release(p) PROVE ClampStillValid'
  BY <1>3 DEF Release
<1>4. ASSUME NEW p \in Process, Signal(p) PROVE ClampStillValid'
  BY <1>4 DEF Signal
<1>5. ASSUME NEW p \in Process, ReadCall(p) PROVE ClampStillValid'
  BY <1>5 DEF ReadCall, Goto, Label
<1>6. ASSUME NEW p \in Process, ReadDown(p) PROVE ClampStillValid'
  BY <1>6 DEF ReadDown, Down, Result, Goto
<1>7. ASSUME NEW p \in Process, ReadSchedule(p) PROVE ClampStillValid'
  BY <1>7 DEF ReadSchedule, Result, Goto
<1>8. ASSUME NEW p \in Process, ReadDownAgain(p) PROVE ClampStillValid'
  BY <1>8 DEF ReadDownAgain, Down, Goto
<1>9. ASSUME NEW p \in Process, ReadCopy(p) PROVE ClampStillValid'
  BY <1>9 DEF ReadCopy, Result, Goto
<1>10. ASSUME NEW p \in Process, ReadCommit(p) PROVE ClampStillValid'
  BY <1>10 DEF ReadCommit, ShiftDown, WakeUp, Result, Goto
<1>11. ASSUME NEW p \in Process, ReadOut(p) PROVE ClampStillValid'
  BY <1>11 DEF ReadOut, Up, Goto
<1>12. ASSUME NEW p \in Process, ReadOut2(p) PROVE ClampStillValid'
  BY <1>12 DEF ReadOut2, RemoveWaitQueue, Return, Goto
<1>13. ASSUME NEW p \in Process, WriteCall(p) PROVE ClampStillValid'
  BY <1>13 DEF WriteCall, Goto
<1>14. ASSUME NEW p \in Process, WriteDown(p) PROVE ClampStillValid'
  BY <1>14 DEF WriteDown, Down, Result, Goto
<1>15. ASSUME NEW p \in Process, WriteSchedule(p) PROVE ClampStillValid'
  BY <1>15 DEF WriteSchedule, Result, Goto
<1>16. ASSUME NEW p \in Process, WriteDownAgain(p) PROVE ClampStillValid'
  BY <1>16 DEF WriteDownAgain, Down, Goto
<1>17. ASSUME NEW p \in Process, WriteCopy(p) PROVE ClampStillValid'
  BY <1>17 DEF WriteCopy, Result, Goto
<1>18. ASSUME NEW p \in Process, WriteCommit(p) PROVE ClampStillValid'
  BY <1>18 DEF WriteCommit, WakeUp, Result, Goto
<1>19. ASSUME NEW p \in Process, WriteOut(p) PROVE ClampStillValid'
  BY <1>19 DEF WriteOut, Up, Goto
<1>20. ASSUME NEW p \in Process, WriteOut2(p) PROVE ClampStillValid'
  BY <1>20 DEF WriteOut2, RemoveWaitQueue, Return, Goto
<1>21. ASSUME NEW p \in Process, IoctlCall(p) PROVE ClampStillValid'
  BY <1>21 DEF IoctlCall, Goto
<1>22. ASSUME NEW p \in Process, IoctlClear(p) PROVE ClampStillValid'
  BY <1>22 DEF IoctlClear, Return, Goto
<1>23. ASSUME NEW p \in Process, PollCall(p) PROVE ClampStillValid'
  BY <1>23 DEF PollCall, Goto
<1>24. ASSUME NEW p \in Process, PollCheck(p) PROVE ClampStillValid'
  BY <1>24 DEF PollCheck, RemoveWaitQueue, Return, Goto
<1>25. ASSUME NEW p \in Process, PollSchedule(p) PROVE ClampStillValid'
  BY <1>25 DEF PollSchedule, Goto
<1>26. ASSUME NEW p \in Process, PollTimeout(p) PROVE ClampStillValid'
  BY <1>26 DEF PollTimeout, Goto
<1>27. ASSUME NEW p \in Process, NEW on \in BOOLEAN, Fasync(p, on) PROVE ClampStillValid'
  BY <1>27 DEF Fasync
<1>28. QED
    BY <1>1, <1>2, <1>3, <1>4, <1>5, <1>6, <1>7, <1>8, <1>9, <1>10, <1>11,
     <1>12, <1>13, <1>14, <1>15, <1>16, <1>17, <1>18, <1>19, <1>20, <1>21,
     <1>22, <1>23, <1>24, <1>25, <1>26, <1>27 DEF Next, Kernel, Contend, User

LEMMA WriteBufferStep ==
  ASSUME TypeOK, WriteBuffer, [Next]_vars
  PROVE  WriteBuffer'
<1> USE DEF TypeOK, WriteBuffer, dev, wq, files, args, vars
<1>1. CASE UNCHANGED vars
  BY <1>1
<1>2. ASSUME NEW p \in Process, Open(p) PROVE WriteBuffer'
  BY <1>2 DEF Open
<1>3. ASSUME NEW p \in Process, Release(p) PROVE WriteBuffer'
  BY <1>3 DEF Release
<1>4. ASSUME NEW p \in Process, Signal(p) PROVE WriteBuffer'
  BY <1>4 DEF Signal
<1>5. ASSUME NEW p \in Process, ReadCall(p) PROVE WriteBuffer'
  BY <1>5 DEF ReadCall, Goto, Label
<1>6. ASSUME NEW p \in Process, ReadDown(p) PROVE WriteBuffer'
  BY <1>6 DEF ReadDown, Down, Result, Goto
<1>7. ASSUME NEW p \in Process, ReadSchedule(p) PROVE WriteBuffer'
  BY <1>7 DEF ReadSchedule, Result, Goto
<1>8. ASSUME NEW p \in Process, ReadDownAgain(p) PROVE WriteBuffer'
  BY <1>8 DEF ReadDownAgain, Down, Goto
<1>9. ASSUME NEW p \in Process, ReadCopy(p) PROVE WriteBuffer'
  BY <1>9 DEF ReadCopy, Result, Goto
<1>10. ASSUME NEW p \in Process, ReadCommit(p) PROVE WriteBuffer'
  BY <1>10 DEF ReadCommit, ShiftDown, WakeUp, Result, Goto
<1>11. ASSUME NEW p \in Process, ReadOut(p) PROVE WriteBuffer'
  BY <1>11 DEF ReadOut, Up, Goto
<1>12. ASSUME NEW p \in Process, ReadOut2(p) PROVE WriteBuffer'
  BY <1>12 DEF ReadOut2, RemoveWaitQueue, Return, Goto
<1>13. ASSUME NEW p \in Process, WriteCall(p) PROVE WriteBuffer'
  BY <1>13, ByteSeq, CountsAssumption DEF WriteCall, Goto
<1>14. ASSUME NEW p \in Process, WriteDown(p) PROVE WriteBuffer'
  BY <1>14 DEF WriteDown, Down, Result, Goto
<1>15. ASSUME NEW p \in Process, WriteSchedule(p) PROVE WriteBuffer'
  BY <1>15 DEF WriteSchedule, Result, Goto
<1>16. ASSUME NEW p \in Process, WriteDownAgain(p) PROVE WriteBuffer'
  BY <1>16 DEF WriteDownAgain, Down, Goto
<1>17. ASSUME NEW p \in Process, WriteCopy(p) PROVE WriteBuffer'
  BY <1>17 DEF WriteCopy, Result, Goto
<1>18. ASSUME NEW p \in Process, WriteCommit(p) PROVE WriteBuffer'
  BY <1>18 DEF WriteCommit, WakeUp, Result, Goto
<1>19. ASSUME NEW p \in Process, WriteOut(p) PROVE WriteBuffer'
  BY <1>19 DEF WriteOut, Up, Goto
<1>20. ASSUME NEW p \in Process, WriteOut2(p) PROVE WriteBuffer'
  BY <1>20 DEF WriteOut2, RemoveWaitQueue, Return, Goto
<1>21. ASSUME NEW p \in Process, IoctlCall(p) PROVE WriteBuffer'
  BY <1>21 DEF IoctlCall, Goto
<1>22. ASSUME NEW p \in Process, IoctlClear(p) PROVE WriteBuffer'
  BY <1>22 DEF IoctlClear, Return, Goto
<1>23. ASSUME NEW p \in Process, PollCall(p) PROVE WriteBuffer'
  BY <1>23 DEF PollCall, Goto
<1>24. ASSUME NEW p \in Process, PollCheck(p) PROVE WriteBuffer'
  BY <1>24 DEF PollCheck, RemoveWaitQueue, Return, Goto
<1>25. ASSUME NEW p \in Process, PollSchedule(p) PROVE WriteBuffer'
  BY <1>25 DEF PollSchedule, Goto
<1>26. ASSUME NEW p \in Process, PollTimeout(p) PROVE WriteBuffer'
  BY <1>26 DEF PollTimeout, Goto
<1>27. ASSUME NEW p \in Process, NEW on \in BOOLEAN, Fasync(p, on) PROVE WriteBuffer'
  BY <1>27 DEF Fasync
<1>28. QED
    BY <1>1, <1>2, <1>3, <1>4, <1>5, <1>6, <1>7, <1>8, <1>9, <1>10, <1>11,
     <1>12, <1>13, <1>14, <1>15, <1>16, <1>17, <1>18, <1>19, <1>20, <1>21,
     <1>22, <1>23, <1>24, <1>25, <1>26, <1>27 DEF Next, Kernel, Contend, User

(* A task that sleeps has its entry on the queue it will be woken from. *)
SleepersQueued == \A p \in Process :
  /\ pc[p] = "r_sched" => p \in r_wait
  /\ pc[p] = "w_sched" => p \in w_wait
  /\ pc[p] = "p_sched" => p \in r_wait /\ p \in w_wait

LEMMA SleepersQueuedStep ==
  ASSUME TypeOK, SleepersQueued, [Next]_vars
  PROVE  SleepersQueued'
<1> USE DEF TypeOK, SleepersQueued, dev, wq, files, args, vars
<1>1. CASE UNCHANGED vars
  BY <1>1
<1>2. ASSUME NEW p \in Process, Open(p) PROVE SleepersQueued'
  BY <1>2 DEF Open
<1>3. ASSUME NEW p \in Process, Release(p) PROVE SleepersQueued'
  BY <1>3 DEF Release
<1>4. ASSUME NEW p \in Process, Signal(p) PROVE SleepersQueued'
  BY <1>4 DEF Signal
<1>5. ASSUME NEW p \in Process, ReadCall(p) PROVE SleepersQueued'
  BY <1>5 DEF ReadCall, Goto
<1>6. ASSUME NEW p \in Process, ReadDown(p) PROVE SleepersQueued'
  BY <1>6 DEF ReadDown, Down, Result, Goto
<1>7. ASSUME NEW p \in Process, ReadSchedule(p) PROVE SleepersQueued'
  BY <1>7 DEF ReadSchedule, Result, Goto
<1>8. ASSUME NEW p \in Process, ReadDownAgain(p) PROVE SleepersQueued'
  BY <1>8 DEF ReadDownAgain, Down, Goto
<1>9. ASSUME NEW p \in Process, ReadCopy(p) PROVE SleepersQueued'
  BY <1>9 DEF ReadCopy, Result, Goto
<1>10. ASSUME NEW p \in Process, ReadCommit(p) PROVE SleepersQueued'
  BY <1>10 DEF ReadCommit, ShiftDown, WakeUp, Result, Goto
<1>11. ASSUME NEW p \in Process, ReadOut(p) PROVE SleepersQueued'
  BY <1>11 DEF ReadOut, Up, Goto
<1>12. ASSUME NEW p \in Process, ReadOut2(p) PROVE SleepersQueued'
  BY <1>12 DEF ReadOut2, RemoveWaitQueue, Return, Goto
<1>13. ASSUME NEW p \in Process, WriteCall(p) PROVE SleepersQueued'
  BY <1>13 DEF WriteCall, Goto
<1>14. ASSUME NEW p \in Process, WriteDown(p) PROVE SleepersQueued'
  BY <1>14 DEF WriteDown, Down, Result, Goto
<1>15. ASSUME NEW p \in Process, WriteSchedule(p) PROVE SleepersQueued'
  BY <1>15 DEF WriteSchedule, Result, Goto
<1>16. ASSUME NEW p \in Process, WriteDownAgain(p) PROVE SleepersQueued'
  BY <1>16 DEF WriteDownAgain, Down, Goto
<1>17. ASSUME NEW p \in Process, WriteCopy(p) PROVE SleepersQueued'
  BY <1>17 DEF WriteCopy, Result, Goto
<1>18. ASSUME NEW p \in Process, WriteCommit(p) PROVE SleepersQueued'
  BY <1>18 DEF WriteCommit, WakeUp, Result, Goto
<1>19. ASSUME NEW p \in Process, WriteOut(p) PROVE SleepersQueued'
  BY <1>19 DEF WriteOut, Up, Goto
<1>20. ASSUME NEW p \in Process, WriteOut2(p) PROVE SleepersQueued'
  BY <1>20 DEF WriteOut2, RemoveWaitQueue, Return, Goto
<1>21. ASSUME NEW p \in Process, IoctlCall(p) PROVE SleepersQueued'
  BY <1>21 DEF IoctlCall, Goto
<1>22. ASSUME NEW p \in Process, IoctlClear(p) PROVE SleepersQueued'
  BY <1>22 DEF IoctlClear, Return, Goto
<1>23. ASSUME NEW p \in Process, PollCall(p) PROVE SleepersQueued'
  BY <1>23 DEF PollCall, Goto
<1>24. ASSUME NEW p \in Process, PollCheck(p) PROVE SleepersQueued'
  BY <1>24 DEF PollCheck, RemoveWaitQueue, Return, Goto
<1>25. ASSUME NEW p \in Process, PollSchedule(p) PROVE SleepersQueued'
  BY <1>25 DEF PollSchedule, Goto
<1>26. ASSUME NEW p \in Process, PollTimeout(p) PROVE SleepersQueued'
  BY <1>26 DEF PollTimeout, Goto
<1>27. ASSUME NEW p \in Process, NEW on \in BOOLEAN, Fasync(p, on) PROVE SleepersQueued'
  BY <1>27 DEF Fasync
<1>28. QED
    BY <1>1, <1>2, <1>3, <1>4, <1>5, <1>6, <1>7, <1>8, <1>9, <1>10, <1>11,
     <1>12, <1>13, <1>14, <1>15, <1>16, <1>17, <1>18, <1>19, <1>20, <1>21,
     <1>22, <1>23, <1>24, <1>25, <1>26, <1>27 DEF Next, Kernel, Contend, User

(* A handler has a result only once it is on its way out. *)
ResultsAtExit == \A p \in Process :
  pc[p] \in {"r_out", "r_out2", "w_out", "w_out2"} \/ ret[p] = 0

LEMMA ResultsAtExitStep ==
  ASSUME TypeOK, ResultsAtExit, [Next]_vars
  PROVE  ResultsAtExit'
<1> USE DEF TypeOK, ResultsAtExit, dev, wq, files, args, vars
<1>1. CASE UNCHANGED vars
  BY <1>1
<1>2. ASSUME NEW p \in Process, Open(p) PROVE ResultsAtExit'
  BY <1>2 DEF Open
<1>3. ASSUME NEW p \in Process, Release(p) PROVE ResultsAtExit'
  BY <1>3 DEF Release
<1>4. ASSUME NEW p \in Process, Signal(p) PROVE ResultsAtExit'
  BY <1>4 DEF Signal
<1>5. ASSUME NEW p \in Process, ReadCall(p) PROVE ResultsAtExit'
  BY <1>5 DEF ReadCall, Goto
<1>6. ASSUME NEW p \in Process, ReadDown(p) PROVE ResultsAtExit'
  BY <1>6 DEF ReadDown, Down, Result, Goto
<1>7. ASSUME NEW p \in Process, ReadSchedule(p) PROVE ResultsAtExit'
  BY <1>7 DEF ReadSchedule, Result, Goto
<1>8. ASSUME NEW p \in Process, ReadDownAgain(p) PROVE ResultsAtExit'
  BY <1>8 DEF ReadDownAgain, Down, Goto
<1>9. ASSUME NEW p \in Process, ReadCopy(p) PROVE ResultsAtExit'
  BY <1>9 DEF ReadCopy, Result, Goto
<1>10. ASSUME NEW p \in Process, ReadCommit(p) PROVE ResultsAtExit'
  BY <1>10 DEF ReadCommit, ShiftDown, WakeUp, Result, Goto
<1>11. ASSUME NEW p \in Process, ReadOut(p) PROVE ResultsAtExit'
  BY <1>11 DEF ReadOut, Up, Goto
<1>12. ASSUME NEW p \in Process, ReadOut2(p) PROVE ResultsAtExit'
  BY <1>12 DEF ReadOut2, RemoveWaitQueue, Return, Goto
<1>13. ASSUME NEW p \in Process, WriteCall(p) PROVE ResultsAtExit'
  BY <1>13 DEF WriteCall, Goto
<1>14. ASSUME NEW p \in Process, WriteDown(p) PROVE ResultsAtExit'
  BY <1>14 DEF WriteDown, Down, Result, Goto
<1>15. ASSUME NEW p \in Process, WriteSchedule(p) PROVE ResultsAtExit'
  BY <1>15 DEF WriteSchedule, Result, Goto
<1>16. ASSUME NEW p \in Process, WriteDownAgain(p) PROVE ResultsAtExit'
  BY <1>16 DEF WriteDownAgain, Down, Goto
<1>17. ASSUME NEW p \in Process, WriteCopy(p) PROVE ResultsAtExit'
  BY <1>17 DEF WriteCopy, Result, Goto
<1>18. ASSUME NEW p \in Process, WriteCommit(p) PROVE ResultsAtExit'
  BY <1>18 DEF WriteCommit, WakeUp, Result, Goto
<1>19. ASSUME NEW p \in Process, WriteOut(p) PROVE ResultsAtExit'
  BY <1>19 DEF WriteOut, Up, Goto
<1>20. ASSUME NEW p \in Process, WriteOut2(p) PROVE ResultsAtExit'
  BY <1>20 DEF WriteOut2, RemoveWaitQueue, Return, Goto
<1>21. ASSUME NEW p \in Process, IoctlCall(p) PROVE ResultsAtExit'
  BY <1>21 DEF IoctlCall, Goto
<1>22. ASSUME NEW p \in Process, IoctlClear(p) PROVE ResultsAtExit'
  BY <1>22 DEF IoctlClear, Return, Goto
<1>23. ASSUME NEW p \in Process, PollCall(p) PROVE ResultsAtExit'
  BY <1>23 DEF PollCall, Goto
<1>24. ASSUME NEW p \in Process, PollCheck(p) PROVE ResultsAtExit'
  BY <1>24 DEF PollCheck, RemoveWaitQueue, Return, Goto
<1>25. ASSUME NEW p \in Process, PollSchedule(p) PROVE ResultsAtExit'
  BY <1>25 DEF PollSchedule, Goto
<1>26. ASSUME NEW p \in Process, PollTimeout(p) PROVE ResultsAtExit'
  BY <1>26 DEF PollTimeout, Goto
<1>27. ASSUME NEW p \in Process, NEW on \in BOOLEAN, Fasync(p, on) PROVE ResultsAtExit'
  BY <1>27 DEF Fasync
<1>28. QED
    BY <1>1, <1>2, <1>3, <1>4, <1>5, <1>6, <1>7, <1>8, <1>9, <1>10, <1>11,
     <1>12, <1>13, <1>14, <1>15, <1>16, <1>17, <1>18, <1>19, <1>20, <1>21,
     <1>22, <1>23, <1>24, <1>25, <1>26, <1>27 DEF Next, Kernel, Contend, User

LEMMA ReaderStep ==
  ASSUME TypeOK, ClampStillValid, SleepersQueued,
         ReaderSleepsOnlyWhileEmpty, [Next]_vars
  PROVE  ReaderSleepsOnlyWhileEmpty'
<1> USE DEF TypeOK, ClampStillValid, SleepersQueued,
            ReaderSleepsOnlyWhileEmpty, Asleep, AwaitsData, PollMask,
            dev, wq, files, args, vars
<1>1. CASE UNCHANGED vars
  BY <1>1
<1>2. ASSUME NEW p \in Process, Open(p) PROVE ReaderSleepsOnlyWhileEmpty'
  BY <1>2 DEF Open
<1>3. ASSUME NEW p \in Process, Release(p) PROVE ReaderSleepsOnlyWhileEmpty'
  BY <1>3 DEF Release
<1>4. ASSUME NEW p \in Process, Signal(p) PROVE ReaderSleepsOnlyWhileEmpty'
  BY <1>4 DEF Signal
<1>5. ASSUME NEW p \in Process, ReadCall(p) PROVE ReaderSleepsOnlyWhileEmpty'
  BY <1>5 DEF ReadCall, Goto
<1>6. ASSUME NEW p \in Process, ReadDown(p) PROVE ReaderSleepsOnlyWhileEmpty'
  BY <1>6 DEF ReadDown, Down, Result, Goto
<1>7. ASSUME NEW p \in Process, ReadSchedule(p) PROVE ReaderSleepsOnlyWhileEmpty'
  BY <1>7 DEF ReadSchedule, Result, Goto
<1>8. ASSUME NEW p \in Process, ReadDownAgain(p) PROVE ReaderSleepsOnlyWhileEmpty'
  BY <1>8 DEF ReadDownAgain, Down, Goto
<1>9. ASSUME NEW p \in Process, ReadCopy(p) PROVE ReaderSleepsOnlyWhileEmpty'
  BY <1>9 DEF ReadCopy, Result, Goto
<1>10. ASSUME NEW p \in Process, ReadCommit(p) PROVE ReaderSleepsOnlyWhileEmpty'
  BY <1>10 DEF ReadCommit, ShiftDown, WakeUp, Result, Goto
<1>11. ASSUME NEW p \in Process, ReadOut(p) PROVE ReaderSleepsOnlyWhileEmpty'
  BY <1>11 DEF ReadOut, Up, Goto
<1>12. ASSUME NEW p \in Process, ReadOut2(p) PROVE ReaderSleepsOnlyWhileEmpty'
  BY <1>12 DEF ReadOut2, RemoveWaitQueue, Return, Goto
<1>13. ASSUME NEW p \in Process, WriteCall(p) PROVE ReaderSleepsOnlyWhileEmpty'
  BY <1>13 DEF WriteCall, Goto
<1>14. ASSUME NEW p \in Process, WriteDown(p) PROVE ReaderSleepsOnlyWhileEmpty'
  BY <1>14 DEF WriteDown, Down, Result, Goto
<1>15. ASSUME NEW p \in Process, WriteSchedule(p) PROVE ReaderSleepsOnlyWhileEmpty'
  BY <1>15 DEF WriteSchedule, Result, Goto
<1>16. ASSUME NEW p \in Process, WriteDownAgain(p) PROVE ReaderSleepsOnlyWhileEmpty'
  BY <1>16 DEF WriteDownAgain, Down, Goto
<1>17. ASSUME NEW p \in Process, WriteCopy(p) PROVE ReaderSleepsOnlyWhileEmpty'
  BY <1>17 DEF WriteCopy, Result, Goto
<1>18. ASSUME NEW p \in Process, WriteCommit(p) PROVE ReaderSleepsOnlyWhileEmpty'
  BY <1>18 DEF WriteCommit, WakeUp, Result, Goto
<1>19. ASSUME NEW p \in Process, WriteOut(p) PROVE ReaderSleepsOnlyWhileEmpty'
  BY <1>19 DEF WriteOut, Up, Goto
<1>20. ASSUME NEW p \in Process, WriteOut2(p) PROVE ReaderSleepsOnlyWhileEmpty'
  BY <1>20 DEF WriteOut2, RemoveWaitQueue, Return, Goto
<1>21. ASSUME NEW p \in Process, IoctlCall(p) PROVE ReaderSleepsOnlyWhileEmpty'
  BY <1>21 DEF IoctlCall, Goto
<1>22. ASSUME NEW p \in Process, IoctlClear(p) PROVE ReaderSleepsOnlyWhileEmpty'
  BY <1>22 DEF IoctlClear, Return, Goto
<1>23. ASSUME NEW p \in Process, PollCall(p) PROVE ReaderSleepsOnlyWhileEmpty'
  BY <1>23 DEF PollCall, Goto
<1>24. ASSUME NEW p \in Process, PollCheck(p) PROVE ReaderSleepsOnlyWhileEmpty'
  BY <1>24 DEF PollCheck, RemoveWaitQueue, Return, Goto
<1>25. ASSUME NEW p \in Process, PollSchedule(p) PROVE ReaderSleepsOnlyWhileEmpty'
  BY <1>25 DEF PollSchedule, Goto
<1>26. ASSUME NEW p \in Process, PollTimeout(p) PROVE ReaderSleepsOnlyWhileEmpty'
  BY <1>26 DEF PollTimeout, Goto
<1>27. ASSUME NEW p \in Process, NEW on \in BOOLEAN, Fasync(p, on) PROVE ReaderSleepsOnlyWhileEmpty'
  BY <1>27 DEF Fasync
<1>28. QED
    BY <1>1, <1>2, <1>3, <1>4, <1>5, <1>6, <1>7, <1>8, <1>9, <1>10, <1>11,
     <1>12, <1>13, <1>14, <1>15, <1>16, <1>17, <1>18, <1>19, <1>20, <1>21,
     <1>22, <1>23, <1>24, <1>25, <1>26, <1>27 DEF Next, Kernel, Contend, User

(* Without FIFO_CLEAR nobody is in globalfifo_ioctl. *)
NobodyClears == \A p \in Process : pc[p] # "i_down"

LEMMA NobodyClearsStep ==
  ASSUME "ioctl" \notin Ops, TypeOK, NobodyClears, [Next]_vars
  PROVE  NobodyClears'
<1> USE DEF TypeOK, NobodyClears, dev, wq, files, args, vars
<1>1. CASE UNCHANGED vars
  BY <1>1
<1>2. ASSUME NEW p \in Process, Open(p) PROVE NobodyClears'
  BY <1>2 DEF Open
<1>3. ASSUME NEW p \in Process, Release(p) PROVE NobodyClears'
  BY <1>3 DEF Release
<1>4. ASSUME NEW p \in Process, Signal(p) PROVE NobodyClears'
  BY <1>4 DEF Signal
<1>5. ASSUME NEW p \in Process, ReadCall(p) PROVE NobodyClears'
  BY <1>5 DEF ReadCall, Goto
<1>6. ASSUME NEW p \in Process, ReadDown(p) PROVE NobodyClears'
  BY <1>6 DEF ReadDown, Down, Result, Goto
<1>7. ASSUME NEW p \in Process, ReadSchedule(p) PROVE NobodyClears'
  BY <1>7 DEF ReadSchedule, Result, Goto
<1>8. ASSUME NEW p \in Process, ReadDownAgain(p) PROVE NobodyClears'
  BY <1>8 DEF ReadDownAgain, Down, Goto
<1>9. ASSUME NEW p \in Process, ReadCopy(p) PROVE NobodyClears'
  BY <1>9 DEF ReadCopy, Result, Goto
<1>10. ASSUME NEW p \in Process, ReadCommit(p) PROVE NobodyClears'
  BY <1>10 DEF ReadCommit, ShiftDown, WakeUp, Result, Goto
<1>11. ASSUME NEW p \in Process, ReadOut(p) PROVE NobodyClears'
  BY <1>11 DEF ReadOut, Up, Goto
<1>12. ASSUME NEW p \in Process, ReadOut2(p) PROVE NobodyClears'
  BY <1>12 DEF ReadOut2, RemoveWaitQueue, Return, Goto
<1>13. ASSUME NEW p \in Process, WriteCall(p) PROVE NobodyClears'
  BY <1>13 DEF WriteCall, Goto
<1>14. ASSUME NEW p \in Process, WriteDown(p) PROVE NobodyClears'
  BY <1>14 DEF WriteDown, Down, Result, Goto
<1>15. ASSUME NEW p \in Process, WriteSchedule(p) PROVE NobodyClears'
  BY <1>15 DEF WriteSchedule, Result, Goto
<1>16. ASSUME NEW p \in Process, WriteDownAgain(p) PROVE NobodyClears'
  BY <1>16 DEF WriteDownAgain, Down, Goto
<1>17. ASSUME NEW p \in Process, WriteCopy(p) PROVE NobodyClears'
  BY <1>17 DEF WriteCopy, Result, Goto
<1>18. ASSUME NEW p \in Process, WriteCommit(p) PROVE NobodyClears'
  BY <1>18 DEF WriteCommit, WakeUp, Result, Goto
<1>19. ASSUME NEW p \in Process, WriteOut(p) PROVE NobodyClears'
  BY <1>19 DEF WriteOut, Up, Goto
<1>20. ASSUME NEW p \in Process, WriteOut2(p) PROVE NobodyClears'
  BY <1>20 DEF WriteOut2, RemoveWaitQueue, Return, Goto
<1>21. ASSUME NEW p \in Process, IoctlCall(p) PROVE NobodyClears'
  BY <1>21 DEF IoctlCall, Goto
<1>22. ASSUME NEW p \in Process, IoctlClear(p) PROVE NobodyClears'
  BY <1>22 DEF IoctlClear, Return, Goto
<1>23. ASSUME NEW p \in Process, PollCall(p) PROVE NobodyClears'
  BY <1>23 DEF PollCall, Goto
<1>24. ASSUME NEW p \in Process, PollCheck(p) PROVE NobodyClears'
  BY <1>24 DEF PollCheck, RemoveWaitQueue, Return, Goto
<1>25. ASSUME NEW p \in Process, PollSchedule(p) PROVE NobodyClears'
  BY <1>25 DEF PollSchedule, Goto
<1>26. ASSUME NEW p \in Process, PollTimeout(p) PROVE NobodyClears'
  BY <1>26 DEF PollTimeout, Goto
<1>27. ASSUME NEW p \in Process, NEW on \in BOOLEAN, Fasync(p, on) PROVE NobodyClears'
  BY <1>27 DEF Fasync
<1>28. QED
    BY <1>1, <1>2, <1>3, <1>4, <1>5, <1>6, <1>7, <1>8, <1>9, <1>10, <1>11,
     <1>12, <1>13, <1>14, <1>15, <1>16, <1>17, <1>18, <1>19, <1>20, <1>21,
     <1>22, <1>23, <1>24, <1>25, <1>26, <1>27 DEF Next, Kernel, Contend, User

LEMMA WriterStep ==
  ASSUME "ioctl" \notin Ops, TypeOK, ClampStillValid, SleepersQueued,
         NobodyClears, WriterSleepsOnlyWhileFull, [Next]_vars
  PROVE  WriterSleepsOnlyWhileFull'
<1> USE SizeAssumption DEF TypeOK, ClampStillValid, SleepersQueued, NobodyClears,
            WriterSleepsOnlyWhileFull, Asleep, AwaitsSpace, PollMask,
            dev, wq, files, args, vars
<1>1. CASE UNCHANGED vars
  BY <1>1
<1>2. ASSUME NEW p \in Process, Open(p) PROVE WriterSleepsOnlyWhileFull'
  BY <1>2 DEF Open
<1>3. ASSUME NEW p \in Process, Release(p) PROVE WriterSleepsOnlyWhileFull'
  BY <1>3 DEF Release
<1>4. ASSUME NEW p \in Process, Signal(p) PROVE WriterSleepsOnlyWhileFull'
  BY <1>4 DEF Signal
<1>5. ASSUME NEW p \in Process, ReadCall(p) PROVE WriterSleepsOnlyWhileFull'
  BY <1>5 DEF ReadCall, Goto
<1>6. ASSUME NEW p \in Process, ReadDown(p) PROVE WriterSleepsOnlyWhileFull'
  <2>1. /\ pc'[p] \in {"r_copy", "r_out", "r_sched"}
        /\ \A q \in Process \ {p} : pc'[q] = pc[q]
        /\ waiting' \subseteq waiting \union {p}
    BY <1>6 DEF ReadDown, Goto
  <2>2. UNCHANGED <<current_len, signalled, events>>
    BY <1>6 DEF ReadDown
  <2>3. QED
    BY <2>1, <2>2
<1>7. ASSUME NEW p \in Process, ReadSchedule(p) PROVE WriterSleepsOnlyWhileFull'
  BY <1>7 DEF ReadSchedule, Result, Goto
<1>8. ASSUME NEW p \in Process, ReadDownAgain(p) PROVE WriterSleepsOnlyWhileFull'
  BY <1>8 DEF ReadDownAgain, Down, Goto
<1>9. ASSUME NEW p \in Process, ReadCopy(p) PROVE WriterSleepsOnlyWhileFull'
  BY <1>9 DEF ReadCopy, Result, Goto
<1>10. ASSUME NEW p \in Process, ReadCommit(p) PROVE WriterSleepsOnlyWhileFull'
  BY <1>10 DEF ReadCommit, ShiftDown, WakeUp, Result, Goto
<1>11. ASSUME NEW p \in Process, ReadOut(p) PROVE WriterSleepsOnlyWhileFull'
  BY <1>11 DEF ReadOut, Up, Goto
<1>12. ASSUME NEW p \in Process, ReadOut2(p) PROVE WriterSleepsOnlyWhileFull'
  BY <1>12 DEF ReadOut2, RemoveWaitQueue, Return, Goto
<1>13. ASSUME NEW p \in Process, WriteCall(p) PROVE WriterSleepsOnlyWhileFull'
  BY <1>13 DEF WriteCall, Goto
<1>14. ASSUME NEW p \in Process, WriteDown(p) PROVE WriterSleepsOnlyWhileFull'
  BY <1>14 DEF WriteDown, Down, Result, Goto
<1>15. ASSUME NEW p \in Process, WriteSchedule(p) PROVE WriterSleepsOnlyWhileFull'
  BY <1>15 DEF WriteSchedule, Result, Goto
<1>16. ASSUME NEW p \in Process, WriteDownAgain(p) PROVE WriterSleepsOnlyWhileFull'
  BY <1>16 DEF WriteDownAgain, Down, Goto
<1>17. ASSUME NEW p \in Process, WriteCopy(p) PROVE WriterSleepsOnlyWhileFull'
  BY <1>17 DEF WriteCopy, Result, Goto
<1>18. ASSUME NEW p \in Process, WriteCommit(p) PROVE WriterSleepsOnlyWhileFull'
  BY <1>18 DEF WriteCommit, WakeUp, Result, Goto
<1>19. ASSUME NEW p \in Process, WriteOut(p) PROVE WriterSleepsOnlyWhileFull'
  BY <1>19 DEF WriteOut, Up, Goto
<1>20. ASSUME NEW p \in Process, WriteOut2(p) PROVE WriterSleepsOnlyWhileFull'
  BY <1>20 DEF WriteOut2, RemoveWaitQueue, Return, Goto
<1>21. ASSUME NEW p \in Process, IoctlCall(p) PROVE WriterSleepsOnlyWhileFull'
  BY <1>21 DEF IoctlCall, Goto
<1>22. ASSUME NEW p \in Process, IoctlClear(p) PROVE WriterSleepsOnlyWhileFull'
  BY <1>22 DEF IoctlClear, Return, Goto
<1>23. ASSUME NEW p \in Process, PollCall(p) PROVE WriterSleepsOnlyWhileFull'
  BY <1>23 DEF PollCall, Goto
<1>24. ASSUME NEW p \in Process, PollCheck(p) PROVE WriterSleepsOnlyWhileFull'
  BY <1>24 DEF PollCheck, RemoveWaitQueue, Return, Goto
<1>25. ASSUME NEW p \in Process, PollSchedule(p) PROVE WriterSleepsOnlyWhileFull'
  BY <1>25 DEF PollSchedule, Goto
<1>26. ASSUME NEW p \in Process, PollTimeout(p) PROVE WriterSleepsOnlyWhileFull'
  BY <1>26 DEF PollTimeout, Goto
<1>27. ASSUME NEW p \in Process, NEW on \in BOOLEAN, Fasync(p, on) PROVE WriterSleepsOnlyWhileFull'
  BY <1>27 DEF Fasync
<1>28. QED
    BY <1>1, <1>2, <1>3, <1>4, <1>5, <1>6, <1>7, <1>8, <1>9, <1>10, <1>11,
     <1>12, <1>13, <1>14, <1>15, <1>16, <1>17, <1>18, <1>19, <1>20, <1>21,
     <1>22, <1>23, <1>24, <1>25, <1>26, <1>27 DEF Next, Kernel, Contend, User

(* The comment of globalfifo_read, "wait for the FIFO not to be empty", is right of a     *)
(* reader that is alone: what woke it is still there.                                     *)
InRead(p) == pc[p] \in {"r_down", "r_sched", "r_down2", "r_copy", "r_commit"}
OneReader == \A p, q \in Process : InRead(p) /\ InRead(q) => p = q

FindsDataInv ==
  \A p \in Process :
    /\ pc[p] \in {"r_down", "r_sched", "r_down2", "r_copy", "r_commit",
                  "w_down", "w_sched", "w_down2", "w_copy"} => count[p] > 0
    /\ pc[p] = "w_commit" => current_len + count[p] > 0
    /\ pc[p] = "r_sched" /\ p \notin waiting => current_len > 0
    /\ pc[p] \in {"r_down2", "r_copy"} => current_len > 0
    /\ pc[p] = "r_out" => ret[p] # 0

LEMMA FindsDataStep ==
  ASSUME 0 \notin Counts, TypeOK, MutualExclusion, ClampStillValid, NobodyClears, OneReader,
         FindsDataInv, [Next]_vars
  PROVE  FindsDataInv'
<1> USE SizeAssumption, CountsAssumption DEF TypeOK, FindsDataInv, dev, wq, files, args, vars
<1>1. CASE UNCHANGED vars
  BY <1>1
<1>2. ASSUME NEW p \in Process, Open(p) PROVE FindsDataInv'
  BY <1>2 DEF Open
<1>3. ASSUME NEW p \in Process, Release(p) PROVE FindsDataInv'
  BY <1>3 DEF Release
<1>4. ASSUME NEW p \in Process, Signal(p) PROVE FindsDataInv'
  BY <1>4 DEF Signal
<1>5. ASSUME NEW p \in Process, ReadCall(p) PROVE FindsDataInv'
  BY <1>5 DEF ReadCall, Goto
<1>6. ASSUME NEW p \in Process, ReadDown(p) PROVE FindsDataInv'
  <2>1. /\ UNCHANGED <<current_len, count>>
        /\ \A q \in Process \ {p} : pc'[q] = pc[q] /\ ret'[q] = ret[q]
        /\ count[p] > 0 /\ waiting \subseteq waiting'
    BY <1>6 DEF ReadDown, Goto, Result
  <2>2. \/ pc'[p] = "r_copy" /\ current_len # 0
        \/ pc'[p] = "r_out" /\ ret'[p] # 0
        \/ pc'[p] = "r_sched" /\ p \in waiting'
    BY <1>6 DEF ReadDown, Goto, Result, EAGAIN
  <2>3. current_len \in Nat /\ UNCHANGED current_len /\ count' = count
    BY <2>1
  <2>4. QED
    BY ONLY <2>1, <2>2, <2>3, FindsDataInv DEF FindsDataInv
<1>7. ASSUME NEW p \in Process, ReadSchedule(p) PROVE FindsDataInv'
  BY <1>7 DEF ReadSchedule, Result, Goto
<1>8. ASSUME NEW p \in Process, ReadDownAgain(p) PROVE FindsDataInv'
  BY <1>8 DEF ReadDownAgain, Down, Goto
<1>9. ASSUME NEW p \in Process, ReadCopy(p) PROVE FindsDataInv'
  <2>1. Clamp(count[p], current_len) \in Nat \ {0}
    BY <1>9 DEF ReadCopy, Clamp
  <2>2. /\ UNCHANGED <<current_len, waiting>> /\ count'[p] > 0
        /\ \A q \in Process \ {p} : pc'[q] = pc[q] /\ ret'[q] = ret[q] /\ count'[q] = count[q]
    BY <1>9, <2>1 DEF ReadCopy, Goto, Result
  <2>3. pc'[p] = "r_commit" \/ (pc'[p] = "r_out" /\ ret'[p] # 0)
    BY <1>9 DEF ReadCopy, Goto, Result, EFAULT
  <2>4. QED
    BY <2>2, <2>3
<1>10. ASSUME NEW p \in Process, ReadCommit(p) PROVE FindsDataInv'
  <2>1. \A q \in Process \ {p} :
          pc[q] \notin {"r_down", "r_sched", "r_down2", "r_copy", "r_commit", "w_commit"}
    BY <1>10 DEF ReadCommit, OneReader, InRead, MutualExclusion, Inside, Critical
  <2>2. /\ pc'[p] = "r_out" /\ ret'[p] # 0 /\ UNCHANGED count
        /\ \A q \in Process \ {p} : pc'[q] = pc[q] /\ ret'[q] = ret[q]
    BY <1>10 DEF ReadCommit, Goto, Result
  <2>3. QED
    BY <2>1, <2>2
<1>11. ASSUME NEW p \in Process, ReadOut(p) PROVE FindsDataInv'
  BY <1>11 DEF ReadOut, Up, Goto
<1>12. ASSUME NEW p \in Process, ReadOut2(p) PROVE FindsDataInv'
  BY <1>12 DEF ReadOut2, RemoveWaitQueue, Return, Goto
<1>13. ASSUME NEW p \in Process, WriteCall(p) PROVE FindsDataInv'
  BY <1>13 DEF WriteCall, Goto
<1>14. ASSUME NEW p \in Process, WriteDown(p) PROVE FindsDataInv'
  BY <1>14 DEF WriteDown, Down, Result, Goto
<1>15. ASSUME NEW p \in Process, WriteSchedule(p) PROVE FindsDataInv'
  BY <1>15 DEF WriteSchedule, Result, Goto
<1>16. ASSUME NEW p \in Process, WriteDownAgain(p) PROVE FindsDataInv'
  BY <1>16 DEF WriteDownAgain, Down, Goto
<1>17. ASSUME NEW p \in Process, WriteCopy(p) PROVE FindsDataInv'
  <2>1. current_len + Clamp(count[p], GLOBALFIFO_SIZE - current_len) > 0
    BY <1>17 DEF WriteCopy, Clamp
  <2>2. /\ UNCHANGED <<current_len, waiting>> /\ current_len + count'[p] > 0
        /\ pc'[p] \in {"w_commit", "w_out"}
        /\ \A q \in Process \ {p} : pc'[q] = pc[q] /\ ret'[q] = ret[q] /\ count'[q] = count[q]
    BY <1>17, <2>1 DEF WriteCopy, Goto, Result
  <2>3. QED
    BY <2>2
<1>18. ASSUME NEW p \in Process, WriteCommit(p) PROVE FindsDataInv'
  BY <1>18 DEF WriteCommit, WakeUp, Result, Goto
<1>19. ASSUME NEW p \in Process, WriteOut(p) PROVE FindsDataInv'
  BY <1>19 DEF WriteOut, Up, Goto
<1>20. ASSUME NEW p \in Process, WriteOut2(p) PROVE FindsDataInv'
  BY <1>20 DEF WriteOut2, RemoveWaitQueue, Return, Goto
<1>21. ASSUME NEW p \in Process, IoctlCall(p) PROVE FindsDataInv'
  BY <1>21 DEF IoctlCall, Goto
<1>22. ASSUME NEW p \in Process, IoctlClear(p) PROVE FindsDataInv'
  BY <1>22 DEF IoctlClear, NobodyClears
<1>23. ASSUME NEW p \in Process, PollCall(p) PROVE FindsDataInv'
  BY <1>23 DEF PollCall, Goto
<1>24. ASSUME NEW p \in Process, PollCheck(p) PROVE FindsDataInv'
  BY <1>24 DEF PollCheck, RemoveWaitQueue, Return, Goto
<1>25. ASSUME NEW p \in Process, PollSchedule(p) PROVE FindsDataInv'
  BY <1>25 DEF PollSchedule, Goto
<1>26. ASSUME NEW p \in Process, PollTimeout(p) PROVE FindsDataInv'
  BY <1>26 DEF PollTimeout, Goto
<1>27. ASSUME NEW p \in Process, NEW on \in BOOLEAN, Fasync(p, on) PROVE FindsDataInv'
  BY <1>27 DEF Fasync
<1>28. QED
    BY <1>1, <1>2, <1>3, <1>4, <1>5, <1>6, <1>7, <1>8, <1>9, <1>10, <1>11,
     <1>12, <1>13, <1>14, <1>15, <1>16, <1>17, <1>18, <1>19, <1>20, <1>21,
     <1>22, <1>23, <1>24, <1>25, <1>26, <1>27 DEF Next, Kernel, Contend, User

LEMMA QueuesStep ==
  ASSUME TypeOK, QueuesHoldOnlyCallers, [Next]_vars
  PROVE  QueuesHoldOnlyCallers'
<1> USE DEF TypeOK, QueuesHoldOnlyCallers, dev, wq, files, args, vars
<1>1. CASE UNCHANGED vars
  BY <1>1
<1>2. ASSUME NEW p \in Process, Open(p) PROVE QueuesHoldOnlyCallers'
  BY <1>2 DEF Open
<1>3. ASSUME NEW p \in Process, Release(p) PROVE QueuesHoldOnlyCallers'
  BY <1>3 DEF Release
<1>4. ASSUME NEW p \in Process, Signal(p) PROVE QueuesHoldOnlyCallers'
  BY <1>4 DEF Signal
<1>5. ASSUME NEW p \in Process, ReadCall(p) PROVE QueuesHoldOnlyCallers'
  BY <1>5 DEF ReadCall, Goto
<1>6. ASSUME NEW p \in Process, ReadDown(p) PROVE QueuesHoldOnlyCallers'
  BY <1>6 DEF ReadDown, Down, Result, Goto
<1>7. ASSUME NEW p \in Process, ReadSchedule(p) PROVE QueuesHoldOnlyCallers'
  BY <1>7 DEF ReadSchedule, Result, Goto
<1>8. ASSUME NEW p \in Process, ReadDownAgain(p) PROVE QueuesHoldOnlyCallers'
  BY <1>8 DEF ReadDownAgain, Down, Goto
<1>9. ASSUME NEW p \in Process, ReadCopy(p) PROVE QueuesHoldOnlyCallers'
  BY <1>9 DEF ReadCopy, Result, Goto
<1>10. ASSUME NEW p \in Process, ReadCommit(p) PROVE QueuesHoldOnlyCallers'
  BY <1>10 DEF ReadCommit, ShiftDown, WakeUp, Result, Goto
<1>11. ASSUME NEW p \in Process, ReadOut(p) PROVE QueuesHoldOnlyCallers'
  BY <1>11 DEF ReadOut, Up, Goto
<1>12. ASSUME NEW p \in Process, ReadOut2(p) PROVE QueuesHoldOnlyCallers'
  BY <1>12 DEF ReadOut2, RemoveWaitQueue, Return, Goto
<1>13. ASSUME NEW p \in Process, WriteCall(p) PROVE QueuesHoldOnlyCallers'
  BY <1>13 DEF WriteCall, Goto
<1>14. ASSUME NEW p \in Process, WriteDown(p) PROVE QueuesHoldOnlyCallers'
  BY <1>14 DEF WriteDown, Down, Result, Goto
<1>15. ASSUME NEW p \in Process, WriteSchedule(p) PROVE QueuesHoldOnlyCallers'
  BY <1>15 DEF WriteSchedule, Result, Goto
<1>16. ASSUME NEW p \in Process, WriteDownAgain(p) PROVE QueuesHoldOnlyCallers'
  BY <1>16 DEF WriteDownAgain, Down, Goto
<1>17. ASSUME NEW p \in Process, WriteCopy(p) PROVE QueuesHoldOnlyCallers'
  BY <1>17 DEF WriteCopy, Result, Goto
<1>18. ASSUME NEW p \in Process, WriteCommit(p) PROVE QueuesHoldOnlyCallers'
  BY <1>18 DEF WriteCommit, WakeUp, Result, Goto
<1>19. ASSUME NEW p \in Process, WriteOut(p) PROVE QueuesHoldOnlyCallers'
  BY <1>19 DEF WriteOut, Up, Goto
<1>20. ASSUME NEW p \in Process, WriteOut2(p) PROVE QueuesHoldOnlyCallers'
  BY <1>20 DEF WriteOut2, RemoveWaitQueue, Return, Goto
<1>21. ASSUME NEW p \in Process, IoctlCall(p) PROVE QueuesHoldOnlyCallers'
  BY <1>21 DEF IoctlCall, Goto
<1>22. ASSUME NEW p \in Process, IoctlClear(p) PROVE QueuesHoldOnlyCallers'
  BY <1>22 DEF IoctlClear, Return, Goto
<1>23. ASSUME NEW p \in Process, PollCall(p) PROVE QueuesHoldOnlyCallers'
  BY <1>23 DEF PollCall, Goto
<1>24. ASSUME NEW p \in Process, PollCheck(p) PROVE QueuesHoldOnlyCallers'
  BY <1>24 DEF PollCheck, RemoveWaitQueue, Return, Goto
<1>25. ASSUME NEW p \in Process, PollSchedule(p) PROVE QueuesHoldOnlyCallers'
  BY <1>25 DEF PollSchedule, Goto
<1>26. ASSUME NEW p \in Process, PollTimeout(p) PROVE QueuesHoldOnlyCallers'
  BY <1>26 DEF PollTimeout, Goto
<1>27. ASSUME NEW p \in Process, NEW on \in BOOLEAN, Fasync(p, on) PROVE QueuesHoldOnlyCallers'
  BY <1>27 DEF Fasync
<1>28. QED
    BY <1>1, <1>2, <1>3, <1>4, <1>5, <1>6, <1>7, <1>8, <1>9, <1>10, <1>11,
     <1>12, <1>13, <1>14, <1>15, <1>16, <1>17, <1>18, <1>19, <1>20, <1>21,
     <1>22, <1>23, <1>24, <1>25, <1>26, <1>27 DEF Next, Kernel, Contend, User

(* After its copy, and until it commits, a reader holds the bytes at the front *)
(* of mem, and a writer's bytes stand behind the data.                         *)
BuffersMatch == \A p \in Process :
  /\ pc[p] = "r_commit" => /\ Len(buf[p]) = count[p]
                           /\ \A i \in 1 .. count[p] : buf[p][i] = mem[i - 1]
  /\ pc[p] = "w_commit" =>
       /\ count[p] <= Len(buf[p])
       /\ \A i \in 1 .. count[p] : mem[current_len + i - 1] = buf[p][i]

LEMMA BuffersMatchStep ==
  ASSUME TypeOK, MutualExclusion, WriteBuffer, BuffersMatch, [Next]_vars
  PROVE  BuffersMatch'
<1> USE DEF TypeOK, BuffersMatch, dev, wq, files, args, vars
<1>1. CASE UNCHANGED vars
  BY <1>1
<1>2. ASSUME NEW p \in Process, Open(p) PROVE BuffersMatch'
  BY <1>2 DEF Open
<1>3. ASSUME NEW p \in Process, Release(p) PROVE BuffersMatch'
  BY <1>3 DEF Release
<1>4. ASSUME NEW p \in Process, Signal(p) PROVE BuffersMatch'
  BY <1>4 DEF Signal
<1>5. ASSUME NEW p \in Process, ReadCall(p) PROVE BuffersMatch'
  BY <1>5 DEF ReadCall, Goto
<1>6. ASSUME NEW p \in Process, ReadDown(p) PROVE BuffersMatch'
  BY <1>6 DEF ReadDown, Down, Result, Goto
<1>7. ASSUME NEW p \in Process, ReadSchedule(p) PROVE BuffersMatch'
  BY <1>7 DEF ReadSchedule, Result, Goto
<1>8. ASSUME NEW p \in Process, ReadDownAgain(p) PROVE BuffersMatch'
  BY <1>8 DEF ReadDownAgain, Down, Goto
<1>9. ASSUME NEW p \in Process, ReadCopy(p) PROVE BuffersMatch'
  <2>1. CASE pc'[p] = "r_commit"
    BY <1>9, <2>1, SizeAssumption DEF ReadCopy, Clamp, Goto, Index
  <2>2. CASE pc'[p] = "r_out"
    BY <1>9, <2>2 DEF ReadCopy, Goto
  <2>3. QED
    BY <1>9, <2>1, <2>2 DEF ReadCopy, Goto
<1>10. ASSUME NEW p \in Process, ReadCommit(p) PROVE BuffersMatch'
  BY <1>10 DEF ReadCommit, Result, Goto, MutualExclusion, Inside, Critical
<1>11. ASSUME NEW p \in Process, ReadOut(p) PROVE BuffersMatch'
  BY <1>11 DEF ReadOut, Up, Goto
<1>12. ASSUME NEW p \in Process, ReadOut2(p) PROVE BuffersMatch'
  BY <1>12 DEF ReadOut2, RemoveWaitQueue, Return, Goto
<1>13. ASSUME NEW p \in Process, WriteCall(p) PROVE BuffersMatch'
  BY <1>13 DEF WriteCall, Goto
<1>14. ASSUME NEW p \in Process, WriteDown(p) PROVE BuffersMatch'
  BY <1>14 DEF WriteDown, Down, Result, Goto
<1>15. ASSUME NEW p \in Process, WriteSchedule(p) PROVE BuffersMatch'
  BY <1>15 DEF WriteSchedule, Result, Goto
<1>16. ASSUME NEW p \in Process, WriteDownAgain(p) PROVE BuffersMatch'
  BY <1>16 DEF WriteDownAgain, Down, Goto
<1>17. ASSUME NEW p \in Process, WriteCopy(p) PROVE BuffersMatch'
  <2>1. \A q \in Process \ {p} :
          pc'[q] = pc[q] /\ pc[q] \notin {"r_commit", "w_commit"}
    BY <1>17 DEF WriteCopy, Goto, MutualExclusion, Inside, Critical
  <2>2. CASE pc'[p] = "w_commit"
    <3> DEFINE n == Clamp(count[p], GLOBALFIFO_SIZE - current_len)
    <3>1. n \in Nat /\ n <= Len(buf[p]) /\ current_len + n <= GLOBALFIFO_SIZE
      BY <1>17, SizeAssumption DEF WriteCopy, WriteBuffer, Clamp
    <3>2. /\ mem' = Store(mem, current_len, buf[p], n)
          /\ count'[p] = n
          /\ UNCHANGED <<current_len, buf>>
      BY <1>17, <2>2 DEF WriteCopy, Goto
    <3> HIDE DEF n
    <3>3. \A i \in 1 .. n : mem'[current_len + i - 1] = buf[p][i]
      BY <3>1, <3>2, SizeAssumption DEF Store, Index
    <3>4. QED
      BY <2>1, <2>2, <3>1, <3>2, <3>3
  <2>3. CASE pc'[p] = "w_out"
    BY <1>17, <2>1, <2>3 DEF WriteCopy, Goto
  <2>4. QED
    BY <1>17, <2>2, <2>3 DEF WriteCopy, Goto
<1>18. ASSUME NEW p \in Process, WriteCommit(p) PROVE BuffersMatch'
  BY <1>18 DEF WriteCommit, Result, Goto, MutualExclusion, Inside, Critical
<1>19. ASSUME NEW p \in Process, WriteOut(p) PROVE BuffersMatch'
  BY <1>19 DEF WriteOut, Up, Goto
<1>20. ASSUME NEW p \in Process, WriteOut2(p) PROVE BuffersMatch'
  BY <1>20 DEF WriteOut2, RemoveWaitQueue, Return, Goto
<1>21. ASSUME NEW p \in Process, IoctlCall(p) PROVE BuffersMatch'
  BY <1>21 DEF IoctlCall, Goto
<1>22. ASSUME NEW p \in Process, IoctlClear(p) PROVE BuffersMatch'
  BY <1>22 DEF IoctlClear, Return, Goto, MutualExclusion, Inside, Critical
<1>23. ASSUME NEW p \in Process, PollCall(p) PROVE BuffersMatch'
  BY <1>23 DEF PollCall, Goto
<1>24. ASSUME NEW p \in Process, PollCheck(p) PROVE BuffersMatch'
  BY <1>24 DEF PollCheck, RemoveWaitQueue, Return, Goto
<1>25. ASSUME NEW p \in Process, PollSchedule(p) PROVE BuffersMatch'
  BY <1>25 DEF PollSchedule, Goto
<1>26. ASSUME NEW p \in Process, PollTimeout(p) PROVE BuffersMatch'
  BY <1>26 DEF PollTimeout, Goto
<1>27. ASSUME NEW p \in Process, NEW on \in BOOLEAN, Fasync(p, on) PROVE BuffersMatch'
  BY <1>27 DEF Fasync
<1>28. QED
    BY <1>1, <1>2, <1>3, <1>4, <1>5, <1>6, <1>7, <1>8, <1>9, <1>10, <1>11,
     <1>12, <1>13, <1>14, <1>15, <1>16, <1>17, <1>18, <1>19, <1>20, <1>21,
     <1>22, <1>23, <1>24, <1>25, <1>26, <1>27 DEF Next, Kernel, Contend, User

-------------------------------------------------------------------------------
(* The steps that touch the stored bytes, as steps of the byte stream. *)
Stored == [i \in 1 .. current_len |-> mem[i - 1]]
Clearing == {p \in Process : pc[p] = "i_down"}

LEMMA StoredType == TypeOK => Stored \in Seq(Byte) /\ Len(Stored) = current_len
<1> SUFFICES ASSUME TypeOK PROVE Stored \in Seq(Byte) /\ Len(Stored) = current_len
  OBVIOUS
<1>1. Stored \in [1 .. current_len -> Byte]
  BY SizeAssumption DEF TypeOK, Stored, Index
<1>2. QED
  BY <1>1, ByteSeq, SizeAssumption DEF TypeOK

LEMMA ReadCommitTakes ==
  ASSUME TypeOK, ClampStillValid, BuffersMatch, NEW p \in Process, ReadCommit(p)
  PROVE  Stream!Take(p)
<1> DEFINE n == count[p]
<1>1. n \in Nat /\ n <= current_len /\ Len(buf[p]) = n /\ current_len \in Nat
  BY SizeAssumption DEF TypeOK, ClampStillValid, BuffersMatch, ReadCommit
<1>2. SubSeq(Stored, 1, n) = buf[p]
  <2>1. buf[p] \in Seq(Byte) /\ SubSeq(Stored, 1, n) \in Seq(Byte)
    BY <1>1, StoredType, SubSeqProperties DEF TypeOK
  <2>2. Len(SubSeq(Stored, 1, n)) = n
    BY <1>1, StoredType, SubSeqProperties
  <2>3. \A i \in 1 .. n : SubSeq(Stored, 1, n)[i] = buf[p][i]
    BY <1>1, StoredType, SMTT(20) DEF Stored, BuffersMatch, ReadCommit
  <2>4. QED
    BY <1>1, <2>1, <2>2, <2>3, SeqEqual
<1>3. Stored' = SubSeq(Stored, n + 1, Len(Stored))
  <2>1. Stored' = [i \in 1 .. current_len - n |-> mem[i + n - 1]]
    BY <1>1, SizeAssumption DEF Stored, ReadCommit, ShiftDown, Index, TypeOK
  <2>2. /\ SubSeq(Stored, n + 1, Len(Stored)) \in Seq(Byte)
        /\ Len(SubSeq(Stored, n + 1, Len(Stored))) = current_len - n
    BY <1>1, StoredType, SubSeqProperties
  <2>3. \A i \in 1 .. current_len - n :
          SubSeq(Stored, n + 1, Len(Stored))[i] = mem[i + n - 1]
    <3>1. \A i \in 1 .. current_len - n :
            SubSeq(Stored, n + 1, Len(Stored))[i] = Stored[n + i]
      BY <1>1, StoredType
    <3>2. \A i \in 1 .. current_len - n : Stored[n + i] = mem[i + n - 1]
      BY <1>1 DEF Stored
    <3>3. QED
      BY <3>1, <3>2
  <2>4. /\ Stored' \in Seq(Byte)
        /\ Len(Stored') = current_len - n
    <3>1. Stored' \in [1 .. current_len - n -> Byte]
      BY <1>1, <2>1, SizeAssumption DEF TypeOK, Index
    <3>2. QED
      BY <1>1, <3>1, ByteSeq
  <2>5. QED
    BY <1>1, <2>1, <2>2, <2>3, <2>4, SeqEqual
<1>4. QED
  BY <1>1, <1>2, <1>3, StoredType
     DEF Stream!Take, Stored, Clearing, ReadCommit, Result, Goto, args, TypeOK

LEMMA WriteCommitPuts ==
  ASSUME TypeOK, ClampStillValid, BuffersMatch, NEW p \in Process, WriteCommit(p)
  PROVE  Stream!Put(p)
<1> DEFINE n == count[p]
<1>1. /\ n \in Nat /\ n \in 0 .. Len(buf[p]) /\ current_len \in Nat
      /\ current_len + n <= GLOBALFIFO_SIZE
  BY SizeAssumption DEF TypeOK, ClampStillValid, BuffersMatch, WriteCommit
<1>2. Stored' = Stored \o SubSeq(buf[p], 1, n)
  <2>1. Stored' = [i \in 1 .. current_len + n |-> mem[i - 1]]
    BY DEF Stored, WriteCommit
  <2>2. SubSeq(buf[p], 1, n) \in Seq(Byte) /\ Len(SubSeq(buf[p], 1, n)) = n
    BY <1>1, SubSeqProperties DEF TypeOK
  <2>3. \A i \in 1 .. n : SubSeq(buf[p], 1, n)[i] = mem[current_len + i - 1]
    BY <1>1 DEF BuffersMatch, WriteCommit, TypeOK
  <2> DEFINE t == SubSeq(buf[p], 1, n)
  <2>4. /\ Stored \o t \in Seq(Byte)
        /\ Len(Stored \o t) = current_len + n
        /\ \A i \in 1 .. current_len : (Stored \o t)[i] = Stored[i]
        /\ \A i \in current_len + 1 .. current_len + n :
             (Stored \o t)[i] = t[i - current_len]
    BY <1>1, <2>2, StoredType, ConcatProperties
  <2>5. \A i \in 1 .. current_len + n : (Stored \o t)[i] = mem[i - 1]
    BY <1>1, <2>3, <2>4 DEF Stored
  <2>6. /\ Stored' \in Seq(Byte)
        /\ Len(Stored') = current_len + n
    <3>1. Stored' \in [1 .. current_len + n -> Byte]
      BY <1>1, <2>1, SizeAssumption DEF TypeOK, Index
    <3>2. QED
      BY <1>1, <3>1, ByteSeq
  <2>7. QED
    BY <1>1, <2>1, <2>4, <2>5, <2>6, SeqEqual
<1>3. QED
  BY <1>1, <1>2, StoredType
     DEF Stream!Put, Stored, Clearing, WriteCommit, Result, Goto, args, TypeOK

LEMMA CopyKeepsStored ==
  ASSUME TypeOK, NEW p \in Process, WriteCopy(p)
  PROVE  UNCHANGED Stored
<1>1. \A i \in 0 .. current_len - 1 : mem'[i] = mem[i]
  BY SizeAssumption DEF WriteCopy, Store, StoreFaulted, Clamp, TypeOK, Index
<1>2. QED
  BY <1>1, SizeAssumption DEF Stored, WriteCopy, TypeOK

LEMMA ClearEmpties ==
  ASSUME NEW p \in Process, IoctlClear(p)
  PROVE  Stored' = << >>
BY DEF Stored, IoctlClear

LEMMA StreamStep ==
  ASSUME TypeOK, ClampStillValid, BuffersMatch, ResultsAtExit, [Next]_vars
  PROVE  [Stream!Next]_<<Stored, buf, ret, Clearing>>
<1> DEFINE Quiet == UNCHANGED Stored /\ Clearing \subseteq Clearing' /\ Stream!KeepResults
<1>1. Quiet => Stream!Next
  BY DEF Stream!Next, Stream!Other, Stored, Clearing
<1> USE DEF TypeOK, ResultsAtExit, Stream!KeepResults, Clearing, dev, wq, files, args, vars
<1>2. ASSUME UNCHANGED dev PROVE UNCHANGED Stored
  BY <1>2 DEF Stored
<1>3. ASSUME NEW p \in Process, Open(p) PROVE Quiet
  BY <1>2, <1>3 DEF Open
<1>4. ASSUME NEW p \in Process, Release(p) PROVE Quiet
  BY <1>2, <1>4 DEF Release
<1>5. ASSUME NEW p \in Process, Signal(p) PROVE Quiet
  BY <1>2, <1>5 DEF Signal
<1>6. ASSUME NEW p \in Process, ReadCall(p) PROVE Quiet
  BY <1>2, <1>6 DEF ReadCall, Goto
<1>7. ASSUME NEW p \in Process, ReadDown(p) PROVE Quiet
  BY <1>2, <1>7 DEF ReadDown, Result, Goto, EAGAIN
<1>8. ASSUME NEW p \in Process, ReadSchedule(p) PROVE Quiet
  BY <1>2, <1>8 DEF ReadSchedule, Result, Goto, ERESTARTSYS
<1>9. ASSUME NEW p \in Process, ReadDownAgain(p) PROVE Quiet
  BY <1>2, <1>9 DEF ReadDownAgain, Goto
<1>10. ASSUME NEW p \in Process, ReadCopy(p) PROVE Quiet
  <2>1. \A q \in Process \ {p} : ret'[q] = ret[q] /\ buf'[q] = buf[q] /\ pc'[q] = pc[q]
    BY <1>10 DEF ReadCopy, Result, Goto
  <2>2. ret'[p] \in Int /\ ret'[p] <= 0
    <3>1. pc[p] = "r_copy"
      BY <1>10 DEF ReadCopy
    <3>2. ret[p] = 0
      BY <3>1
    <3>3. ret' = ret \/ ret' = [ret EXCEPT ![p] = -14]
      BY <1>10 DEF ReadCopy, Result, EFAULT
    <3>4. QED
      BY <3>2, <3>3
  <2>3. pc[p] # "i_down"
    BY <1>10 DEF ReadCopy
  <2>4. UNCHANGED Stored
    BY <1>2, <1>10 DEF ReadCopy
  <2>5. QED
    BY <2>1, <2>2, <2>3, <2>4
<1>11. ASSUME NEW p \in Process, ReadOut(p) PROVE Quiet
  BY <1>2, <1>11 DEF ReadOut, Goto
<1>12. ASSUME NEW p \in Process, ReadOut2(p) PROVE Quiet
  BY <1>2, <1>12 DEF ReadOut2, Return, Goto
<1>13. ASSUME NEW p \in Process, WriteCall(p) PROVE Quiet
  <2>1. \A q \in Process \ {p} : ret'[q] = ret[q] /\ buf'[q] = buf[q] /\ pc'[q] = pc[q]
    BY <1>13 DEF WriteCall, Result, Goto
  <2>2. ret'[p] \in Int /\ ret'[p] <= 0
    <3>1. pc[p] = "user"
      BY <1>13 DEF WriteCall
    <3>2. ret[p] = 0
      BY <3>1
    <3>3. ret' = ret
      BY <1>13 DEF WriteCall
    <3>4. QED
      BY <3>2, <3>3
  <2>3. pc[p] # "i_down"
    BY <1>13 DEF WriteCall
  <2>4. UNCHANGED Stored
    BY <1>2, <1>13 DEF WriteCall
  <2>5. QED
    BY <2>1, <2>2, <2>3, <2>4
<1>14. ASSUME NEW p \in Process, WriteDown(p) PROVE Quiet
  BY <1>2, <1>14 DEF WriteDown, Result, Goto, EAGAIN
<1>15. ASSUME NEW p \in Process, WriteSchedule(p) PROVE Quiet
  BY <1>2, <1>15 DEF WriteSchedule, Result, Goto, ERESTARTSYS
<1>16. ASSUME NEW p \in Process, WriteDownAgain(p) PROVE Quiet
  BY <1>2, <1>16 DEF WriteDownAgain, Goto
<1>17. ASSUME NEW p \in Process, WriteOut(p) PROVE Quiet
  BY <1>2, <1>17 DEF WriteOut, Goto
<1>18. ASSUME NEW p \in Process, WriteOut2(p) PROVE Quiet
  BY <1>2, <1>18 DEF WriteOut2, Return, Goto
<1>19. ASSUME NEW p \in Process, IoctlCall(p) PROVE Quiet
  BY <1>2, <1>19 DEF IoctlCall, Goto
<1>20. ASSUME NEW p \in Process, PollCall(p) PROVE Quiet
  BY <1>2, <1>20 DEF PollCall, Goto
<1>21. ASSUME NEW p \in Process, PollCheck(p) PROVE Quiet
  BY <1>2, <1>21 DEF PollCheck, Return, Goto
<1>22. ASSUME NEW p \in Process, PollSchedule(p) PROVE Quiet
  BY <1>2, <1>22 DEF PollSchedule, Goto
<1>23. ASSUME NEW p \in Process, PollTimeout(p) PROVE Quiet
  BY <1>2, <1>23 DEF PollTimeout, Goto
<1>24. ASSUME NEW p \in Process, NEW on \in BOOLEAN, Fasync(p, on) PROVE Quiet
  BY <1>2, <1>24 DEF Fasync
<1>25. ASSUME NEW p \in Process, WriteCopy(p) PROVE Quiet
  <2>1. \A q \in Process \ {p} : ret'[q] = ret[q] /\ buf'[q] = buf[q] /\ pc'[q] = pc[q]
    BY <1>25 DEF WriteCopy, Result, Goto
  <2>2. ret'[p] \in Int /\ ret'[p] <= 0
    <3>1. pc[p] = "w_copy"
      BY <1>25 DEF WriteCopy
    <3>2. ret[p] = 0
      BY <3>1
    <3>3. ret' = ret \/ ret' = [ret EXCEPT ![p] = -14]
      BY <1>25 DEF WriteCopy, Result, EFAULT
    <3>4. QED
      BY <3>2, <3>3
  <2>3. pc[p] # "i_down"
    BY <1>25 DEF WriteCopy
  <2>4. UNCHANGED Stored
    BY <1>25, CopyKeepsStored
  <2>5. QED
    BY <2>1, <2>2, <2>3, <2>4
<1>26. ASSUME NEW p \in Process, IoctlClear(p) PROVE Stream!Next
  <2>1. \A q \in Process \ {p} : ret'[q] = ret[q] /\ buf'[q] = buf[q] /\ pc'[q] = pc[q]
    BY <1>26 DEF IoctlClear, Return, Goto
  <2>2. ret'[p] = 0
    BY <1>26 DEF IoctlClear, Return
  <2>3. p \in Clearing /\ Clearing' = Clearing \ {p}
    BY <1>26, <2>1 DEF IoctlClear, Return, Goto
  <2>4. Stream!Clear(p)
    BY <1>26, <2>1, <2>2, <2>3, ClearEmpties DEF Stream!Clear, Stored
  <2>5. QED
    BY <2>4 DEF Stream!Next
<1>27. ASSUME NEW p \in Process, ReadCommit(p) PROVE Stream!Next
  BY <1>27, ReadCommitTakes DEF Stream!Next
<1>28. ASSUME NEW p \in Process, WriteCommit(p) PROVE Stream!Next
  BY <1>28, WriteCommitPuts DEF Stream!Next
<1>29. CASE UNCHANGED vars
  BY <1>2, <1>29 DEF Stored
<1> HIDE DEF Quiet
<1>30. QED
  BY <1>1, <1>3, <1>4, <1>5, <1>6, <1>7, <1>8, <1>9, <1>10, <1>11, <1>12, <1>13,
     <1>14, <1>15, <1>16, <1>17, <1>18, <1>19, <1>20, <1>21, <1>22, <1>23,
     <1>24, <1>25, <1>26, <1>27, <1>28, <1>29
  DEF Next, Kernel, Contend, User
-------------------------------------------------------------------------------
(* The inductive invariant: the four parts need one another.  TypeOK bounds     *)
(* current_len by the clamp, the clamp survives because nobody else is between  *)
(* down() and up(), and the bytes copied match because of both.                 *)
IInv == /\ TypeOK
        /\ WriteBuffer
        /\ MutualExclusion
        /\ ClampStillValid
        /\ BuffersMatch
        /\ ResultsAtExit
        /\ SleepersQueued
        /\ ReaderSleepsOnlyWhileEmpty
        /\ QueuesHoldOnlyCallers

LEMMA InitIInv == Init => IInv
BY SizeAssumption, ByteAssumption
   DEF Init, IInv, TypeOK, WriteBuffer, MutualExclusion, ClampStillValid, BuffersMatch,
       ResultsAtExit, SleepersQueued, ReaderSleepsOnlyWhileEmpty, QueuesHoldOnlyCallers, Index,
       Label, Inside, Critical, Asleep, AwaitsData

LEMMA StepIInv == IInv /\ [Next]_vars => IInv'
BY TypeStep, WriteBufferStep, LockStep, ClampStep, BuffersMatchStep, ResultsAtExitStep,
   SleepersQueuedStep, ReaderStep, QueuesStep
   DEF IInv

(* Every reachable state satisfies the inductive invariant. *)
THEOREM Invariance == Spec => []IInv
BY InitIInv, StepIInv, PTL DEF Spec

(* Types: the semaphore is binary and current_len never leaves mem. *)
THEOREM TypeCorrect == Spec => []TypeOK
<1>1. IInv => TypeOK
  BY DEF IInv
<1>2. QED
  BY <1>1, Invariance, PTL

(* One task at a time is between down() and up(), for any number of tasks. *)
THEOREM Exclusion == Spec => []MutualExclusion
<1>1. IInv => MutualExclusion
  BY DEF IInv
<1>2. QED
  BY <1>1, Invariance, PTL

(* The clamp computed before a copy that may sleep is valid after it. *)
THEOREM ClampHolds == Spec => []ClampStillValid
<1>1. IInv => ClampStillValid
  BY DEF IInv
<1>2. QED
  BY <1>1, Invariance, PTL

(* No reader, and no poller for input, sleeps over data. *)
THEOREM NoLostReaderWakeUp == Spec => []ReaderSleepsOnlyWhileEmpty
<1>1. IInv => ReaderSleepsOnlyWhileEmpty
  BY DEF IInv
<1>2. QED
  BY <1>1, Invariance, PTL

(* No wait queue keeps an entry of a call that has returned. *)
THEOREM NoStaleQueueEntry == Spec => []QueuesHoldOnlyCallers
<1>1. IInv => QueuesHoldOnlyCallers
  BY DEF IInv
<1>2. QED
  BY <1>1, Invariance, PTL

(* A closed file is on no notification list.  Only open, release and fasync change *)
(* the files, and fasync runs on an open one.                                        *)
THEOREM ClosedFileGetsNoSignal == Spec => []AsyncQueueOpen
<1>1. Init => AsyncQueueOpen
  BY DEF Init, AsyncQueueOpen
<1>2. ASSUME AsyncQueueOpen, [Next]_vars
      PROVE  AsyncQueueOpen'
  <2>1. CASE UNCHANGED files
    BY <1>2, <2>1 DEF files, AsyncQueueOpen
  <2>2. ASSUME NEW p \in Process,
               Open(p) \/ Release(p) \/ \E on \in BOOLEAN : Fasync(p, on)
        PROVE  AsyncQueueOpen'
    BY <1>2, <2>2 DEF Open, Release, Fasync, AsyncQueueOpen
  <2>3. ASSUME NEW p \in Process, Kernel(p)
        PROVE  UNCHANGED files
    BY <2>3 DEF Kernel, ReadSchedule, ReadCopy, ReadCommit, ReadOut, ReadOut2,
                WriteSchedule, WriteCopy, WriteCommit, WriteOut, WriteOut2, PollSchedule
  <2>4. ASSUME NEW p \in Process, Contend(p)
        PROVE  UNCHANGED files
    BY <2>4 DEF Contend, ReadDown, ReadDownAgain, WriteDown, WriteDownAgain, IoctlClear,
                PollCheck
  <2>5. ASSUME NEW p \in Process,
               ReadCall(p) \/ WriteCall(p) \/ IoctlCall(p) \/ PollCall(p)
                 \/ PollTimeout(p) \/ Signal(p)
        PROVE  UNCHANGED files
    BY <2>5 DEF ReadCall, WriteCall, IoctlCall, PollCall, PollTimeout, Signal
  <2>6. CASE UNCHANGED vars
    BY <2>1, <2>6 DEF vars
  <2> QED
    BY <1>2, <2>1, <2>2, <2>3, <2>4, <2>5, <2>6 DEF Next, User
<1> QED
  BY <1>1, <1>2, PTL DEF Spec

(* Where callers do not use FIFO_CLEAR, no writer sleeps over free space. *)
THEOREM NoLostWriterWakeUp ==
  ASSUME "ioctl" \notin Ops
  PROVE  Spec => []WriterSleepsOnlyWhileFull
<1> DEFINE W == NobodyClears /\ WriterSleepsOnlyWhileFull
<1>1. Init => W
  BY DEF Init, NobodyClears, WriterSleepsOnlyWhileFull, Asleep
<1>2. IInv /\ W /\ [Next]_vars => W'
  BY NobodyClearsStep, WriterStep DEF IInv
<1>3. QED
  BY <1>1, <1>2, Invariance, PTL DEF Spec

(* A read, blocking or not, returns 0 only if another task was inside read meanwhile, or *)
(* the FIFO was cleared: with one reader at a time BlockingReadReturnsData holds.          *)
THEOREM OnlyReaderGetsData ==
  ASSUME "ioctl" \notin Ops, 0 \notin Counts
  PROVE  Spec /\ []OneReader => []BlockingReadReturnsData
<1> DEFINE W == NobodyClears /\ FindsDataInv
<1>1. Init => W
  BY DEF Init, NobodyClears, FindsDataInv
<1>2. IInv /\ OneReader /\ W /\ [Next]_vars => W'
  BY NobodyClearsStep, FindsDataStep DEF IInv
<1>3. W => BlockingReadReturnsData
  BY DEF FindsDataInv, BlockingReadReturnsData
<1>4. QED
  BY <1>1, <1>2, <1>3, Invariance, PTL DEF Spec

(* The driver implements the byte stream. *)
THEOREM ImplementsStream == Spec => StreamSpec
<1>1. Init => Stream!Init
  BY DEF Init, Stream!Init
<1>2. IInv /\ [Next]_vars => [Stream!Next]_<<Stored, buf, ret, Clearing>>
  BY StreamStep DEF IInv
<1>3. QED
  BY <1>1, <1>2, Invariance, PTL
     DEF Spec, StreamSpec, Stream!Spec, Stream!vars, Stored, Clearing
===============================================================================
