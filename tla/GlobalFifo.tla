------------------------------ MODULE GlobalFifo ------------------------------
(***************************************************************************)
(* The blocking FIFO device of char_driver/3/globalfifo_block/globalfifo.c, *)
(* and, with HasFasync, of char_driver/globalfifo_async/globalfifo_async.c, *)
(* which is the same driver plus SIGIO notification.                        *)
(*                                                                          *)
(* A process is in user space (pc = "user") or inside one system call on    *)
(* its own open file.  A step runs from one place where the task can lose   *)
(* the processor to the next: a contended down(), schedule(), or a copy to  *)
(* or from user memory that can fault.  Read labels start with r_, write    *)
(* labels with w_, poll labels with p_; i_down is ioctl.                    *)
(***************************************************************************)
EXTENDS Integers, Sequences

CONSTANTS Process,          \* tasks that use the device
          Byte, Zero,       \* byte values, and the one memset() writes
          GLOBALFIFO_SIZE,
          Counts,           \* the counts a caller may pass (bound)
          Ops,              \* the operations callers may use in this instance
          HasFasync         \* TRUE for globalfifo_async.c

ASSUME SizeAssumption == GLOBALFIFO_SIZE \in Nat \ {0}
ASSUME ByteAssumption == Zero \in Byte
ASSUME CountsAssumption == Counts \subseteq Nat
ASSUME FasyncAssumption == HasFasync \in BOOLEAN

EAGAIN == 11
EFAULT == 14
ERESTARTSYS == 512
POLLIN == "IN"
POLLOUT == "OUT"

VARIABLES
  current_len, mem,   \* the device's bytes: mem[0 .. current_len-1] are valid
  sem,                \* count of dev->sem
  r_wait, w_wait,     \* tasks with an entry on each wait queue
  waiting,            \* in TASK_INTERRUPTIBLE, or (poll) not yet triggered
  async_queue,        \* tasks registered for SIGIO
  opened,             \* tasks with the device open
  signalled,          \* tasks in the kernel with a signal pending
  pc,
  count, nonblock, events, \* arguments of the call in progress
  buf,                \* bytes in the caller's buffer
  ret                 \* the handler's local of that name

dev   == <<current_len, mem>>
wq    == <<r_wait, w_wait, waiting>>
files == <<opened, async_queue>>
args  == <<count, nonblock, events>>
vars  == <<dev, sem, wq, files, signalled, pc, args, buf, ret>>

Index == 0 .. GLOBALFIFO_SIZE - 1

Init == /\ current_len = 0
        /\ mem = [i \in Index |-> Zero]
        /\ sem = 1
        /\ r_wait = {} /\ w_wait = {} /\ waiting = {}
        /\ opened = {} /\ async_queue = {}
        /\ signalled = {}
        /\ pc = [p \in Process |-> "user"]
        /\ count = [p \in Process |-> 0]
        /\ nonblock = [p \in Process |-> FALSE]
        /\ events = [p \in Process |-> {}]
        /\ buf = [p \in Process |-> << >>]
        /\ ret = [p \in Process |-> 0]
-------------------------------------------------------------------------------
(* Kernel services the driver calls. *)

Down == sem > 0 /\ sem' = sem - 1
Up   == sem' = sem + 1

(* Entries are not exclusive: everyone on the queue who sleeps is woken. *)
WakeUp(queue) == waiting' = waiting \ queue

(* Variant: unlinks only from the queue the source names. *)
RemoveNamedQueue(p) == w_wait' = w_wait \ {p} /\ UNCHANGED r_wait

(* remove_wait_queue(q, wait) is list_del() under q's lock: it unlinks the *)
(* entry from the list it is on, whichever queue q is.                     *)
RemoveWaitQueue(p) == /\ r_wait' = r_wait \ {p}
                      /\ w_wait' = w_wait \ {p}

Goto(p, label) == pc' = [pc EXCEPT ![p] = label]
Result(p, v)   == ret' = [ret EXCEPT ![p] = v]

(* Back in user space: the handler's frame is gone, signals are handled. *)
Return(p) == /\ Goto(p, "user")
             /\ signalled' = signalled \ {p}
             /\ count' = [count EXCEPT ![p] = 0]
             /\ nonblock' = [nonblock EXCEPT ![p] = FALSE]
             /\ events' = [events EXCEPT ![p] = {}]
             /\ buf' = [buf EXCEPT ![p] = << >>]
             /\ ret' = [ret EXCEPT ![p] = 0]

Clamp(n, limit) == IF n > limit THEN limit ELSE n

(* Variant: current_len is reduced before the memcpy() that uses it. *)
ShiftDownLate(m, n, len) ==
  [i \in Index |-> IF i < (len - n) - n THEN m[i + n] ELSE m[i]]

(* memcpy(mem, mem + n, len - n), which the target's memcpy copies upwards. *)
ShiftDown(m, n, len) == [i \in Index |-> IF i < len - n THEN m[i + n] ELSE m[i]]

(* The n bytes of s stored from m[at] on. *)
Store(m, at, s, n) ==
  [i \in Index |-> IF i \in at .. at + n - 1 THEN s[i - at + 1] ELSE m[i]]

(* A copy_from_user() that faults after k bytes zero-fills the rest. *)
StoreFaulted(m, at, s, n, k) ==
  [i \in Index |-> IF i \in at + k .. at + n - 1 THEN Zero ELSE Store(m, at, s, k)[i]]
-------------------------------------------------------------------------------
(* open, release, fasync *)

Open(p) == /\ pc[p] = "user" /\ p \notin opened
           /\ opened' = opened \union {p}
           /\ UNCHANGED <<dev, sem, wq, async_queue, signalled, pc, args, buf, ret>>

(* Variant: release does not call globalfifo_fasync(-1, filp, 0). *)
ReleaseKeepsFasync(p) ==
  /\ pc[p] = "user" /\ p \in opened
  /\ opened' = opened \ {p}
  /\ UNCHANGED <<dev, sem, wq, async_queue, signalled, pc, args, buf, ret>>

Release(p) == /\ pc[p] = "user" /\ p \in opened
              /\ opened' = opened \ {p}
              /\ async_queue' = async_queue \ {p}
              /\ UNCHANGED <<dev, sem, wq, signalled, pc, args, buf, ret>>

(* fcntl(fd, F_SETFL, FASYNC): takes fasync_lock, not dev->sem. *)
Fasync(p, on) == /\ HasFasync
                 /\ pc[p] = "user" /\ p \in opened
                 /\ async_queue' = IF on THEN async_queue \union {p}
                                         ELSE async_queue \ {p}
                 /\ UNCHANGED <<dev, sem, wq, opened, signalled, pc, args, buf, ret>>

(* A signal from elsewhere reaches a task that is inside a call. *)
Signal(p) == /\ pc[p] # "user" /\ p \notin signalled
             /\ signalled' = signalled \union {p}
             /\ UNCHANGED <<dev, sem, wq, files, pc, args, buf, ret>>
-------------------------------------------------------------------------------
(* read *)

ReadCall(p) == /\ "read" \in Ops
               /\ pc[p] = "user" /\ p \in opened
               /\ \E n \in Counts, nb \in BOOLEAN :
                    /\ count' = [count EXCEPT ![p] = n]
                    /\ nonblock' = [nonblock EXCEPT ![p] = nb]
               /\ Goto(p, "r_down")
               /\ UNCHANGED <<dev, sem, wq, files, signalled, events, buf, ret>>

(* Variant: the EAGAIN path leaves through out2 and never calls up(). *)
ReadDownKeepsSem(p) ==
  /\ pc[p] = "r_down"
  /\ r_wait' = r_wait \union {p}
  /\ \/ current_len # 0 /\ Down /\ Goto(p, "r_copy") /\ UNCHANGED <<waiting, ret>>
     \/ /\ current_len = 0 /\ nonblock[p]
        /\ Down
        /\ Result(p, -EAGAIN)
        /\ Goto(p, "r_out2")
        /\ UNCHANGED waiting
     \/ /\ current_len = 0 /\ ~nonblock[p]
        /\ sem > 0 /\ UNCHANGED sem
        /\ waiting' = waiting \union {p}
        /\ Goto(p, "r_sched")
        /\ UNCHANGED ret
  /\ UNCHANGED <<dev, w_wait, files, signalled, args, buf>>

(* down(), queue, and the test of current_len.  The sleeper is marked *)
(* TASK_INTERRUPTIBLE before up() lets a writer in.                   *)
ReadDown(p) ==
  /\ pc[p] = "r_down"
  /\ r_wait' = r_wait \union {p}
  /\ \/ /\ current_len # 0
        /\ Down
        /\ Goto(p, "r_copy")
        /\ UNCHANGED <<waiting, ret>>
     \/ /\ current_len = 0 /\ nonblock[p]
        /\ Down
        /\ Result(p, -EAGAIN)
        /\ Goto(p, "r_out")
        /\ UNCHANGED waiting
     \/ /\ current_len = 0 /\ ~nonblock[p]
        /\ sem > 0 /\ UNCHANGED sem
        /\ waiting' = waiting \union {p}
        /\ Goto(p, "r_sched")
        /\ UNCHANGED ret
  /\ UNCHANGED <<dev, w_wait, files, signalled, args, buf>>

(* Variant: the interrupted sleeper leaves through out and calls up(). *)
ReadScheduleUps(p) ==
  /\ pc[p] = "r_sched"
  /\ p \notin waiting \/ p \in signalled
  /\ waiting' = waiting \ {p}
  /\ IF p \in signalled
     THEN Result(p, -ERESTARTSYS) /\ Goto(p, "r_out")
     ELSE Goto(p, "r_down2") /\ UNCHANGED ret
  /\ UNCHANGED <<dev, sem, r_wait, w_wait, files, signalled, args, buf>>

(* schedule() returns when woken, or at once with a signal pending. *)
ReadSchedule(p) ==
  /\ pc[p] = "r_sched"
  /\ p \notin waiting \/ p \in signalled
  /\ waiting' = waiting \ {p}
  /\ IF p \in signalled
     THEN Result(p, -ERESTARTSYS) /\ Goto(p, "r_out2")
     ELSE Goto(p, "r_down2") /\ UNCHANGED ret
  /\ UNCHANGED <<dev, sem, r_wait, w_wait, files, signalled, args, buf>>

(* Variant: the woken reader does not take the semaphore again. *)
ReadNoDownAgain(p) == /\ pc[p] = "r_down2"
                      /\ Goto(p, "r_copy")
                      /\ UNCHANGED <<dev, sem, wq, files, signalled, args, buf, ret>>

(* Woken: current_len is not tested again. *)
ReadDownAgain(p) == /\ pc[p] = "r_down2"
                    /\ Down
                    /\ Goto(p, "r_copy")
                    /\ UNCHANGED <<dev, wq, files, signalled, args, buf, ret>>

ReadCopy(p) ==
  LET n == Clamp(count[p], current_len) IN
  /\ pc[p] = "r_copy"
  /\ count' = [count EXCEPT ![p] = n]
  /\ \/ /\ buf' = [buf EXCEPT ![p] = [i \in 1..n |-> mem[i - 1]]]
        /\ Goto(p, "r_commit")
        /\ UNCHANGED ret
     \/ /\ n > 0                          \* copy_to_user faults
        /\ Result(p, -EFAULT)
        /\ Goto(p, "r_out")
        /\ UNCHANGED buf
  /\ UNCHANGED <<dev, sem, wq, files, signalled, nonblock, events>>

(* Variant: no wake_up_interruptible(&dev->w_wait). *)
ReadCommitSilent(p) ==
  /\ pc[p] = "r_commit"
  /\ mem' = ShiftDown(mem, count[p], current_len)
  /\ current_len' = current_len - count[p]
  /\ Result(p, count[p])
  /\ Goto(p, "r_out")
  /\ UNCHANGED <<sem, wq, files, signalled, args, buf>>

ReadCommit(p) == /\ pc[p] = "r_commit"
                 /\ mem' = ShiftDown(mem, count[p], current_len)
                 /\ current_len' = current_len - count[p]
                 /\ WakeUp(w_wait)
                 /\ Result(p, count[p])
                 /\ Goto(p, "r_out")
                 /\ UNCHANGED <<sem, r_wait, w_wait, files, signalled, args, buf>>

ReadOut(p) == /\ pc[p] = "r_out"
              /\ Up
              /\ Goto(p, "r_out2")
              /\ UNCHANGED <<dev, wq, files, signalled, args, buf, ret>>

(* The source passes &dev->w_wait here although the entry is on r_wait. *)
ReadOut2(p) == /\ pc[p] = "r_out2"
               /\ RemoveWaitQueue(p)
               /\ waiting' = waiting \ {p}
               /\ Return(p)
               /\ UNCHANGED <<dev, sem, files>>
-------------------------------------------------------------------------------
(* write *)

WriteCall(p) == /\ "write" \in Ops
                /\ pc[p] = "user" /\ p \in opened
                /\ \E n \in Counts, nb \in BOOLEAN :
                     /\ count' = [count EXCEPT ![p] = n]
                     /\ nonblock' = [nonblock EXCEPT ![p] = nb]
                     /\ \E s \in [1..n -> Byte] : buf' = [buf EXCEPT ![p] = s]
                /\ Goto(p, "w_down")
                /\ UNCHANGED <<dev, sem, wq, files, signalled, events, ret>>

WriteDown(p) ==
  /\ pc[p] = "w_down"
  /\ w_wait' = w_wait \union {p}
  /\ \/ /\ current_len # GLOBALFIFO_SIZE
        /\ Down
        /\ Goto(p, "w_copy")
        /\ UNCHANGED <<waiting, ret>>
     \/ /\ current_len = GLOBALFIFO_SIZE /\ nonblock[p]
        /\ Down
        /\ Result(p, -EAGAIN)
        /\ Goto(p, "w_out")
        /\ UNCHANGED waiting
     \/ /\ current_len = GLOBALFIFO_SIZE /\ ~nonblock[p]
        /\ sem > 0 /\ UNCHANGED sem
        /\ waiting' = waiting \union {p}
        /\ Goto(p, "w_sched")
        /\ UNCHANGED ret
  /\ UNCHANGED <<dev, r_wait, files, signalled, args, buf>>

WriteSchedule(p) ==
  /\ pc[p] = "w_sched"
  /\ p \notin waiting \/ p \in signalled
  /\ waiting' = waiting \ {p}
  /\ IF p \in signalled
     THEN Result(p, -ERESTARTSYS) /\ Goto(p, "w_out2")
     ELSE Goto(p, "w_down2") /\ UNCHANGED ret
  /\ UNCHANGED <<dev, sem, r_wait, w_wait, files, signalled, args, buf>>

WriteDownAgain(p) == /\ pc[p] = "w_down2"
                     /\ Down
                     /\ Goto(p, "w_copy")
                     /\ UNCHANGED <<dev, wq, files, signalled, args, buf, ret>>

WriteCopy(p) ==
  LET n == Clamp(count[p], GLOBALFIFO_SIZE - current_len) IN
  /\ pc[p] = "w_copy"
  /\ count' = [count EXCEPT ![p] = n]
  /\ \/ /\ mem' = Store(mem, current_len, buf[p], n)
        /\ Goto(p, "w_commit")
        /\ UNCHANGED ret
     \/ /\ n > 0                          \* copy_from_user faults
        /\ \E k \in 0 .. n - 1 :
             mem' = StoreFaulted(mem, current_len, buf[p], n, k)
        /\ Result(p, -EFAULT)
        /\ Goto(p, "w_out")
  /\ UNCHANGED <<current_len, sem, wq, files, signalled, nonblock, events, buf>>

(* Variant: no wake_up_interruptible(&dev->r_wait). *)
WriteCommitSilent(p) ==
  /\ pc[p] = "w_commit"
  /\ current_len' = current_len + count[p]
  /\ signalled' = signalled \union {q \in async_queue : pc[q] # "user"}
  /\ Result(p, count[p])
  /\ Goto(p, "w_out")
  /\ UNCHANGED <<mem, sem, wq, files, args, buf>>

(* kill_fasync() leaves SIGIO pending for every registered task; one that is *)
(* in user space takes it at once.                                           *)
WriteCommit(p) ==
  /\ pc[p] = "w_commit"
  /\ current_len' = current_len + count[p]
  /\ WakeUp(r_wait)
  /\ signalled' = signalled \union {q \in async_queue : pc[q] # "user"}
  /\ Result(p, count[p])
  /\ Goto(p, "w_out")
  /\ UNCHANGED <<mem, sem, r_wait, w_wait, files, args, buf>>

WriteOut(p) == /\ pc[p] = "w_out"
               /\ Up
               /\ Goto(p, "w_out2")
               /\ UNCHANGED <<dev, wq, files, signalled, args, buf, ret>>

WriteOut2(p) == /\ pc[p] = "w_out2"
                /\ RemoveWaitQueue(p)
                /\ waiting' = waiting \ {p}
                /\ Return(p)
                /\ UNCHANGED <<dev, sem, files>>
-------------------------------------------------------------------------------
(* ioctl(FIFO_CLEAR): nobody is woken. *)

IoctlCall(p) == /\ "ioctl" \in Ops
                /\ pc[p] = "user" /\ p \in opened
                /\ Goto(p, "i_down")
                /\ UNCHANGED <<dev, sem, wq, files, signalled, args, buf, ret>>

(* Variant: clears without dev->sem. *)
IoctlClearUnlocked(p) ==
  /\ pc[p] = "i_down"
  /\ current_len' = 0
  /\ mem' = [i \in Index |-> Zero]
  /\ Return(p)
  /\ UNCHANGED <<sem, wq, files>>

IoctlClear(p) == /\ pc[p] = "i_down"
                 /\ sem > 0
                 /\ current_len' = 0
                 /\ mem' = [i \in Index |-> Zero]
                 /\ Return(p)
                 /\ UNCHANGED <<sem, wq, files>>
-------------------------------------------------------------------------------
(* poll: the driver's handler, and the loop of poll(2) that calls it. *)

PollMask == (IF current_len # 0 THEN {POLLIN} ELSE {})
              \union (IF current_len # GLOBALFIFO_SIZE THEN {POLLOUT} ELSE {})

(* poll(2) with a zero timeout makes one pass only. *)
PollCall(p) == /\ "poll" \in Ops
               /\ pc[p] = "user" /\ p \in opened
               /\ \E e \in SUBSET {POLLIN, POLLOUT} :
                    events' = [events EXCEPT ![p] = e]
               /\ waiting' = waiting \union {p}
               /\ \E label \in {"p_down", "p_last"} : Goto(p, label)
               /\ UNCHANGED <<dev, sem, r_wait, w_wait, files, signalled,
                              count, nonblock, buf, ret>>

(* down(), join both queues, compute the mask, up().  poll(2) returns if the *)
(* mask meets the request, the time is up or a signal is pending.            *)
PollCheck(p) ==
  /\ pc[p] \in {"p_down", "p_last"}
  /\ sem > 0
  /\ IF PollMask \intersect events[p] # {} \/ pc[p] = "p_last" \/ p \in signalled
     THEN /\ RemoveWaitQueue(p)
          /\ waiting' = waiting \ {p}
          /\ Return(p)
     ELSE /\ r_wait' = r_wait \union {p}
          /\ w_wait' = w_wait \union {p}
          /\ Goto(p, "p_sched")
          /\ UNCHANGED <<waiting, signalled, args, buf, ret>>
  /\ UNCHANGED <<dev, sem, files>>

(* poll_schedule_timeout() clears "triggered" on its way out. *)
PollSchedule(p) == /\ pc[p] = "p_sched"
                   /\ p \notin waiting \/ p \in signalled
                   /\ waiting' = waiting \union {p}
                   /\ Goto(p, "p_down")
                   /\ UNCHANGED <<dev, sem, r_wait, w_wait, files, signalled,
                                  args, buf, ret>>

PollTimeout(p) == /\ pc[p] = "p_sched"
                  /\ waiting' = waiting \union {p}
                  /\ Goto(p, "p_last")
                  /\ UNCHANGED <<dev, sem, r_wait, w_wait, files, signalled, args, buf, ret>>
-------------------------------------------------------------------------------
(* What a task does by itself once inside the kernel, and its contended down(). *)
Kernel(p) == \/ ReadSchedule(p) \/ ReadCopy(p) \/ ReadCommit(p)
             \/ ReadOut(p) \/ ReadOut2(p)
             \/ WriteSchedule(p) \/ WriteCopy(p) \/ WriteCommit(p)
             \/ WriteOut(p) \/ WriteOut2(p)
             \/ PollSchedule(p)

Contend(p) == \/ ReadDown(p) \/ ReadDownAgain(p)
              \/ WriteDown(p) \/ WriteDownAgain(p)
              \/ IoctlClear(p) \/ PollCheck(p)

(* What user space, timers and other processes do to it. *)
User(p) == \/ Open(p) \/ Release(p) \/ \E on \in BOOLEAN : Fasync(p, on)
           \/ ReadCall(p) \/ WriteCall(p) \/ IoctlCall(p) \/ PollCall(p)
           \/ PollTimeout(p) \/ Signal(p)

Next == \E p \in Process : Kernel(p) \/ Contend(p) \/ User(p)

Spec == Init /\ [][Next]_vars

(* A runnable task runs; dev->sem hands over in arrival order, so a task in *)
(* down() is not passed over for ever.  Callers owe nothing.                *)
Fairness == \A p \in Process : WF_vars(Kernel(p)) /\ SF_vars(Contend(p))

FairSpec == Spec /\ Fairness
-------------------------------------------------------------------------------
Label == {"user", "r_down", "r_sched", "r_down2", "r_copy", "r_commit", "r_out",
          "r_out2", "w_down", "w_sched", "w_down2", "w_copy", "w_commit", "w_out",
          "w_out2", "i_down", "p_down", "p_sched", "p_last"}

(* Holds dev->sem across a place where the task may lose the processor. *)
Critical == {"r_copy", "r_commit", "r_out", "w_copy", "w_commit", "w_out"}
Inside(p) == pc[p] \in Critical

(* Has given up the processor and needs someone else to get it back. *)
Asleep(p) == /\ pc[p] \in {"r_sched", "w_sched", "p_sched"}
             /\ p \in waiting /\ p \notin signalled

AwaitsData(p)  == pc[p] = "r_sched" \/ (pc[p] = "p_sched" /\ POLLIN \in events[p])
AwaitsSpace(p) == pc[p] = "w_sched" \/ (pc[p] = "p_sched" /\ POLLOUT \in events[p])

(* Types; in particular the semaphore stays binary and current_len within mem. *)
TypeOK == /\ current_len \in 0 .. GLOBALFIFO_SIZE
          /\ mem \in [Index -> Byte]
          /\ sem \in {0, 1}
          /\ r_wait \subseteq Process /\ w_wait \subseteq Process
          /\ waiting \subseteq Process
          /\ async_queue \subseteq Process /\ opened \subseteq Process
          /\ signalled \subseteq Process
          /\ pc \in [Process -> Label]
          /\ count \in [Process -> Nat]
          /\ nonblock \in [Process -> BOOLEAN]
          /\ events \in [Process -> SUBSET {POLLIN, POLLOUT}]
          /\ buf \in [Process -> Seq(Byte)]
          /\ ret \in [Process -> Int]

(* dev->sem is a lock: whatever mix of the goto paths out and out2, of sleeping *)
(* with it released and of taking it again, one task at a time is between      *)
(* down() and up(), and while nobody is, the semaphore is free.                *)
MutualExclusion ==
  /\ \A p, q \in Process : Inside(p) /\ Inside(q) => p = q
  /\ sem = 0 <=> \E p \in Process : Inside(p)

(* The bound computed before the copy still holds after it: no read shifts out *)
(* more than is stored, no write grows the data past mem, though the copy may  *)
(* sleep on a page fault between the two.                                      *)
ClampStillValid ==
  \A p \in Process :
    /\ pc[p] = "r_commit" => count[p] <= current_len
    /\ pc[p] = "w_commit" => current_len + count[p] <= GLOBALFIFO_SIZE

(* No lost wake-up on r_wait: a task that waits for data sleeps only while the *)
(* FIFO is empty, whoever wrote between its test and its schedule().           *)
ReaderSleepsOnlyWhileEmpty ==
  \A p \in Process : Asleep(p) /\ AwaitsData(p) => current_len = 0

(* The comment of globalfifo_write, "wait for the FIFO not to be full": a task *)
(* that waits for space sleeps only while the FIFO is full.  True of read and  *)
(* write; FIFO_CLEAR empties the FIFO and wakes nobody.                        *)
WriterSleepsOnlyWhileFull ==
  \A p \in Process : Asleep(p) /\ AwaitsSpace(p) => current_len = GLOBALFIFO_SIZE

(* The comment of globalfifo_read, "wait for the FIFO not to be empty": a      *)
(* blocking read of at least one byte does not come back with none.            *)
BlockingReadReturnsData ==
  \A p \in Process : pc[p] = "r_out" /\ ~nonblock[p] => ret[p] # 0

(* The wait queue entries live on the handlers' stacks: no queue keeps an entry *)
(* of a call that has returned, though read removes its entry from w_wait.      *)
QueuesHoldOnlyCallers ==
  \A p \in r_wait \union w_wait : pc[p] \notin {"user", "r_down", "w_down", "i_down"}

(* A closed file gets no SIGIO: it is off the asynchronous notification list. *)
AsyncQueueOpen == async_queue \subseteq opened

(* The driver is a byte stream: copy then shift, store then count, under any    *)
(* interleaving of callers, deliver every byte accepted once and in order, and  *)
(* a call returns the number of bytes it moved.                                 *)
Stream == INSTANCE ByteFifo
            WITH Capacity <- GLOBALFIFO_SIZE,
                 fifo     <- [i \in 1 .. current_len |-> mem[i - 1]],
                 result   <- ret,
                 clearing <- {p \in Process : pc[p] = "i_down"}
StreamSpec == Stream!Spec

(* Whatever path a call takes, it gets back to user space or to schedule(): no  *)
(* path keeps dev->sem, or waits in down() for a count nobody will give back.   *)
CallEndsOrSleeps ==
  \A p \in Process : pc[p] # "user"
                      ~> pc[p] \in {"user", "r_sched", "w_sched", "p_sched"}

(* A task woken, or interrupted, in read or write leaves the driver.            *)
WokenCallReturns ==
  \A p \in Process :
    pc[p] \in {"r_sched", "w_sched"} /\ ~Asleep(p) ~> pc[p] = "user"
===============================================================================
