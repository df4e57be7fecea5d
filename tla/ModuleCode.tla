------------------------------- MODULE ModuleCode -------------------------------
(***************************************************************************)
(* The code of a module that the kernel runs by itself, between load and    *)
(* unload: the thread of waitqueue.c and of complete_test.c, the handler of *)
(* timer.c, the bottom half of the key drivers.  A module has at most one   *)
(* such piece.  Unload frees its code, whether it still runs or not.        *)
(*                                                                          *)
(* On the uniprocessor kernel of the shipped modules a task loses the       *)
(* processor only where it waits; the steps of a Stretch then follow each   *)
(* other.  On an "smp" kernel anything may come between.                    *)
(***************************************************************************)
EXTENDS ModuleLoad

CONSTANTS Kernels,       \* a set of "up", "smp"
          HZ,            \* ticks of a second, which is TIMER_INTERVAL_S
          WordSize       \* 2^32: jiffies wraps

ASSUME KernelsAssumption == Kernels \subseteq {"up", "smp"}
ASSUME JiffiesAssumption == /\ HZ \in Nat \ {0} /\ WordSize \in Nat
                            /\ HZ < WordSize \div 2

VARIABLES
  kernel,
  code,         \* what the module's own code is doing
  signalled,    \* waitqueue.c's condition, complete_test.c's completion
  waking,       \* callers of the ioctl between condition = 1 and wake_up()
  kthreadp,     \* "null", "thread", or "error" for an ERR_PTR
  storing,      \* kthread_run() has started the thread and not stored it in kthreadp
  stopping,     \* unload found a thread ("found") and waits for it ("waits"), or "no"
  jiffies,
  due,          \* the tick in which the armed timer fires
  since         \* ghost: ticks since load (bound: HZ + 1), or HZ + 2 once the timer has fired

threadVars == <<signalled, waking, kthreadp, storing, stopping>>
timerVars  == <<jiffies, due, since>>
vars       == <<moduleVars, kernel, code, threadVars, timerVars>>

Tick == 0 .. WordSize - 1

Init == /\ ModuleInit /\ kernel \in Kernels
        /\ code = "none" /\ signalled = FALSE /\ waking = {}
        /\ kthreadp = "null" /\ storing = FALSE /\ stopping = "no"
        /\ jiffies \in (IF driver = "timer" THEN Tick ELSE {0})
        /\ due = 0 /\ since = 0

Stretch == storing \/ stopping = "found" \/ waking # {} \/ code \in {"woken", "returning", "handler"}
MayRun  == kernel = "smp" \/ ~Stretch

Awake == IF code = "asleep" THEN "runnable" ELSE code

(* The timer wheel: the tick in which a timer fires that is armed to expire at a  *)
(* value of jiffies.  What is not ahead, as a signed difference, is due at once.  *)
Slot(expires) ==
  LET next == (jiffies + 1) % WordSize
  IN  IF (expires - next) % WordSize < WordSize \div 2 THEN expires % WordSize ELSE next
-------------------------------------------------------------------------------
(* load *)

(* Variant: as in the handler. *)
FirstExpiryAbsolute == HZ

FirstExpiry == jiffies + HZ

Loading ==
  /\ MayRun /\ ~storing
  /\ \/ /\ LoadStep
        /\ code' = (CASE Step.thing = "thread" -> "runnable"
                      [] Step.thing = "timer"  -> "armed"
                      [] OTHER                 -> code)
        /\ storing' = (driver = "waitqueue" /\ Step.thing = "thread")
        /\ due' = IF Step.thing = "timer" THEN Slot(FirstExpiry) ELSE due
        /\ UNCHANGED kthreadp
     \/ /\ LoadStepFails
        /\ kthreadp' = IF driver = "waitqueue" /\ Step.thing = "thread" THEN "error" ELSE kthreadp
        /\ UNCHANGED <<code, storing, due>>
     \/ LoadDone /\ UNCHANGED <<code, kthreadp, storing, due>>
  /\ UNCHANGED <<kernel, signalled, waking, stopping, jiffies, since>>

StorePointer == /\ storing
                /\ storing' = FALSE /\ kthreadp' = "thread"
                /\ UNCHANGED <<moduleVars, kernel, code, signalled, waking, stopping, timerVars>>
-------------------------------------------------------------------------------
(* the thread *)

Thread(from, to) == /\ code = from /\ code' = to
                    /\ UNCHANGED <<kernel, signalled, waking, storing, stopping, timerVars>>

(* The wait marks the thread asleep before it tests, so the test and going to sleep *)
(* are one step to those who wake it.                                               *)
ThreadTest == /\ MayRun
              /\ Thread("runnable", IF signalled THEN "woken" ELSE "asleep")
              /\ UNCHANGED <<moduleVars, kthreadp>>

ThreadClears == /\ Thread("woken", "returning")
                /\ kthreadp' = "null"
                /\ UNCHANGED moduleVars

ThreadReturns == /\ Thread("returning", "ended")
                 /\ UNCHANGED <<moduleVars, kthreadp>>

ThreadSteps == ThreadTest \/ ThreadClears \/ ThreadReturns
-------------------------------------------------------------------------------
(* the ioctl that wakes the thread; complete() sets and wakes under one lock *)

Ioctl(p) ==
  /\ MayRun /\ p \in calling \ waking
  /\ This.uses[file[p]] \subseteq held
  /\ signalled' = TRUE
  /\ \/ driver = "waitqueue" /\ waking' = waking \union {p} /\ UNCHANGED code
     \/ driver = "complete_test" /\ code' = Awake /\ UNCHANGED waking
  /\ UNCHANGED <<moduleVars, kernel, kthreadp, storing, stopping, timerVars>>

(* Variant: nobody is woken. *)
IoctlWakeNobody(p) == /\ p \in waking
                      /\ waking' = waking \ {p}
                      /\ UNCHANGED <<moduleVars, kernel, code, signalled, kthreadp, storing,
                                     stopping, timerVars>>

IoctlWake(p) == /\ p \in waking
                /\ waking' = waking \ {p} /\ code' = Awake
                /\ UNCHANGED <<moduleVars, kernel, signalled, kthreadp, storing, stopping, timerVars>>

Caller(p) == /\ MayRun /\ p \notin waking
             /\ Open(p) \/ Call(p) \/ Return(p) \/ Close(p)
             /\ UNCHANGED <<kernel, code, threadVars, timerVars>>
-------------------------------------------------------------------------------
(* timer and bottom half *)

Handler(from, to) == /\ code = from /\ code' = to
                     /\ UNCHANGED <<moduleVars, kernel, threadVars>>

(* A tick; the timers of the last one have been run (bound), and the module is there. *)
JiffiesTick == /\ MayRun /\ driver = "timer" /\ phase # "removed"
               /\ code # "handler" /\ ~(code = "armed" /\ due = jiffies)
               /\ jiffies' = (jiffies + 1) % WordSize
               /\ since' = IF code = "armed" /\ since <= HZ THEN since + 1 ELSE since
               /\ UNCHANGED <<moduleVars, kernel, code, threadVars, due>>

TimerFires == /\ MayRun /\ driver = "timer" /\ due = jiffies
              /\ Handler("armed", "handler")
              /\ since' = HZ + 2 /\ UNCHANGED <<jiffies, due>>

(* Variant: mod_timer() is left out. *)
TimerNotRearmed == driver = "timer" /\ Handler("handler", "none") /\ UNCHANGED timerVars

(* TIMER_INTERVAL_S * HZ is a time, not an interval. *)
TimerRearms == /\ driver = "timer" /\ Handler("handler", "armed")
               /\ due' = Slot(HZ)
               /\ UNCHANGED <<jiffies, since>>

BottomDrivers == {"buttons_tsklet", "buttons_workqueue"}
FileOpen      == \E p \in Task : file[p] # NoFile

(* A key is pressed; the handler's part is in ButtonsBH. *)
BottomQueued == /\ MayRun /\ driver \in BottomDrivers /\ FileOpen
                /\ Handler("none", "queued") /\ UNCHANGED timerVars
BottomStarts == /\ MayRun /\ driver \in BottomDrivers
                /\ Handler("queued", "handler") /\ UNCHANGED timerVars

(* A press meanwhile has queued it again. *)
BottomEnds == /\ driver \in BottomDrivers
              /\ \/ Handler("handler", "none")
                 \/ FileOpen /\ Handler("handler", "queued")
              /\ UNCHANGED timerVars
-------------------------------------------------------------------------------
(* unload, and the error paths of load *)

AtThread == todo # << >> /\ Head(todo) = "thread"

(* del_timer() takes back a timer that is armed; a handler that runs goes on. *)
Giving == /\ MayRun /\ ~AtThread
          /\ \/ /\ GiveBack
                /\ code' = IF Head(todo) = "timer" /\ code = "armed" THEN "none" ELSE code
             \/ GivenBack /\ UNCHANGED code
          /\ UNCHANGED <<kernel, threadVars, timerVars>>

Unload == MayRun /\ Remove /\ UNCHANGED <<kernel, code, threadVars, timerVars>>

Stopping(thread) == /\ AtThread /\ fault # "oops" /\ thread
                    /\ UNCHANGED <<driver, phase, at, result, held, failed, file, calling,
                                   kernel, kthreadp, storing, timerVars>>

StopNobody == /\ MayRun /\ Stopping(stopping = "no" /\ kthreadp = "null")
              /\ todo' = Tail(todo)
              /\ UNCHANGED <<fault, code, signalled, waking, stopping>>

(* Variant: without condition = 1. *)
StopTestUnsignalled == /\ MayRun /\ Stopping(stopping = "no" /\ kthreadp # "null")
                       /\ stopping' = "found"
                       /\ UNCHANGED <<todo, fault, code, signalled, waking>>

StopTest == /\ MayRun /\ Stopping(stopping = "no" /\ kthreadp # "null")
            /\ signalled' = TRUE /\ stopping' = "found"
            /\ UNCHANGED <<todo, fault, code, waking>>

(* kthread_stop(), given kthreadp as it is by now: a thread that is gone is fatal. *)
StopCall == /\ Stopping(stopping = "found")
            /\ IF kthreadp = "thread" /\ code # "ended"
               THEN stopping' = "waits" /\ code' = Awake /\ UNCHANGED fault
               ELSE fault' = "oops" /\ UNCHANGED <<stopping, code>>
            /\ UNCHANGED <<todo, signalled, waking>>

(* Variant: unload wakes the thread and does not wait for it. *)
StopDoneAtOnce == /\ MayRun /\ Stopping(stopping = "waits")
                  /\ stopping' = "no" /\ todo' = Tail(todo)
                  /\ UNCHANGED <<fault, code, signalled, waking>>

StopDone == /\ MayRun /\ Stopping(stopping = "waits" /\ code = "ended")
            /\ stopping' = "no" /\ todo' = Tail(todo)
            /\ UNCHANGED <<fault, code, signalled, waking>>

Unloading == Giving \/ StopNobody \/ StopTest \/ StopCall \/ StopDone
-------------------------------------------------------------------------------
Next == \/ Loading \/ StorePointer \/ ThreadSteps
        \/ \E p \in Task : Ioctl(p) \/ IoctlWake(p) \/ Caller(p)
        \/ JiffiesTick \/ TimerFires \/ TimerRearms \/ BottomQueued \/ BottomStarts \/ BottomEnds
        \/ Unload \/ Unloading

Spec == Init /\ [][Next]_vars

(* Runnable tasks run, and timers and softirqs do not keep them from it for ever; *)
(* time goes on.                                                                   *)
FairSpec == /\ Spec
            /\ WF_vars(StorePointer) /\ SF_vars(ThreadSteps) /\ SF_vars(Unloading)
            /\ WF_vars(JiffiesTick) /\ WF_vars(TimerFires) /\ WF_vars(TimerRearms)
            /\ WF_vars(BottomEnds)
            /\ \A p \in Task : WF_vars(IoctlWake(p))
-------------------------------------------------------------------------------
(* Nothing is given back that is not there, after any combination of failures but   *)
(* those in Repeats: no error path runs into another's, or into exit's, and a thread *)
(* is stopped only while there is one.  The unfinished driver deletes cdevs it never *)
(* added; and on more than one processor waitqueue.c's thread can end under unload.  *)
GivenBackOnce ==
  \/ Has(Repeats)
  \/ driver = "led_nums_wiscom" /\ phase \in {"exiting", "removed"}
  \/ driver = "waitqueue" /\ kernel = "smp"
  \/ fault = "none"

Alive == code \notin {"none", "ended"}

(* Modules that leave without waiting for their code, or, on more than one processor, *)
(* wait for it in a way that is not enough.                                           *)
Orphaned == {"complete_test"} \union BottomDrivers
            \union (IF kernel = "smp" THEN {"waitqueue", "timer"} ELSE {})

(* A module's own code runs only while the module is there, and finds the queue it   *)
(* waits on initialised: unload does not go on before a thread has left or the timer *)
(* is taken back, whatever the thread was doing.                                     *)
CodeFindsModule ==
  Alive => /\ phase \in {"refused", "removed"} => driver \in Orphaned
           /\ driver \in {"waitqueue", "complete_test"} => This.uses["cdev"] \subseteq held

(* Unload ends: the thread it waits for always comes to its end. *)
UnloadEnds == phase = "exiting" ~> phase = "removed" \/ fault = "oops"

(* A wake-up is not lost, whether it comes before, during or after the thread's test. *)
WakeReachesThread == signalled /\ code \in {"runnable", "asleep"} ~> code = "ended"

(* The timer fires for the first time when a second has passed since load, not a *)
(* tick earlier or later, also if jiffies wraps in that second.                    *)
FirstAfterASecond == [][code = "armed" /\ code' = "handler" /\ since <= HZ + 1 => since = HZ]_vars

(* The second timer goes on for as long as the module is there: although the handler *)
(* arms it for a time that is past for half of all values of jiffies, it fires again.  *)
TimerGoesOn ==
  driver = "timer" /\ phase = "live" /\ code # "handler" ~> code = "handler" \/ phase # "live"
===============================================================================
