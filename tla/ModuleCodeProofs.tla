---------------------------- MODULE ModuleCodeProofs ----------------------------
(***************************************************************************)
(* Proofs about the code of a module that runs by itself, and about load    *)
(* and unload together with it, for every set of tasks, of drivers and of   *)
(* kernels; and about the first firing of timer.c, for any HZ and any width *)
(* of jiffies with which a second is less than half of the counter's range. *)
(***************************************************************************)
EXTENDS ModuleCode, ModuleLoadProofs

(* A module's own code: who has one; that what it waits on stays initialised; and      *)
(* that nobody but waitqueue.c looks for a thread.                                      *)
CodeInv ==
  /\ driver \notin {"waitqueue", "complete_test", "timer"} \union BottomDrivers => code = "none"
  /\ driver \in {"waitqueue", "complete_test"} /\ code # "none" =>
       This.uses["cdev"] \subseteq held
  /\ driver # "waitqueue" => kthreadp = "null" /\ ~storing /\ stopping = "no"

(* waitqueue.c on one processor: kthreadp is the thread exactly while there is one to   *)
(* stop, between the two ends of a stretch; and the exit function has not got past a     *)
(* thread that is alive.                                                                *)
WaitInv ==
  driver = "waitqueue" =>
    /\ kthreadp \in {"null", "thread", "error"}
    /\ code \in {"none", "runnable", "asleep", "woken", "returning", "ended"}
    /\ code # "none" \/ kthreadp # "null" \/ storing => at = 5
    /\ kthreadp = "thread" \/ storing => code # "none"
    /\ kthreadp = "error" => code = "none" /\ "thread" \in failed
    /\ kernel # "smp" =>
         /\ storing => code = "runnable" /\ kthreadp = "null"
         /\ kthreadp = "thread" => code \in {"runnable", "asleep", "woken"}
         /\ kthreadp = "null" /\ ~storing => code \in {"none", "returning", "ended"}
         /\ stopping = "found" => kthreadp # "null" /\ code # "woken"
         /\ Alive => phase \in {"loading", "live"} \/ AtThread

(* timer.c on one processor: once the exit function has taken the timer back it is not *)
(* armed, nor does its handler run.                                                    *)
TimerTaken ==
  driver = "timer" =>
    /\ code \in {"none", "armed", "handler"}
    /\ phase \in {"loading", "live", "exiting", "removed"}
    /\ kernel # "smp" =>
         /\ phase = "exiting" => todo = <<"timer">> \/ (todo = << >> /\ code = "none")
         /\ phase = "removed" => code = "none"

CodeInvs == LoadInvs /\ CodeInv /\ WaitInv /\ TimerTaken /\ GivenBackOnce
-------------------------------------------------------------------------------
(* What the tables say of the drivers with code of their own. *)
LEMMA ThisWaitQueue ==
  ASSUME driver = "waitqueue"
  PROVE  /\ Len(This.load) = 4
         /\ \A i \in 1 .. 4 : /\ Thing(This, i) = "thread" <=> i = 4
                              /\ Thing(This, i) # "timer"
         /\ This.load[4].onFailure = "unnoticed"
         /\ This.uses["cdev"] = {"queues"} /\ "queues" \in Certain(This, 4)
         /\ This.unload # << >> /\ Head(This.unload) = "thread"
<1>1. This = WaitQueue
  BY DEF This, DriverTable
<1>2. This.uses["cdev"] = {"queues"} /\ This.unload # << >> /\ Head(This.unload) = "thread"
  BY <1>1, WaitQueueCalls DEF Uses
<1>3. "queues" \in Certain(This, 4)
  BY <1>1, WaitQueueCalls DEF Certain, Row, Thing
<1> QED
  BY <1>1, <1>2, <1>3, WaitQueueCalls DEF Row, Thing

LEMMA ThisCompleteTest ==
  ASSUME driver = "complete_test"
  PROVE  /\ Len(This.load) = 4
         /\ \A i \in 1 .. 4 : /\ Thing(This, i) = "thread" <=> i = 4
                              /\ Thing(This, i) # "timer"
         /\ This.uses["cdev"] = {"completion"} /\ "completion" \in Certain(This, 4)
<1>1. This = CompleteTest
  BY DEF This, DriverTable
<1>2. This.uses["cdev"] = {"completion"}
  BY <1>1, CompleteTestCalls DEF Uses
<1>3. "completion" \in Certain(This, 4)
  BY <1>1, CompleteTestCalls DEF Certain, Row, Thing
<1> QED
  BY <1>1, <1>2, <1>3, CompleteTestCalls DEF Row, Thing

LEMMA ThisSecondTimer ==
  ASSUME driver = "timer"
  PROVE  /\ Len(This.load) = 1 /\ This.unload = <<"timer">>
         /\ Thing(This, 1) = "timer" /\ This.load[1].onFailure = "cannot"
<1>1. This = SecondTimer
  BY DEF This, DriverTable
<1> QED
  BY <1>1, SecondTimerCalls DEF Row, Thing

(* No other driver starts anything. *)
LEMMA Starters ==
  ASSUME LoadInv, Running
  PROVE  /\ Step.thing = "thread" => driver \in {"waitqueue", "complete_test"} /\ at = 4
         /\ driver \in {"waitqueue", "complete_test"} => /\ at = 4 => Step.thing = "thread"
                                                        /\ at \in 1 .. 4
         /\ Step.thing = "timer" <=> driver = "timer"
         /\ driver = "timer" => at = 1 /\ Step.onFailure = "cannot"
<1>1. /\ at \in 1 .. Len(This.load) /\ Len(This.load) \in Nat /\ StartsSound(driver, This)
      /\ Step = This.load[at] /\ Step.thing = Thing(This, at)
  BY ThisSound DEF LoadInv, Running, Sound, Step, Thing
<1>2. /\ Step.thing = "thread" => driver \in {"waitqueue", "complete_test"}
      /\ Step.thing = "timer" => driver = "timer"
  BY <1>1 DEF StartsSound
<1>3. CASE driver = "waitqueue"
  <2>1. at \in 1 .. 4
    BY <1>1, <1>3, ThisWaitQueue
  <2>2. (Thing(This, at) = "thread" <=> at = 4) /\ Thing(This, at) # "timer"
    BY <1>3, <2>1, ThisWaitQueue
  <2> QED
    BY <1>1, <1>3, <2>1, <2>2
<1>4. CASE driver = "complete_test"
  <2>1. at \in 1 .. 4
    BY <1>1, <1>4, ThisCompleteTest
  <2>2. (Thing(This, at) = "thread" <=> at = 4) /\ Thing(This, at) # "timer"
    BY <1>4, <2>1, ThisCompleteTest
  <2> QED
    BY <1>1, <1>4, <2>1, <2>2
<1>5. CASE driver = "timer"
  <2>1. at = 1 /\ Step = This.load[1] /\ Step.thing = "timer"
    BY <1>1, <1>5, ThisSecondTimer
  <2> QED
    BY <1>2, <1>5, <2>1, ThisSecondTimer
<1>6. CASE driver \notin {"waitqueue", "complete_test", "timer"}
  BY <1>2, <1>6
<1> QED
  BY <1>3, <1>4, <1>5, <1>6

(* Nothing that a thread waits on is ever given back. *)
LEMMA StaysInitialised ==
  ASSUME LoadInv, GiveBack, driver \in {"waitqueue", "complete_test"},
         This.uses["cdev"] \subseteq held
  PROVE  This'.uses["cdev"] \subseteq held'
<1>1. Head(todo) \in Releases /\ held' = held \ Frees(Head(todo)) /\ This' = This
  BY HeadTailProperties DEF LoadInv, GiveBack, IsList, This
<1>2. "queues" \notin Frees(Head(todo)) /\ "completion" \notin Frees(Head(todo))
  BY <1>1 DEF Releases, Frees
<1> QED
  BY <1>1, <1>2, ThisWaitQueue, ThisCompleteTest
-------------------------------------------------------------------------------
LEMMA Initially == Init => CodeInvs
<1> SUFFICES ASSUME Init
             PROVE  CodeInvs
  OBVIOUS
<1>1. LoadInvs
  BY ModuleInitially DEF Init
<1> QED
  BY <1>1 DEF CodeInvs, Init, ModuleInit, CodeInv, WaitInv, TimerTaken, GivenBackOnce, Alive

(* The steps of the module, whichever of them code of its own takes part in. *)
LEMMA ModuleStepsKeep == LoadInvs /\ [Next]_vars => LoadInvs'
<1> SUFFICES ASSUME LoadInvs, [Next]_vars
             PROVE  LoadInvs'
  OBVIOUS
<1>1. CASE Loading
  BY <1>1, LoadStepKeeps, LoadStepFailsKeeps, LoadDoneKeeps DEF Loading
<1>2. ASSUME NEW p \in Task, Caller(p)
      PROVE  LoadInvs'
  BY <1>2, UserKeeps DEF Caller
<1>3. CASE Unload
  BY <1>3, RemoveKeeps DEF Unload
<1>4. CASE Giving
  <2>1. GiveBack => Head(todo) # "thread"
    BY <1>4 DEF Giving, GiveBack, AtThread
  <2> QED
    BY <1>4, <2>1, GiveBackKeeps, GivenBackKeeps DEF Giving
<1>5. CASE StopNobody \/ StopDone
  <2>1. phase \in {"undoing", "exiting"}
    BY <1>5 DEF StopNobody, StopDone, Stopping, AtThread, LoadInvs, LoadInv
  <2>2. /\ todo # << >> /\ Head(todo) = "thread" /\ todo' = Tail(todo)
        /\ UNCHANGED <<driver, phase, at, result, held, failed, file, calling>>
    BY <1>5 DEF StopNobody, StopDone, Stopping, AtThread
  <2> QED
    BY <2>1, <2>2, ThreadLeftKeeps
<1>6. CASE UNCHANGED <<driver, phase, at, todo, result, held, failed, file, calling>>
  BY <1>6, OthersKeep
<1>7. CASE StopTest \/ StopCall
  BY <1>6, <1>7 DEF StopTest, StopCall, Stopping
<1>8. CASE UNCHANGED moduleVars
  BY <1>6, <1>8 DEF moduleVars, load
<1>9. CASE UNCHANGED vars
  BY <1>8, <1>9 DEF vars
<1>10. CASE StorePointer \/ ThreadSteps
  BY <1>8, <1>10 DEF StorePointer, ThreadSteps, ThreadTest, ThreadClears, ThreadReturns
<1>11. ASSUME NEW p \in Task, Ioctl(p) \/ IoctlWake(p)
       PROVE  LoadInvs'
  BY <1>8, <1>11 DEF Ioctl, IoctlWake
<1>12. CASE JiffiesTick \/ TimerFires \/ TimerRearms \/ BottomQueued \/ BottomStarts \/ BottomEnds
  BY <1>8, <1>12 DEF JiffiesTick, TimerFires, TimerRearms, BottomQueued, BottomStarts, BottomEnds,
                     Handler
<1> QED
  BY <1>1, <1>2, <1>3, <1>4, <1>5, <1>7, <1>9, <1>10, <1>11, <1>12 DEF Next, Unloading
-------------------------------------------------------------------------------
(* A fault stays excused: what failed has failed, and an unload is not taken back. *)
LEMMA FaultKept ==
  ASSUME GivenBackOnce, UNCHANGED <<driver, kernel>>, failed \subseteq failed',
         phase \in {"exiting", "removed"} => phase' \in {"exiting", "removed"},
         \/ Excused \/ (driver = "waitqueue" /\ kernel = "smp")
         \/ fault # "none" \/ fault' = "none"
  PROVE  GivenBackOnce'
<1>1. Has(Repeats) => Has(Repeats)'
  BY DEF Has
<1> QED
  BY <1>1 DEF GivenBackOnce, Excused

(* What the init function starts, it starts with its last call. *)
LEMMA LoadStepStarts ==
  ASSUME CodeInvs, LoadStep,
         code' = (CASE Step.thing = "thread" -> "runnable"
                    [] Step.thing = "timer"  -> "armed"
                    [] OTHER                 -> code),
         storing' = (driver = "waitqueue" /\ Step.thing = "thread"),
         UNCHANGED <<kthreadp, kernel, stopping>>
  PROVE  CodeInv' /\ WaitInv' /\ TimerTaken'
<1>1. /\ Running /\ phase = "loading" /\ at \in Nat /\ at' = at + 1 /\ LoadInv /\ Got
      /\ held \subseteq held'
      /\ UNCHANGED <<driver, phase, todo, failed>> /\ This' = This
  BY DEF CodeInvs, LoadInvs, LoadInv, LoadStep, Running, This, LiveAnyway
<1>2. CodeInv'
  <2>1. CASE driver \in {"waitqueue", "complete_test"}
    <3>1. at = 4 => This.uses["cdev"] \subseteq held
      BY <1>1, <2>1, ThisWaitQueue, ThisCompleteTest DEF Got
    <3>2. at # 4 => UNCHANGED code
      BY <1>1, <2>1, Starters
    <3> QED
      BY <1>1, <2>1, <3>1, <3>2 DEF CodeInv, CodeInvs, BottomDrivers
  <2>2. CASE driver \notin {"waitqueue", "complete_test"}
    BY <1>1, <2>2, Starters DEF CodeInv, CodeInvs, BottomDrivers
  <2> QED
    BY <2>1, <2>2
<1>3. WaitInv'
  <2> SUFFICES ASSUME driver = "waitqueue"
               PROVE  WaitInv'
    BY <1>1 DEF WaitInv
  <2>1. at \in 1 .. 4 /\ code = "none" /\ kthreadp = "null" /\ kthreadp' = "null"
    BY <1>1, Starters DEF WaitInv, CodeInvs
  <2>2. CASE Step.thing = "thread"
    <3>0. at' = 5
      BY <1>1, <2>2, Starters
    <3>1. at' = 5 /\ code' = "runnable" /\ storing'
      BY <2>2, <3>0
    <3>2. kernel' # "smp" => stopping' # "found"
      BY <2>1 DEF CodeInvs, WaitInv
    <3> QED
      BY <1>1, <2>1, <3>1, <3>2 DEF WaitInv
  <2>3. CASE Step.thing # "thread"
    <3>1. UNCHANGED code /\ storing' = FALSE
      BY <1>1, <2>3, Starters
    <3> QED
      BY <1>1, <2>1, <3>1 DEF WaitInv, CodeInvs, Alive
  <2> QED
    BY <2>2, <2>3
<1>4. TimerTaken'
  <2>1. driver = "timer" => code' = "armed"
    BY <1>1, Starters
  <2> QED
    BY <1>1, <2>1 DEF TimerTaken
<1> QED
  BY <1>2, <1>3, <1>4

LEMMA LoadStepFailsStarts ==
  ASSUME CodeInvs, LoadStepFails,
         kthreadp' = (IF driver = "waitqueue" /\ Step.thing = "thread" THEN "error" ELSE kthreadp),
         UNCHANGED <<code, storing, kernel, stopping>>
  PROVE  CodeInv' /\ WaitInv' /\ TimerTaken'
<1>1. /\ Running /\ phase = "loading" /\ at \in Nat /\ LoadInv
      /\ failed' = failed \union {Step.thing}
      /\ UNCHANGED <<driver, held>> /\ This' = This
  BY DEF CodeInvs, LoadInvs, LoadInv, LoadStepFails, Running, This
<1>2. CodeInv'
  BY <1>1 DEF CodeInv, CodeInvs
<1>3. WaitInv'
  <2> SUFFICES ASSUME driver = "waitqueue"
               PROVE  WaitInv'
    BY <1>1 DEF WaitInv
  <2>1. at \in 1 .. 4 /\ code = "none" /\ kthreadp = "null" /\ ~storing
    BY <1>1, Starters DEF WaitInv, CodeInvs
  <2>2. kernel # "smp" => stopping # "found"
    BY <2>1 DEF WaitInv, CodeInvs
  <2>3. CASE Step.thing = "thread"
    <3>1. at = 4 /\ Step.onFailure = "unnoticed"
      BY <1>1, <2>3, Starters, ThisWaitQueue DEF Step
    <3>2. at' = 5
      BY <3>1 DEF LoadStepFails
    <3> QED
      BY <1>1, <2>1, <2>2, <2>3, <3>2 DEF WaitInv, Alive
  <2>4. CASE Step.thing # "thread"
    BY <1>1, <2>1, <2>2, <2>4 DEF WaitInv, Alive
  <2> QED
    BY <2>3, <2>4
<1>4. TimerTaken'
  <2>1. driver # "timer"
    BY <1>1, Starters DEF LoadStepFails
  <2> QED
    BY <1>1, <2>1 DEF TimerTaken
<1> QED
  BY <1>2, <1>3, <1>4

LEMMA LoadingKeepsCode ==
  ASSUME CodeInvs, Loading
  PROVE  CodeInv' /\ WaitInv' /\ TimerTaken' /\ GivenBackOnce'
<1>1. CASE /\ LoadStep
           /\ code' = (CASE Step.thing = "thread" -> "runnable"
                         [] Step.thing = "timer"  -> "armed"
                         [] OTHER                 -> code)
           /\ storing' = (driver = "waitqueue" /\ Step.thing = "thread")
           /\ UNCHANGED kthreadp
  <2>1. CodeInv' /\ WaitInv' /\ TimerTaken'
    BY <1>1, LoadStepStarts DEF Loading
  <2>2. GivenBackOnce'
    BY <1>1, FaultKept DEF Loading, LoadStep, CodeInvs
  <2> QED
    BY <2>1, <2>2
<1>2. CASE /\ LoadStepFails
           /\ kthreadp' = IF driver = "waitqueue" /\ Step.thing = "thread" THEN "error"
                          ELSE kthreadp
           /\ UNCHANGED <<code, storing, due>>
  <2>1. CodeInv' /\ WaitInv' /\ TimerTaken'
    BY <1>2, LoadStepFailsStarts DEF Loading
  <2>2. GivenBackOnce'
    BY <1>2, FaultKept DEF Loading, LoadStepFails, Running, CodeInvs
  <2> QED
    BY <2>1, <2>2
<1>3. CASE LoadDone /\ UNCHANGED <<code, kthreadp, storing, due>>
  <2>1. UNCHANGED This
    BY <1>3 DEF LoadDone, This
  <2>2. CodeInv' /\ WaitInv' /\ TimerTaken'
    BY <1>3, <2>1 DEF Loading, LoadDone, CodeInvs, CodeInv, WaitInv, TimerTaken, Alive
  <2>3. GivenBackOnce'
    BY <1>3, FaultKept DEF Loading, LoadDone, CodeInvs
  <2> QED
    BY <2>2, <2>3
<1> QED
  BY <1>1, <1>2, <1>3 DEF Loading

(* The steps of the thread, the ioctl, the timer and the bottom half. *)
LEMMA OwnCodeKeeps ==
  ASSUME CodeInvs,
         \/ StorePointer \/ ThreadSteps
         \/ \E p \in Task : Ioctl(p) \/ IoctlWake(p)
         \/ JiffiesTick \/ TimerFires \/ TimerRearms
         \/ BottomQueued \/ BottomStarts \/ BottomEnds
  PROVE  CodeInv' /\ WaitInv' /\ TimerTaken' /\ GivenBackOnce'
<1>1. UNCHANGED <<driver, phase, at, todo, held, failed, fault, kernel, stopping>>
  BY DEF StorePointer, ThreadSteps, ThreadTest, ThreadClears, ThreadReturns, Thread, Ioctl,
         IoctlWake, JiffiesTick, TimerFires, TimerRearms, BottomQueued, BottomStarts, BottomEnds,
         Handler, moduleVars, load, threadVars
<1>2. This' = This /\ (AtThread' <=> AtThread)
  BY <1>1 DEF This, AtThread
<1>3. GivenBackOnce'
  BY <1>1, FaultKept DEF CodeInvs
<1>4. CASE StorePointer
  BY <1>1, <1>2, <1>3, <1>4 DEF StorePointer, CodeInvs, CodeInv, WaitInv, TimerTaken, Alive
<1>5. CASE ThreadSteps
  <2>1. /\ code \in {"runnable", "woken", "returning"}
        /\ code' \in {"asleep", "woken", "returning", "ended"} /\ UNCHANGED storing
        /\ kthreadp' \in {kthreadp, "null"}
    BY <1>5 DEF ThreadSteps, ThreadTest, ThreadClears, ThreadReturns, Thread
  <2>2. CodeInv' /\ TimerTaken'
    BY <1>1, <1>2, <2>1 DEF CodeInvs, CodeInv, TimerTaken
  <2>3. WaitInv'
    <3> SUFFICES ASSUME driver = "waitqueue"
                 PROVE  WaitInv'
      BY <1>1 DEF WaitInv
    <3>1. /\ kthreadp' \in {"null", "thread", "error"} /\ at' = 5 /\ kthreadp # "error"
          /\ kthreadp' # "error"
      BY <1>1, <2>1 DEF CodeInvs, WaitInv
    <3>2. CASE kernel # "smp" /\ ThreadTest
      <4>1. ~storing /\ stopping # "found" /\ code = "runnable" /\ code' \in {"woken", "asleep"}
            /\ UNCHANGED kthreadp
        BY <3>2 DEF ThreadTest, Thread, MayRun, Stretch
      <4>2. kthreadp = "thread"
        BY <3>1, <3>2, <4>1 DEF CodeInvs, WaitInv
      <4> QED
        BY <1>1, <1>2, <2>1, <3>1, <3>2, <4>1, <4>2 DEF CodeInvs, WaitInv, Alive
    <3>3. CASE kernel # "smp" /\ (ThreadClears \/ ThreadReturns)
      <4>1. /\ (~storing /\ stopping # "found") \/ ThreadReturns
            /\ code' \in {"returning", "ended"} /\ kthreadp' = "null"
        BY <3>1, <3>3 DEF ThreadClears, ThreadReturns, Thread, CodeInvs, WaitInv
      <4> QED
        BY <1>1, <1>2, <2>1, <3>1, <3>3, <4>1
        DEF CodeInvs, WaitInv, Alive, ThreadReturns, ThreadClears, Thread
    <3>4. CASE kernel = "smp"
      BY <1>1, <2>1, <3>1, <3>4 DEF WaitInv
    <3> QED
      BY <1>5, <3>2, <3>3, <3>4 DEF ThreadSteps
  <2> QED
    BY <1>3, <2>2, <2>3
<1>6. CASE \E p \in Task : Ioctl(p) \/ IoctlWake(p)
  <2>1. UNCHANGED <<kthreadp, storing>> /\ code' \in {code, Awake}
    BY <1>6 DEF Ioctl, IoctlWake
  <2> QED
    BY <1>1, <1>2, <1>3, <2>1 DEF Awake, CodeInvs, CodeInv, WaitInv, TimerTaken, Alive
<1>7. CASE JiffiesTick
  BY <1>1, <1>2, <1>3, <1>7
  DEF JiffiesTick, threadVars, CodeInvs, CodeInv, WaitInv, TimerTaken
<1>8. CASE TimerFires \/ TimerRearms
  <2>1. driver = "timer" /\ code \in {"armed", "handler"} /\ code' \in {"armed", "handler"}
        /\ UNCHANGED <<kthreadp, storing>>
    BY <1>8 DEF TimerFires, TimerRearms, Handler, threadVars
  <2> QED
    BY <1>1, <1>2, <1>3, <2>1 DEF CodeInvs, CodeInv, WaitInv, TimerTaken
<1>9. CASE BottomQueued \/ BottomStarts \/ BottomEnds
  <2>1. driver \in BottomDrivers /\ UNCHANGED <<kthreadp, storing>>
    BY <1>9 DEF BottomQueued, BottomStarts, BottomEnds, Handler, threadVars
  <2> QED
    BY <1>1, <1>2, <1>3, <2>1 DEF CodeInvs, CodeInv, WaitInv, TimerTaken, BottomDrivers
<1> QED
  BY <1>4, <1>5, <1>6, <1>7, <1>8, <1>9

LEMMA UserKeepsCode ==
  ASSUME CodeInvs, NEW p \in Task, Caller(p)
  PROVE  CodeInv' /\ WaitInv' /\ TimerTaken' /\ GivenBackOnce'
<1>1. UNCHANGED <<driver, phase, at, todo, held, failed, fault, kernel, code, threadVars>>
  BY DEF Caller, Open, Call, Return, Close, load
<1>2. This' = This /\ (AtThread' <=> AtThread)
  BY <1>1 DEF This, AtThread
<1>3. GivenBackOnce'
  BY <1>1, FaultKept DEF CodeInvs
<1> QED
  BY <1>1, <1>2, <1>3 DEF CodeInvs, CodeInv, WaitInv, TimerTaken, Alive, threadVars

LEMMA UnloadKeepsCode ==
  ASSUME CodeInvs, Unload
  PROVE  CodeInv' /\ WaitInv' /\ TimerTaken' /\ GivenBackOnce'
<1>1. /\ phase = "live" /\ phase' = "exiting" /\ todo' = This.unload /\ This' = This
      /\ UNCHANGED <<driver, at, held, failed, fault, kernel, code, kthreadp, storing, stopping>>
  BY DEF Unload, Remove, This, threadVars
<1>2. CodeInv' /\ GivenBackOnce'
  BY <1>1, FaultKept DEF CodeInvs, CodeInv
<1>3. driver = "waitqueue" => AtThread'
  BY <1>1, ThisWaitQueue DEF AtThread
<1>4. driver = "timer" => todo' = <<"timer">>
  BY <1>1, ThisSecondTimer
<1> QED
  BY <1>1, <1>2, <1>3, <1>4 DEF CodeInvs, WaitInv, TimerTaken, Alive

(* Giving back goes past no thread that is alive, and leaves no timer armed. *)
LEMMA GivingKeepsCode ==
  ASSUME CodeInvs, Giving
  PROVE  CodeInv' /\ WaitInv' /\ TimerTaken' /\ GivenBackOnce'
<1>1. /\ phase \in {"undoing", "exiting"} /\ ~AtThread /\ MayRun /\ LoadInvs /\ LoadInv
      /\ UNCHANGED <<driver, at, failed, kernel, kthreadp, storing, stopping>> /\ This' = This
      /\ code' \in {code, "none"}
  BY DEF CodeInvs, LoadInvs, Giving, GiveBack, GivenBack, This, threadVars
<1>2. /\ GiveBack => UNCHANGED phase /\ held' = held \ Frees(Head(todo)) /\ todo' = Tail(todo)
                     /\ todo # << >>
      /\ GivenBack => /\ phase' = IF phase = "exiting" THEN "removed"
                                  ELSE IF result = 0 THEN "live" ELSE "refused"
                      /\ todo = << >> /\ UNCHANGED <<todo, held, fault>>
  BY DEF GiveBack, GivenBack
<1>3. phase = "undoing" => at <= Len(This.load) /\ Step.onFailure \in {"error", "success"}
  BY <1>1 DEF LoadInv
<1>4. CodeInv'
  <2>1. CASE driver \in {"waitqueue", "complete_test"} /\ code # "none"
    <3>1. This.uses["cdev"] \subseteq held
      BY <2>1 DEF CodeInvs, CodeInv
    <3>2. This'.uses["cdev"] \subseteq held'
      <4>1. CASE GiveBack
        BY <1>1, <2>1, <3>1, <4>1, StaysInitialised
      <4>2. CASE GivenBack
        BY <1>1, <1>2, <3>1, <4>2
      <4> QED
        BY <4>1, <4>2 DEF Giving
    <3> QED
      BY <1>1, <2>1, <3>2 DEF CodeInvs, CodeInv, BottomDrivers
  <2>2. CASE ~(driver \in {"waitqueue", "complete_test"} /\ code # "none")
    BY <1>1, <2>2 DEF CodeInvs, CodeInv
  <2> QED
    BY <2>1, <2>2
<1>5. WaitInv'
  <2> SUFFICES ASSUME driver = "waitqueue"
               PROVE  WaitInv'
    BY <1>1 DEF WaitInv
  <2>1. UNCHANGED code
    <3>1. code # "armed"
      BY DEF CodeInvs, WaitInv
    <3> QED
      BY <3>1 DEF Giving
  <2>2. kernel # "smp" => ~Alive
    BY <1>1, <1>3, ThisWaitQueue DEF CodeInvs, WaitInv, Alive, LoadInv
  <2> QED
    BY <1>1, <2>1, <2>2 DEF CodeInvs, WaitInv, Alive
<1>6. TimerTaken'
  <2> SUFFICES ASSUME driver = "timer"
               PROVE  TimerTaken'
    BY <1>1 DEF TimerTaken
  <2>1. phase = "exiting" /\ code \in {"none", "armed", "handler"}
    <3>1. phase # "undoing"
      BY <1>1, <1>3, ThisSecondTimer DEF Step, LoadInv
    <3> QED
      BY <1>1, <3>1 DEF CodeInvs, TimerTaken
  <2>2. CASE kernel = "smp"
    BY <1>1, <1>2, <2>1, <2>2 DEF Giving, TimerTaken
  <2>3. CASE kernel # "smp"
    <3>1. code # "handler" /\ (todo = <<"timer">> \/ (todo = << >> /\ code = "none"))
      BY <1>1, <2>1, <2>3 DEF MayRun, Stretch, CodeInvs, TimerTaken
    <3>2. CASE GiveBack /\ code' = IF Head(todo) = "timer" /\ code = "armed" THEN "none" ELSE code
      <4>1. todo = <<"timer">> /\ phase' = "exiting" /\ todo' = Tail(todo)
        BY <1>2, <2>1, <3>1, <3>2
      <4>2. Head(todo) = "timer" /\ todo' = << >>
        BY <4>1
      <4>3. code' = "none"
        BY <2>1, <3>1, <3>2, <4>2
      <4> QED
        BY <4>1, <4>2, <4>3 DEF TimerTaken
    <3>3. CASE GivenBack /\ UNCHANGED code
      BY <1>2, <2>1, <3>1, <3>3 DEF TimerTaken
    <3> QED
      BY <3>2, <3>3 DEF Giving
  <2> QED
    BY <2>2, <2>3
<1>7. GivenBackOnce'
  <2>1. phase \in {"exiting", "removed"} => phase' \in {"exiting", "removed"}
    BY <1>1, <1>2 DEF Giving
  <2>2. Excused \/ fault # "none" \/ fault' = "none"
    <3>1. CASE GiveBack
      BY <1>1, <3>1, GiveBackKeeps DEF GiveBack, AtThread
    <3>2. CASE GivenBack
      BY <1>2, <3>2
    <3> QED
      BY <3>1, <3>2 DEF Giving
  <2> QED
    BY <1>1, <2>1, <2>2, FaultKept DEF CodeInvs
<1> QED
  BY <1>4, <1>5, <1>6, <1>7

(* The exit function finds the thread, and stops it, only while there is one. *)
LEMMA StoppingKeepsCode ==
  ASSUME CodeInvs, StopNobody \/ StopTest \/ StopCall \/ StopDone
  PROVE  CodeInv' /\ WaitInv' /\ TimerTaken' /\ GivenBackOnce'
<1>1. /\ AtThread /\ UNCHANGED <<driver, phase, at, held, failed, kernel, kthreadp, storing>>
      /\ This' = This /\ code' \in {code, Awake}
  BY DEF StopNobody, StopTest, StopCall, StopDone, Stopping, This
<1>2. CodeInv'
  BY <1>1 DEF StopNobody, StopTest, StopCall, StopDone, Stopping, CodeInvs, CodeInv, Awake
<1>3. GivenBackOnce'
  <2>1. Excused \/ (driver = "waitqueue" /\ kernel = "smp") \/ fault' = fault
    <3> SUFFICES ASSUME StopCall, ~(kthreadp = "thread" /\ code # "ended")
                 PROVE  Has(Repeats) \/ (driver = "waitqueue" /\ kernel = "smp")
      BY DEF StopNobody, StopTest, StopCall, StopDone, Excused
    <3>1. driver = "waitqueue" /\ stopping = "found"
      BY DEF StopCall, Stopping, CodeInvs, CodeInv
    <3>2. kernel # "smp" => kthreadp = "error"
      BY <3>1 DEF CodeInvs, WaitInv
    <3>3. kernel # "smp" => "thread" \in failed
      BY <3>1, <3>2 DEF CodeInvs, WaitInv
    <3> QED
      BY <3>1, <3>3 DEF Has, Repeats
  <2> QED
    BY <1>1, <2>1, FaultKept DEF CodeInvs
<1>4. WaitInv'
  <2> SUFFICES ASSUME driver = "waitqueue"
               PROVE  WaitInv'
    BY <1>1 DEF WaitInv
  <2>1. CASE StopNobody
    <3>1. kernel # "smp" => ~Alive
      BY <2>1 DEF StopNobody, Stopping, MayRun, Stretch, CodeInvs, WaitInv, Alive
    <3> QED
      BY <1>1, <2>1, <3>1 DEF StopNobody, CodeInvs, WaitInv, Alive
  <2>2. CASE StopDone
    BY <1>1, <2>2 DEF StopDone, Stopping, CodeInvs, WaitInv, Alive
  <2>3. CASE StopTest \/ StopCall
    <3>1. UNCHANGED todo /\ AtThread'
      BY <1>1, <2>3 DEF StopTest, StopCall, AtThread
    <3>2. StopTest => UNCHANGED code /\ kthreadp # "null" /\ (kernel # "smp" => code # "woken")
      BY DEF StopTest, Stopping, MayRun, Stretch
    <3>3. StopCall => stopping = "found"
      BY DEF StopCall, Stopping
    <3> QED
      BY <1>1, <2>3, <3>1, <3>2, <3>3 DEF Awake, CodeInvs, WaitInv, Alive
  <2> QED
    BY <2>1, <2>2, <2>3
<1>5. TimerTaken'
  <2>1. driver = "timer" /\ kernel # "smp" => ~AtThread \/ phase # "exiting"
    BY DEF CodeInvs, TimerTaken, AtThread
  <2>2. driver = "timer" => phase = "exiting"
    BY <1>1 DEF CodeInvs, TimerTaken, LoadInvs, LoadInv, AtThread
  <2>3. driver = "timer" => code' = code
    BY <1>1 DEF Awake, CodeInvs, TimerTaken
  <2> QED
    BY <1>1, <2>1, <2>2, <2>3 DEF CodeInvs, TimerTaken
<1> QED
  BY <1>2, <1>3, <1>4, <1>5

LEMMA Inductive == CodeInvs /\ [Next]_vars => CodeInvs'
<1> SUFFICES ASSUME CodeInvs, [Next]_vars
             PROVE  CodeInvs'
  OBVIOUS
<1>1. LoadInvs'
  BY ModuleStepsKeep DEF CodeInvs
<1>2. CASE UNCHANGED vars
  <2>1. UNCHANGED <<driver, phase, at, todo, held, failed, fault, kernel, code, threadVars, This>>
        /\ (AtThread' <=> AtThread)
    BY <1>2 DEF vars, moduleVars, load, This, AtThread
  <2>2. GivenBackOnce'
    BY <2>1, FaultKept DEF CodeInvs
  <2> QED
    BY <1>1, <2>1, <2>2 DEF CodeInvs, CodeInv, WaitInv, TimerTaken, Alive, threadVars
<1>3. CASE Loading
  BY <1>1, <1>3, LoadingKeepsCode DEF CodeInvs
<1>4. CASE \/ StorePointer \/ ThreadSteps
           \/ \E p \in Task : Ioctl(p) \/ IoctlWake(p)
           \/ JiffiesTick \/ TimerFires \/ TimerRearms
           \/ BottomQueued \/ BottomStarts \/ BottomEnds
  BY <1>1, <1>4, OwnCodeKeeps DEF CodeInvs
<1>5. ASSUME NEW p \in Task, Caller(p)
      PROVE  CodeInvs'
  BY <1>1, <1>5, UserKeepsCode DEF CodeInvs
<1>6. CASE Unload
  BY <1>1, <1>6, UnloadKeepsCode DEF CodeInvs
<1>7. CASE Giving
  BY <1>1, <1>7, GivingKeepsCode DEF CodeInvs
<1>8. CASE StopNobody \/ StopTest \/ StopCall \/ StopDone
  BY <1>1, <1>8, StoppingKeepsCode DEF CodeInvs
<1> QED
  BY <1>2, <1>3, <1>4, <1>5, <1>6, <1>7, <1>8 DEF Next, Unloading

(* Everything that is proved of load and unload rests on this conjunction. *)
THEOREM Invariance == Spec => []CodeInvs
  BY Initially, Inductive, PTL DEF Spec

(* An init function that returns an error has given back all it took, whichever calls *)
(* failed; a module that is unloaded has given back all it had.  (The leaks that some  *)
(* drivers have are those in Leaks, and kobject_test's.)                               *)
THEOREM NothingIsLeaked == Spec => []EverythingGivenBack
<1>1. CodeInvs => EverythingGivenBack
  BY InvsGiveBack DEF CodeInvs
<1> QED
  BY <1>1, Invariance, PTL

(* A call on the device finds the memory, lock and queue it uses, in every state of   *)
(* every driver but one that is still being loaded and prepares some of it late.      *)
THEOREM CallsAreSafe == Spec => []CallsFindMemory
<1>1. CodeInvs => CallsFindMemory
  BY InvsFindMemory DEF CodeInvs
<1> QED
  BY <1>1, Invariance, PTL

(* No release of what is not there, and no stop of a thread that is gone, whichever    *)
(* calls failed, but those in Repeats; waitqueue.c's thread is safe on one processor.  *)
THEOREM NothingGivenBackTwice == Spec => []GivenBackOnce
<1>1. CodeInvs => GivenBackOnce
  BY DEF CodeInvs
<1> QED
  BY <1>1, Invariance, PTL

(* A thread or timer of a module runs only while the module is there, and its queue or *)
(* completion is initialised.                                                           *)
THEOREM CodeIsThere == Spec => []CodeFindsModule
<1>1. CodeInvs => CodeFindsModule
  <2> SUFFICES ASSUME CodeInvs, Alive
               PROVE  /\ phase \in {"refused", "removed"} => driver \in Orphaned
                      /\ driver \in {"waitqueue", "complete_test"} =>
                           This.uses["cdev"] \subseteq held
    BY DEF CodeFindsModule
  <2>1. driver \in {"waitqueue", "complete_test"} => This.uses["cdev"] \subseteq held
    BY DEF CodeInvs, CodeInv, Alive
  <2>2. driver \in {"waitqueue", "complete_test", "timer"} \union BottomDrivers
    BY DEF CodeInvs, CodeInv, Alive
  <2>3. CASE driver = "waitqueue" /\ kernel # "smp"
    BY <2>1, <2>3 DEF CodeInvs, WaitInv, LoadInvs, LoadInv, AtThread
  <2>4. CASE driver = "timer" /\ kernel # "smp"
    BY <2>4 DEF CodeInvs, TimerTaken, Alive
  <2> QED
    BY <2>1, <2>2, <2>3, <2>4 DEF Orphaned
<1> QED
  BY <1>1, Invariance, PTL
-------------------------------------------------------------------------------
(* % of what is less than a turn away from the range of jiffies. *)
LEMMA ModUnique ==
  ASSUME NEW n \in Int, -WordSize <= n, n < 2 * WordSize
  PROVE  n % WordSize = IF n < 0 THEN n + WordSize
                        ELSE IF n < WordSize THEN n ELSE n - WordSize
  BY JiffiesAssumption

LEMMA SecondFits == HZ \in Nat /\ HZ > 0 /\ WordSize \in Nat /\ 2 * HZ < WordSize
  BY JiffiesAssumption

(* A timer armed for a second from now fires in that tick, wherever jiffies wraps. *)
LEMMA SlotOfASecond ==
  ASSUME jiffies \in Tick
  PROVE  Slot(jiffies + HZ) = (jiffies + HZ) % WordSize
<1> DEFINE next == (jiffies + 1) % WordSize
<1>1. next = IF jiffies + 1 < WordSize THEN jiffies + 1 ELSE 0
  BY ModUnique, SecondFits DEF Tick
<1>2. (jiffies + HZ - next) % WordSize = HZ - 1
  <2>1. /\ jiffies + HZ - next \in Int
        /\ -WordSize <= jiffies + HZ - next /\ jiffies + HZ - next < 2 * WordSize
    BY <1>1, SecondFits DEF Tick
  <2> QED
    BY <1>1, <2>1, ModUnique, SecondFits DEF Tick
<1>3. HZ - 1 < WordSize \div 2
  BY JiffiesAssumption
<1>4. next \in Int /\ jiffies + HZ \in Int
  BY <1>1, SecondFits DEF Tick
<1> HIDE DEF next
<1>5. Slot(jiffies + HZ) = IF ((jiffies + HZ) - next) % WordSize < WordSize \div 2
                           THEN (jiffies + HZ) % WordSize ELSE next
  BY DEF Slot, next
<1>6. ((jiffies + HZ) - next) % WordSize < WordSize \div 2
  BY <1>2, <1>3, <1>4, SecondFits DEF Tick
<1> QED
  BY <1>5, <1>6

(* Until the timer has fired, due is a second after load: the tick that is HZ - since *)
(* ahead.  The init function arms it, once; what the handler arms is not the first.   *)
TimerInv ==
  driver = "timer" =>
    /\ jiffies \in Tick /\ since \in 0 .. HZ + 2 /\ at \in Nat \ {0}
    /\ phase = "loading" /\ at = 1 => since = 0 /\ code = "none"
    /\ code = "armed" /\ since # HZ + 2 =>
         since <= HZ /\ due = (jiffies + (HZ - since)) % WordSize
    /\ code = "handler" => since = HZ + 2
-------------------------------------------------------------------------------
LEMMA TimerInitially == Init => TimerInv
  BY SecondFits DEF Init, ModuleInit, TimerInv

LEMMA LoadingKeepsTimer == ASSUME TimerInv, Loading PROVE TimerInv'
<1> SUFFICES ASSUME driver = "timer"
             PROVE  TimerInv'
  BY DEF TimerInv, Loading, LoadStep, LoadStepFails, LoadDone
<1>1. /\ jiffies \in Tick /\ since \in 0 .. HZ + 2 /\ at \in Nat \ {0}
      /\ UNCHANGED <<jiffies, since>>
  BY DEF TimerInv, Loading
<1>2. Running => at = 1 /\ Step.thing = "timer"
  <2>1. Running => at = 1
    <3>1. Len(This.load) = 1
      BY ThisSecondTimer
    <3>2. Running => at <= 1
      BY <3>1 DEF Running
    <3> QED
      BY <1>1, <3>2
  <2>2. at = 1 => Step.thing = "timer"
    BY ThisSecondTimer DEF Step, Thing
  <2> QED
    BY <2>1, <2>2
<1>5. ~LoadStepFails
  BY <1>1, <1>2, ThisSecondTimer DEF LoadStepFails, Step
<1>3. CASE LoadStep
  <2>1. since = 0 /\ at' = at + 1 /\ Step.thing = "timer" /\ ~LoadStepFails /\ ~LoadDone
    BY <1>1, <1>2, <1>3, <1>5 DEF LoadStep, LoadDone, Running, TimerInv
  <2>2. code' = "armed" /\ due' = Slot(jiffies + HZ)
    BY <2>1 DEF Loading, FirstExpiry
  <2> QED
    BY <1>1, <2>1, <2>2, SlotOfASecond, SecondFits DEF TimerInv
<1>4. CASE LoadDone
  BY <1>1, <1>4 DEF Loading, LoadDone, LoadStep, LoadStepFails, Running, TimerInv
<1> QED
  BY <1>3, <1>4, <1>5 DEF Loading

LEMMA TickKeepsTimer == ASSUME TimerInv, JiffiesTick PROVE TimerInv'
<1>1. /\ jiffies \in Tick /\ since \in 0 .. HZ + 2 /\ at \in Nat \ {0}
      /\ UNCHANGED <<driver, phase, at, code, due>>
      /\ jiffies' = (jiffies + 1) % WordSize
      /\ code # "handler" /\ ~(code = "armed" /\ due = jiffies)
      /\ since' = IF code = "armed" /\ since <= HZ THEN since + 1 ELSE since
      /\ driver = "timer"
  BY DEF JiffiesTick, TimerInv, moduleVars, load
<1>2. jiffies' = IF jiffies + 1 < WordSize THEN jiffies + 1 ELSE 0
  BY <1>1, ModUnique, SecondFits DEF Tick
<1>3. jiffies' \in Tick
  BY <1>1, <1>2, SecondFits DEF Tick
<1>4. CASE code = "armed" /\ since # HZ + 2
  <2>1. since <= HZ /\ due = (jiffies + (HZ - since)) % WordSize
    BY <1>4, <1>1 DEF TimerInv
  <2>2. since # HZ
    <3>1. jiffies % WordSize = jiffies
      BY <1>1, ModUnique, SecondFits DEF Tick
    <3> QED
      BY <1>1, <1>4, <2>1, <3>1, SecondFits DEF Tick
  <2>3. since' = since + 1 /\ since' <= HZ
    BY <1>1, <1>4, <2>1, <2>2, SecondFits
  <2>4. (jiffies' + (HZ - since')) % WordSize = (jiffies + (HZ - since)) % WordSize
    <3>1. CASE jiffies + 1 < WordSize
      BY <1>1, <1>2, <2>3, <3>1, SecondFits DEF Tick
    <3>2. CASE jiffies + 1 = WordSize
      <4>1. jiffies' + (HZ - since') = HZ - since - 1
        BY <1>1, <1>2, <2>3, <3>2, SecondFits DEF Tick
      <4>2. (HZ - since - 1) % WordSize = HZ - since - 1
        BY <1>1, <2>1, <2>2, ModUnique, SecondFits
      <4>3. (jiffies + (HZ - since)) % WordSize = HZ - since - 1
        BY <1>1, <2>1, <2>2, <3>2, ModUnique, SecondFits DEF Tick
      <4> QED
        BY <4>1, <4>2, <4>3
    <3> QED
      BY <1>1, <3>1, <3>2, SecondFits DEF Tick
  <2>5. ~(phase = "loading" /\ at = 1)
    BY <1>1, <1>4 DEF TimerInv
  <2> QED
    BY <1>1, <1>3, <2>1, <2>3, <2>4, <2>5, SecondFits DEF TimerInv
<1>5. CASE ~(code = "armed" /\ since # HZ + 2)
  <2>1. since' = since
    BY <1>1, <1>5, SecondFits
  <2> QED
    BY <1>1, <1>3, <1>5, <2>1 DEF TimerInv
<1> QED
  BY <1>4, <1>5

LEMMA TimerInductive == TimerInv /\ [Next]_vars => TimerInv'
<1> SUFFICES ASSUME TimerInv, [Next]_vars
             PROVE  TimerInv'
  OBVIOUS
<1>1. CASE UNCHANGED vars
  BY <1>1 DEF vars, moduleVars, load, timerVars, TimerInv
<1>2. CASE Loading
  BY <1>2, LoadingKeepsTimer
<1>3. CASE JiffiesTick
  BY <1>3, TickKeepsTimer
<1>4. CASE StorePointer \/ ThreadSteps
  BY <1>4 DEF StorePointer, ThreadSteps, ThreadTest, ThreadClears, ThreadReturns, Thread,
              moduleVars, load, timerVars, TimerInv
<1>5. ASSUME NEW p \in Task, Ioctl(p) \/ IoctlWake(p)
      PROVE  TimerInv'
  BY <1>5 DEF Ioctl, IoctlWake, Awake, moduleVars, load, timerVars, TimerInv
<1>6. ASSUME NEW p \in Task, Caller(p)
      PROVE  TimerInv'
  BY <1>6 DEF Caller, Open, Call, Return, Close, load, timerVars, TimerInv
<1>7. CASE TimerFires \/ TimerRearms
  BY <1>7, SecondFits DEF TimerFires, TimerRearms, Handler, moduleVars, load, TimerInv
<1>8. CASE BottomQueued \/ BottomStarts \/ BottomEnds
  BY <1>8 DEF BottomQueued, BottomStarts, BottomEnds, BottomDrivers, Handler, moduleVars,
              load, timerVars, TimerInv
<1>9. CASE Unload
  BY <1>9 DEF Unload, Remove, timerVars, TimerInv
<1>10. CASE Giving
  BY <1>10 DEF Giving, GiveBack, GivenBack, timerVars, TimerInv
<1>11. CASE StopNobody \/ StopTest \/ StopCall \/ StopDone
  BY <1>11 DEF StopNobody, StopTest, StopCall, StopDone, Stopping, Awake, timerVars, TimerInv
<1> QED
  BY <1>1, <1>2, <1>3, <1>4, <1>5, <1>6, <1>7, <1>8, <1>9, <1>10, <1>11 DEF Next, Unloading

(* Until it has fired, the timer is a second after load, wherever jiffies has got to. *)
THEOREM TimerInvariance == Spec => []TimerInv
  BY TimerInitially, TimerInductive, PTL DEF Spec
-------------------------------------------------------------------------------
(* The timer of timer.c fires for the first time HZ ticks after load, neither earlier *)
(* nor later, for every HZ and every width of jiffies, also if it wraps meanwhile.      *)
THEOREM FirstFiringIsASecondAfterLoad == Spec => FirstAfterASecond
<1> DEFINE A == code = "armed" /\ code' = "handler" /\ since <= HZ + 1 => since = HZ
<1>1. TimerInv /\ [Next]_vars => [A]_vars
  <2> SUFFICES ASSUME TimerInv, Next, code = "armed", code' = "handler", since <= HZ + 1
               PROVE  since = HZ
    OBVIOUS
  <2>1. TimerFires
    BY DEF Next, Loading, StorePointer, ThreadSteps, ThreadTest, ThreadClears, ThreadReturns,
           Thread, Ioctl, IoctlWake, Awake, Caller, JiffiesTick, TimerRearms, BottomQueued,
           BottomStarts, BottomEnds, Handler, Unload, Unloading, Giving, StopNobody, StopTest,
           StopCall, StopDone
  <2>2. /\ jiffies \in Tick /\ since \in 0 .. HZ /\ due = jiffies
        /\ due = (jiffies + (HZ - since)) % WordSize
    BY <2>1, SecondFits DEF TimerFires, TimerInv
  <2>3. jiffies + (HZ - since) \in Int /\ jiffies + (HZ - since) >= 0
        /\ jiffies + (HZ - since) < 2 * WordSize
    BY <2>2, SecondFits DEF Tick
  <2>4. due = IF jiffies + (HZ - since) < WordSize THEN jiffies + (HZ - since)
              ELSE jiffies + (HZ - since) - WordSize
    BY <2>2, <2>3, ModUnique, SecondFits
  <2> QED
    BY <2>2, <2>4, SecondFits DEF Tick
<1> QED
  BY <1>1, TimerInvariance, PTL DEF Spec, FirstAfterASecond
-------------------------------------------------------------------------------
(* What liveness rests on, in any state and on any kernel: that whoever has still to   *)
(* take a step does not wait for what has already been.                                 *)

(* For WakeReachesThread: the thread is asleep with its condition true only while       *)
(* somebody is about to wake it.                                                        *)
NoLostWakeUp == code = "asleep" /\ signalled => waking # {} \/ stopping = "found"

(* For UnloadEnds: the thread that unload waits for has its condition true, is awake,   *)
(* and so does not sleep again.                                                         *)
StoppedThreadEnds ==
  /\ stopping \in {"found", "waits"} => signalled
  /\ stopping = "waits" => code \notin {"none", "asleep"}

(* For TimerGoesOn: from add_timer() until it is unloaded, timer.c's timer is armed for  *)
(* a value that jiffies takes, or its handler runs and will arm it.                      *)
TimerStaysArmed ==
  driver = "timer" =>
    /\ phase = "live" \/ (phase = "loading" /\ at > 1) => code \in {"armed", "handler"}
    /\ code = "armed" => due \in Tick

LEMMA SlotIsATick ==
  ASSUME jiffies \in Tick, NEW expires \in {jiffies + HZ, HZ}
  PROVE  Slot(expires) \in Tick
<1>1. (jiffies + 1) % WordSize \in Tick
  BY ModUnique, SecondFits DEF Tick
<1>2. expires % WordSize \in Tick
  <2>1. expires \in Int /\ 0 <= expires /\ expires < 2 * WordSize
    BY SecondFits DEF Tick
  <2>2. expires % WordSize = IF expires < WordSize THEN expires ELSE expires - WordSize
    BY <2>1, ModUnique, SecondFits
  <2> QED
    BY <2>1, <2>2, SecondFits DEF Tick
<1> QED
  BY <1>1, <1>2 DEF Slot

LEMMA SleepInductive ==
  CodeInvs /\ NoLostWakeUp /\ StoppedThreadEnds /\ [Next]_vars
    => (NoLostWakeUp /\ StoppedThreadEnds)'
<1> SUFFICES ASSUME CodeInvs, NoLostWakeUp, StoppedThreadEnds, [Next]_vars
             PROVE  NoLostWakeUp' /\ StoppedThreadEnds'
  OBVIOUS
<1> USE DEF NoLostWakeUp, StoppedThreadEnds
<1>1. CASE UNCHANGED vars
  BY <1>1 DEF vars, threadVars
<1>2. CASE Loading
  <2>1. UNCHANGED <<signalled, waking, stopping>> /\ code' \in {code, "runnable", "armed"}
    BY <1>2 DEF Loading
  <2> QED
    BY <2>1
<1>3. CASE StorePointer \/ ThreadSteps
  BY <1>3 DEF StorePointer, ThreadSteps, ThreadTest, ThreadClears, ThreadReturns, Thread
<1>4. ASSUME NEW p \in Task, Ioctl(p) \/ IoctlWake(p)
      PROVE  NoLostWakeUp' /\ StoppedThreadEnds'
  BY <1>4 DEF Ioctl, IoctlWake, Awake
<1>5. ASSUME NEW p \in Task, Caller(p)
      PROVE  NoLostWakeUp' /\ StoppedThreadEnds'
  BY <1>5 DEF Caller, threadVars
<1>6. CASE JiffiesTick \/ TimerFires \/ TimerRearms \/ BottomQueued \/ BottomStarts \/ BottomEnds
  <2>1. driver # "waitqueue" /\ UNCHANGED <<signalled, waking, stopping>>
        /\ code' \in {code, "handler", "armed", "queued", "none"}
    BY <1>6 DEF JiffiesTick, TimerFires, TimerRearms, BottomQueued, BottomStarts, BottomEnds,
                BottomDrivers, Handler, threadVars
  <2>2. stopping = "no"
    BY <2>1 DEF CodeInvs, CodeInv
  <2> QED
    BY <2>1, <2>2
<1>7. CASE Unload \/ Giving
  <2>1. UNCHANGED <<signalled, waking, stopping>> /\ code' \in {code, "none"}
    BY <1>7 DEF Unload, Giving, threadVars
  <2>2. stopping = "waits" => code # "armed"
    BY DEF CodeInvs, CodeInv, WaitInv
  <2> QED
    BY <1>7, <2>1, <2>2 DEF Unload, Giving
<1>8. CASE StopNobody \/ StopTest \/ StopDone
  BY <1>8 DEF StopNobody, StopTest, StopDone, Stopping
<1>9. CASE StopCall
  <2>1. driver = "waitqueue" /\ stopping = "found" /\ UNCHANGED signalled
    BY <1>9 DEF StopCall, Stopping, CodeInvs, CodeInv
  <2>2. CASE kthreadp = "thread"
    BY <1>9, <2>1, <2>2 DEF StopCall, Awake, CodeInvs, WaitInv
  <2>3. CASE kthreadp # "thread"
    BY <1>9, <2>1, <2>3 DEF StopCall
  <2> QED
    BY <2>2, <2>3
<1> QED
  BY <1>1, <1>2, <1>3, <1>4, <1>5, <1>6, <1>7, <1>8, <1>9 DEF Next, Unloading

LEMMA ArmedInductive ==
  CodeInvs /\ TimerInv /\ TimerStaysArmed /\ [Next]_vars => TimerStaysArmed'
<1> SUFFICES ASSUME CodeInvs, TimerInv, TimerStaysArmed, [Next]_vars, driver' = "timer"
             PROVE  TimerStaysArmed'
  BY DEF TimerStaysArmed
<1>1. driver = "timer"
  BY DEF Next, vars, moduleVars, Loading, LoadStep, LoadStepFails, LoadDone, StorePointer,
         ThreadSteps, ThreadTest, ThreadClears, ThreadReturns, Ioctl, IoctlWake, Caller, Open,
         Call, Return, Close, JiffiesTick, TimerFires, TimerRearms, BottomQueued, BottomStarts,
         BottomEnds, Handler, Unload, Remove, Unloading, Giving, GiveBack, GivenBack, StopNobody,
         StopTest, StopCall, StopDone, Stopping
<1>2. /\ code \in {"none", "armed", "handler"} /\ ~storing /\ jiffies \in Tick /\ at \in Nat
      /\ LoadInv /\ phase \in {"loading", "live", "exiting", "removed"}
      /\ code = "armed" => due \in Tick
      /\ phase = "live" \/ (phase = "loading" /\ at > 1) => code \in {"armed", "handler"}
  BY <1>1 DEF CodeInvs, CodeInv, TimerTaken, TimerInv, TimerStaysArmed, LoadInvs
<1>3. CASE UNCHANGED <<phase, at, code, due>>
  BY <1>2, <1>3 DEF TimerStaysArmed
<1>4. CASE UNCHANGED vars
  BY <1>3, <1>4 DEF vars, moduleVars, load, timerVars
<1>5. CASE Loading
  <2>1. CASE /\ LoadStep
             /\ code' = (CASE Step.thing = "thread" -> "runnable"
                           [] Step.thing = "timer"  -> "armed"
                           [] OTHER                 -> code)
             /\ due' = IF Step.thing = "timer" THEN Slot(FirstExpiry) ELSE due
    <3>1. Step.thing = "timer"
      BY <1>1, <1>2, <2>1, Starters DEF LoadStep
    <3>2. code' = "armed" /\ due' = Slot(FirstExpiry)
      BY <2>1, <3>1
    <3>3. due' \in Tick
      BY <1>2, <3>2, SlotIsATick DEF FirstExpiry
    <3> QED
      BY <3>2, <3>3 DEF TimerStaysArmed
  <2>2. CASE LoadStepFails
    BY <1>1, <1>2, <2>2, Starters DEF LoadStepFails
  <2>3. CASE LoadDone /\ UNCHANGED <<code, due>>
    <3>1. at > 1
      BY <1>1, <1>2, <2>3, ThisSecondTimer DEF LoadDone
    <3> QED
      BY <1>2, <2>3, <3>1 DEF LoadDone, TimerStaysArmed
  <2> QED
    BY <1>5, <2>1, <2>2, <2>3 DEF Loading
<1>6. CASE StorePointer \/ ThreadSteps
  BY <1>2, <1>6 DEF StorePointer, ThreadSteps, ThreadTest, ThreadClears, ThreadReturns, Thread
<1>7. ASSUME NEW p \in Task, Ioctl(p) \/ IoctlWake(p) \/ Caller(p)
      PROVE  TimerStaysArmed'
  BY <1>1, <1>2, <1>3, <1>7 DEF Ioctl, IoctlWake, Caller, Open, Call, Return, Close, Awake,
     moduleVars, load, timerVars
<1>8. CASE JiffiesTick \/ TimerFires \/ TimerRearms
  <2>1. Slot(HZ) \in Tick
    BY <1>2, SlotIsATick
  <2> QED
    BY <1>2, <1>8, <2>1 DEF JiffiesTick, TimerFires, TimerRearms, Handler, moduleVars, load,
       TimerStaysArmed
<1>9. CASE BottomQueued \/ BottomStarts \/ BottomEnds
  BY <1>1, <1>9 DEF BottomQueued, BottomStarts, BottomEnds, BottomDrivers
<1>10. CASE Unload \/ Giving
  BY <1>2, <1>10 DEF Unload, Remove, Giving, GiveBack, GivenBack, timerVars, TimerStaysArmed
<1>11. CASE StopNobody \/ StopTest \/ StopCall \/ StopDone
  BY <1>2, <1>3, <1>11 DEF StopNobody, StopTest, StopCall, StopDone, Stopping, Awake, timerVars
<1> QED
  BY <1>4, <1>5, <1>6, <1>7, <1>8, <1>9, <1>10, <1>11 DEF Next, Unloading

(* On any kernel, no wake-up of a thread is lost, and a thread that is being stopped ends: *)
(* what WakeReachesThread and UnloadEnds say of runs, here of states.                       *)
THEOREM WakeUpsAreNotLost == Spec => [](NoLostWakeUp /\ StoppedThreadEnds)
<1>1. Init => NoLostWakeUp /\ StoppedThreadEnds
  BY DEF Init, NoLostWakeUp, StoppedThreadEnds
<1> QED
  BY <1>1, SleepInductive, Invariance, PTL DEF Spec

(* timer.c's timer is never lost, although its handler arms it for a time that may be past. *)
THEOREM TimerIsNotLost == Spec => []TimerStaysArmed
<1>1. Init => TimerStaysArmed
  BY DEF Init, ModuleInit, TimerStaysArmed
<1> QED
  BY <1>1, ArmedInductive, Invariance, TimerInvariance, PTL DEF Spec
===============================================================================
