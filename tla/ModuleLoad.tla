------------------------------ MODULE ModuleLoad ------------------------------
(***************************************************************************)
(* The module_init and module_exit of the drivers: each is a sequence of    *)
(* calls that take something from the kernel, or give it back, and each     *)
(* call that takes may fail.  A device can be opened as soon as its cdev    *)
(* is added, while the rest of the init function is still to run; it can    *)
(* be opened no more once the module is being unloaded, and an open file    *)
(* keeps the module from being unloaded.  Code of a module that the kernel  *)
(* runs by itself is in ModuleCode, which extends this module.              *)
(***************************************************************************)
EXTENDS Integers, Sequences

CONSTANTS Task,
          Loaded            \* the drivers to try: names of DriverTable
-------------------------------------------------------------------------------
(* What an init function does, call by call: the thing a call takes, and what  *)
(* follows if it fails: the things given back and an error returned, the same  *)
(* and success returned, or nothing at all, the failure going unnoticed.  Some *)
(* calls cannot fail: Prepare initialises something of the driver's own that   *)
(* is never given back.  Nor is a thread: it ends.                             *)
Try(t, undo)         == [thing |-> t, onFailure |-> "error", undo |-> undo]
TryThenLoad(t, undo) == [thing |-> t, onFailure |-> "success", undo |-> undo]
TryUnnoticed(t)      == [thing |-> t, onFailure |-> "unnoticed", undo |-> <<>>]
Sure(t)              == [thing |-> t, onFailure |-> "cannot", undo |-> <<>>]
Prepare(t)           == Sure(t)

NeverGivenBack == {"semaphore", "queues", "lock", "registers", "registers1", "completion",
                   "thread"}

(* What calls use of a driver, for each cdev through which they come. *)
Uses(t) == [c \in {"cdev", "cdev1", "misc"} |-> t]

(* class_create() and device_create() return an ERR_PTR, which is not NULL: that *)
(* they failed goes unnoticed.  The region is given back twice if cdev_alloc()   *)
(* fails.                                                                        *)
LedModule(withoutRegion, exit) ==
  [load   |-> << Try("mapping", <<>>), Try("region", withoutRegion),
                 Try("cdev_object", <<"region", "mapping", "region">>),
                 Try("cdev", <<"cdev", "mapping", "region">>),
                 TryUnnoticed("class"), TryUnnoticed("device") >>,
   unload |-> exit,
   uses   |-> Uses({"mapping"})]

(* Variant: the registers stay mapped if there is no device number. *)
LedKeepsMapping == LedModule(<<>>, << "mapping", "device", "class", "cdev", "region" >>)

Led         == LedModule(<<"mapping">>, << "mapping", "device", "class", "cdev", "region" >>)
LedSem      == Led
LedAtomic   == Led
KeyChar     == Led
LedSpinlock == [Led EXCEPT !.load = Append(@, Prepare("lock")),
                           !.uses = Uses({"mapping", "lock"})]

(* One cdev and one device for each of the minors, of which two are modelled; only *)
(* the class was created first.                                                    *)
LedNums ==
  [load   |-> << Try("mapping", <<>>), TryUnnoticed("class"), Try("region", <<"mapping">>),
                 Try("cdev", <<"cdev", "mapping", "region">>), TryUnnoticed("device"),
                 Prepare("registers"),
                 Try("cdev1", <<"cdev1", "mapping", "region">>), TryUnnoticed("device1"),
                 Prepare("registers1") >>,
   unload |-> << "mapping", "cdev", "cdev1", "device", "device1", "class", "region" >>,
   uses   |-> [Uses({"mapping", "registers"}) EXCEPT !["cdev1"] = {"mapping", "registers1"}]]

(* The unfinished copy: nothing is mapped, and one cdev of several is added. *)
LedNumsUnfinished ==
  [load   |-> << Try("region", <<"mapping">>), Try("cdev", <<"cdev", "region">>) >>,
   unload |-> << "cdev", "cdev1", "region" >>,
   uses   |-> Uses({})]

(* cdev_add() is in a function of its own that only prints its error. *)
GlobalFifo ==
  [load   |-> << Try("region", <<>>), Try("memory", <<"region">>), TryUnnoticed("cdev"),
                 Prepare("semaphore"), Prepare("queues") >>,
   unload |-> << "cdev", "memory", "region" >>,
   uses   |-> Uses({"memory", "semaphore", "queues"})]
GlobalFifoAsync == GlobalFifo

GlobalMem == [GlobalFifo EXCEPT !.load = SubSeq(@, 1, 3), !.uses = Uses({"memory"})]

(* Two minors are registered; the error path unregisters one, and the kernel looks *)
(* for a region of exactly that size.                                              *)
GlobalMemTwo ==
  [load   |-> << Try("region", <<>>), Try("memory", <<"region_of_one">>),
                 TryUnnoticed("cdev"), TryUnnoticed("cdev1") >>,
   unload |-> << "cdev", "cdev1", "memory", "region" >>,
   uses   |-> Uses({"memory"})]

(* The skeleton: without a device number it reports success. *)
HelloWorld ==
  [load   |-> << TryThenLoad("region", <<>>), Try("cdev", <<"region">>) >>,
   unload |-> << "region", "cdev" >>,
   uses   |-> Uses({})]
VirtDev == HelloWorld

(* With a thread, which the exit function stops, or leaves alone. *)
WaitQueue ==
  [load   |-> HelloWorld.load \o << Prepare("queues"), TryUnnoticed("thread") >>,
   unload |-> << "thread", "region", "cdev" >>,
   uses   |-> Uses({"queues"})]

CompleteTest ==
  [load   |-> HelloWorld.load \o << Prepare("completion"), TryUnnoticed("thread") >>,
   unload |-> << "region", "cdev" >>,
   uses   |-> Uses({"completion"})]
-------------------------------------------------------------------------------
(* Drivers without a character device of their own. *)

SecondTimer == [load |-> << Sure("timer") >>, unload |-> << "timer" >>, uses |-> Uses({})]

Buttons == [load |-> << Try("misc", <<>>) >>, unload |-> << "misc" >>, uses |-> Uses({})]
ButtonsTasklet == Buttons
ButtonsWork    == Buttons

(* The exit function removes nothing. *)
KobjectTest == [load |-> << Try("my_kobj", <<>>) >>, unload |-> << >>, uses |-> Uses({})]

(* Variant: the error path of kset_register() returns 0, as in kset_test_orig.c. *)
KsetTestReturns0 ==
  [load   |-> << TryUnnoticed("kset_p"), TryThenLoad("kset_c", <<"kset_p">>),
                 TryUnnoticed("my_kobj") >>,
   unload |-> << "my_kobj", "kset_p", "kset_c" >>,
   uses   |-> Uses({})]

KsetTest ==
  [load   |-> << TryUnnoticed("kset_p"), Try("kset_c", <<"kset_p">>), TryUnnoticed("my_kobj") >>,
   unload |-> << "my_kobj", "kset_p", "kset_c" >>,
   uses   |-> Uses({})]
KsetTestOrig ==
  [load   |-> << TryUnnoticed("kset_p"), TryThenLoad("kset_c", <<"kset_p">>) >>,
   unload |-> << "kset_p", "kset_c" >>,
   uses   |-> Uses({})]

VirtBus ==
  [load   |-> << TryUnnoticed("bus"), Try("bus_file", <<>>) >>,
   unload |-> << "bus_file", "bus" >>,
   uses   |-> Uses({})]
VirtDevice ==
  [load   |-> << Try("device_object", <<>>), Try("device_file", <<>>) >>,
   unload |-> << "device_file", "device_object" >>,
   uses   |-> Uses({})]

DriverTable ==
  [led |-> Led, led_sem |-> LedSem, led_atomic |-> LedAtomic, led_spinlock |-> LedSpinlock,
   led_nums |-> LedNums, led_nums_wiscom |-> LedNumsUnfinished, key_char |-> KeyChar,
   globalfifo |-> GlobalFifo, waitqueue |-> WaitQueue, complete_test |-> CompleteTest,
   timer |-> SecondTimer,
   globalfifo_async |-> GlobalFifoAsync, globalmem |-> GlobalMem,
   globalmem_two |-> GlobalMemTwo, helloworld |-> HelloWorld, virtdev |-> VirtDev,
   buttons |-> Buttons, buttons_tsklet |-> ButtonsTasklet, buttons_workqueue |-> ButtonsWork,
   kobject_test |-> KobjectTest, kset_test |-> KsetTest, kset_test_orig |-> KsetTestOrig,
   virt_bus |-> VirtBus, virt_device |-> VirtDevice]

ASSUME LoadedAssumption == Loaded \subseteq DOMAIN DriverTable
-------------------------------------------------------------------------------
VARIABLES
  driver,
  phase,        \* of the module
  at,           \* the call of its init function that is next
  todo,         \* what its error path or exit function has still to give back
  result,       \* of the init function: 0 or -1
  held,         \* what the module has taken and not given back
  failed,       \* the calls that failed
  fault,        \* a release of what is not there: "none", "again" or "oops"
  file,         \* file[p]: the cdev through which p has the device open
  calling       \* the tasks inside a call on their file

load  == <<phase, at, todo, result, held, failed, fault>>
moduleVars == <<driver, load, file, calling>>

NoFile == "none"
This   == DriverTable[driver]
Step   == This.load[at]

ModuleInit ==
        /\ driver \in Loaded
        /\ phase = "loading" /\ at = 1 /\ todo = << >> /\ result = 0
        /\ held = {} /\ failed = {} /\ fault = "none"
        /\ file = [p \in Task |-> NoFile] /\ calling = {}
-------------------------------------------------------------------------------
(* init *)

(* What must be there for a call to succeed. *)
Needs(t) == IF t \in {"device", "device1"} THEN {"class"}
            ELSE IF t = "bus_file" THEN {"bus"} ELSE {}

Running == phase = "loading" /\ at <= Len(This.load)

LoadStep == /\ Running
            /\ Needs(Step.thing) \subseteq held
            /\ held' = held \union {Step.thing}
            /\ at' = at + 1
            /\ UNCHANGED <<driver, phase, todo, result, failed, fault, file, calling>>

LoadStepFails ==
  /\ Running /\ Step.onFailure # "cannot"
  /\ failed' = failed \union {Step.thing}
  /\ IF Step.onFailure = "unnoticed"
     THEN at' = at + 1 /\ UNCHANGED <<phase, todo, result>>
     ELSE /\ phase' = "undoing" /\ todo' = Step.undo
          /\ result' = IF Step.onFailure = "error" THEN -1 ELSE 0
          /\ UNCHANGED at
  /\ UNCHANGED <<driver, held, fault, file, calling>>

LoadDone == /\ phase = "loading" /\ at > Len(This.load)
            /\ phase' = "live"
            /\ UNCHANGED <<driver, at, todo, result, held, failed, fault, file, calling>>
-------------------------------------------------------------------------------
(* giving back: the error path of init, and exit *)

(* cdev_del() also puts the object. *)
Frees(t) == IF t = "cdev" THEN {"cdev", "cdev_object"} ELSE {t}

(* Releases that the kernel allows of something whose creation was tried and failed; *)
(* but device_destroy() looks into the class, and kobject_del() puts the kset that     *)
(* kobject_init_and_add() has put already when it failed.                              *)
Tolerated(t) == /\ t \in failed
                /\ \/ t \in {"cdev", "cdev1", "class", "kset_p"}
                   \/ t \in {"device", "device1"} /\ "class" \in held
                   \/ t = "my_kobj" /\ "kset_p" \notin held

(* kset_c puts kset_p when it goes, as its kset and as its parent; when one put of *)
(* kset_p too many has been made, the second finds freed memory.                   *)
Dangling(t) == t = "kset_c" /\ fault = "again"

GiveBack == /\ phase \in {"undoing", "exiting"} /\ todo # << >> /\ fault # "oops"
            /\ todo' = Tail(todo)
            /\ LET t == Head(todo)
               IN  /\ held' = held \ Frees(t)
                   /\ IF Frees(t) \intersect held # {} \/ Tolerated(t)
                      THEN fault' \in {fault} \union (IF Dangling(t) THEN {"oops"} ELSE {})
                      ELSE fault' = IF t \in {"region", "region_of_one", "cdev1", "my_kobj"}
                                    THEN "again" ELSE "oops"
            /\ UNCHANGED <<driver, phase, at, result, failed, file, calling>>

(* The code of a module whose init failed is freed, as after exit. *)
GivenBack == /\ phase \in {"undoing", "exiting"} /\ todo = << >> /\ fault # "oops"
             /\ phase' = IF phase = "exiting" THEN "removed"
                         ELSE IF result = 0 THEN "live" ELSE "refused"
             /\ UNCHANGED <<driver, at, todo, result, held, failed, fault, file, calling>>

(* Variant: without .owner open files do not count. *)
RemoveUncounted == /\ phase = "live"
                   /\ phase' = "exiting" /\ todo' = This.unload
                   /\ UNCHANGED <<driver, at, result, held, failed, fault, file, calling>>

Remove == /\ phase = "live"
          /\ \A p \in Task : file[p] = NoFile
          /\ phase' = "exiting" /\ todo' = This.unload
          /\ UNCHANGED <<driver, at, result, held, failed, fault, file, calling>>
-------------------------------------------------------------------------------
(* the users of the device *)

Open(p) == /\ phase \in {"loading", "undoing", "live"} /\ file[p] = NoFile
           /\ \E c \in {"cdev", "cdev1", "misc"} \intersect held : file' = [file EXCEPT ![p] = c]
           /\ UNCHANGED <<driver, load, calling>>

Call(p) == /\ file[p] # NoFile /\ p \notin calling
           /\ calling' = calling \union {p}
           /\ UNCHANGED <<driver, load, file>>

Return(p) == /\ p \in calling
             /\ calling' = calling \ {p}
             /\ UNCHANGED <<driver, load, file>>

Close(p) == /\ file[p] # NoFile /\ p \notin calling
            /\ file' = [file EXCEPT ![p] = NoFile]
            /\ UNCHANGED <<driver, load, calling>>
-------------------------------------------------------------------------------
LedFamily == {"led", "led_sem", "led_atomic", "led_spinlock", "key_char"}

(* Failures after which an init function that returns an error keeps something. *)
Leaks == {<<"led_nums", t>> : t \in {"region", "cdev", "cdev1"}}
         \union {<<"globalmem_two", "memory">>,
                 <<"virt_bus", "bus_file">>, <<"virt_device", "device_file">>}

(* Failures after which the driver gives back what it has not. *)
Repeats == LedFamily \X {"cdev_object", "class"}
           \union {<<"led_nums", "class">>, <<"led_nums_wiscom", "region">>,
                   <<"globalmem_two", "memory">>,
                   <<"helloworld", "region">>, <<"virtdev", "region">>,
                   <<"waitqueue", "region">>, <<"complete_test", "region">>,
                   <<"waitqueue", "thread">>,
                   <<"kset_test", "my_kobj">>, <<"kset_test_orig", "kset_c">>}

Has(failures) == \E t \in failed : <<driver, t>> \in failures

Kept == held \ NeverGivenBack

(* An init function that returns an error has given back all it took, whichever     *)
(* calls failed, but for the failures in Leaks; and what a loaded module has,        *)
(* whatever of it could be had, is all given back when it is unloaded, but for that  *)
(* of kobject_test, whose exit function forgets.                                     *)
EverythingGivenBack ==
  \/ phase = "refused" /\ Has(Leaks)
  \/ phase = "removed" /\ driver = "kobject_test"
  \/ phase \in {"refused", "removed"} => Kept = {}

(* Drivers that prepare something their calls use only after the device can be opened. *)
Late == {"globalfifo", "globalfifo_async", "led_spinlock", "led_nums", "waitqueue",
         "complete_test"}

(* A call finds the memory it uses, although exit functions free or unmap it before *)
(* they remove the device, and the lock or queue it uses, but for calls made while  *)
(* a driver of Late is still being loaded; and nobody has a file of a module that   *)
(* is gone.  When the second of led_nums.c's cdev_add() calls fails, the first      *)
(* device is forgotten.                                                             *)
CallsFindMemory ==
  ~Has({<<"led_nums", "cdev1">>}) =>
     /\ \A p \in calling : This.uses[file[p]] \ held \subseteq
                            IF driver \in Late /\ phase = "loading" THEN NeverGivenBack ELSE {}
     /\ phase \in {"refused", "removed"} => \A p \in Task : file[p] = NoFile
===============================================================================
