--------------------------- MODULE LedDriversProofs ---------------------------
(***************************************************************************)
(* Proofs about the LED drivers, for any number of tasks, minors and LEDs.  *)
(***************************************************************************)
EXTENDS LedDrivers, FiniteSetTheorems, TLAPS

(* The minors the loaded driver has. *)
Obj == IF driver = "minors" THEN Minor ELSE OneMinor

(* Where a task is in open() or release(), or in no call. *)
Outside == {"user", "test", "take", "release", "undo"}

Types == /\ driver \in AllDrivers
         /\ gpndat \subseteq Led
         /\ led_state \in [Obj -> [Led -> State]]
         /\ bkl \in Process \union {NoProcess}
         /\ minor \in [Process -> Obj \union {NoMinor}]
         /\ pc \in [Process -> LedLabel \union Outside]
         /\ cmd \in [Process -> Command \union {None}]
         /\ tmp \in [Process -> SUBSET Led]
         /\ val \in [Process -> State]
         /\ mine \in [Process -> [Led -> State \union {Unset}]]

(* A task in led_ioctl() has the device open and the big kernel lock, except where *)
(* a copy may have slept, and its command is the one it is executing.               *)
InIoctl(p) ==
  /\ pc[p] \in LedLabel \ {"user"} => p \in Holders /\ cmd[p] \in Command
  /\ pc[p] \in {"copy", "set", "store", "shadow", "get"} => bkl = p
  /\ pc[p] \in {"set", "store", "shadow"} => cmd[p].op = "set"
  /\ pc[p] \in {"store", "shadow"} => cmd[p].state \in State
  /\ pc[p] \in {"get", "reply"} => cmd[p].op = "get"

(* led_set(): what was loaded is still in the register, then what is about to be *)
(* copied to led_state is.                                                        *)
InLedSet(p) ==
  /\ pc[p] = "store" => tmp[p] = gpndat
  /\ pc[p] = "shadow" => (cmd[p].led \in gpndat <=> cmd[p].state = LED_OFF)

(* The ghost is about the file that is open now. *)
MineSinceOpen ==
  \A p \in Process \ Holders : \A l \in Led : mine[p][l] = Unset

IoctlInv == /\ Types
            /\ \A p \in Process : InIoctl(p) /\ InLedSet(p)
            /\ MineSinceOpen
            /\ OneShadowMatchesRegister

(* A step of open() or release() of any driver, as far as led_ioctl() is concerned. *)
GuardStep(p) ==
  /\ pc[p] \in Outside
  /\ \E label \in Outside : Goto(p, label)
  /\ UNCHANGED <<driver, gpndat, led_state, bkl, cmd, tmp, val>>
  /\ \/ UNCHANGED <<minor, mine>>
     \/ p \notin Holders /\ \E m \in Obj : Attach(p, m)
     \/ Detach(p)
-------------------------------------------------------------------------------
LEMMA ObjMinors == Obj \subseteq Minor /\ NoMinor \notin Obj /\ OneMinor \subseteq Minor
  BY MinorAssumption DEF Obj, OneMinor

LEMMA CommandFields ==
  ASSUME NEW c \in Command
  PROVE  /\ c.op \in {"set", "get"}
         /\ c.led \in Led
         /\ c.state \in State \union {2}
  BY DEF Command, State, LED_OFF, LED_ON

(* The six instances of led_ioctl() are one. *)
LEMMA SameIoctl ==
  ASSUME NEW p \in Process
  PROVE  /\ Shared!Ioctl(p) \/ Minors!Ioctl(p) => Ioctl(p)
         /\ Sem!Ioctl(p) \/ Spinlock!Ioctl(p) => Ioctl(p)
         /\ Atomic!Ioctl(p) \/ AtomicUP!Ioctl(p) => Ioctl(p)
<1> USE SharerAssumption DEF Ioctl, IoctlCall, IoctlLock, CopyIn, LedLoad, LedStore,
        LedShadow, GetState, Reply, Return, Goto, port, Command, None, State,
        LED_OFF, LED_ON
<1>1. Shared!Ioctl(p) => Ioctl(p)
  BY DEF Holders, Shared!Ioctl, Shared!IoctlCall, Shared!IoctlLock, Shared!CopyIn,
         Shared!LedLoad, Shared!LedStore, Shared!LedShadow, Shared!GetState,
         Shared!Reply, Shared!Return, Shared!Goto, Shared!Holders, Shared!port,
         Shared!Command, Shared!None, Shared!State, Shared!LED_OFF, Shared!LED_ON
<1>2. Minors!Ioctl(p) => Ioctl(p)
  BY DEF Holders, Minors!Ioctl, Minors!IoctlCall, Minors!IoctlLock, Minors!CopyIn,
         Minors!LedLoad, Minors!LedStore, Minors!LedShadow, Minors!GetState,
         Minors!Reply, Minors!Return, Minors!Goto, Minors!Holders, Minors!port,
         Minors!Command, Minors!None, Minors!State, Minors!LED_OFF, Minors!LED_ON
<1>3. Sem!Ioctl(p) => Ioctl(p)
  BY DEF Holders, Sem!Ioctl, Sem!IoctlCall, Sem!IoctlLock, Sem!CopyIn, Sem!LedLoad,
         Sem!LedStore, Sem!LedShadow, Sem!GetState, Sem!Reply, Sem!Return, Sem!Goto,
         Sem!Holders, Sem!port, Sem!Command, Sem!None, Sem!State, Sem!LED_OFF,
         Sem!LED_ON
<1>4. Spinlock!Ioctl(p) => Ioctl(p)
  BY DEF Holders, Spinlock!Ioctl, Spinlock!IoctlCall, Spinlock!IoctlLock,
         Spinlock!CopyIn, Spinlock!LedLoad, Spinlock!LedStore, Spinlock!LedShadow,
         Spinlock!GetState, Spinlock!Reply, Spinlock!Return, Spinlock!Goto,
         Spinlock!Holders, Spinlock!port, Spinlock!Command, Spinlock!None,
         Spinlock!State, Spinlock!LED_OFF, Spinlock!LED_ON
<1>5. Atomic!Ioctl(p) => Ioctl(p)
  BY DEF Holders, Atomic!Ioctl, Atomic!IoctlCall, Atomic!IoctlLock, Atomic!CopyIn,
         Atomic!LedLoad, Atomic!LedStore, Atomic!LedShadow, Atomic!GetState,
         Atomic!Reply, Atomic!Return, Atomic!Goto, Atomic!Holders, Atomic!port,
         Atomic!Command, Atomic!None, Atomic!State, Atomic!LED_OFF, Atomic!LED_ON
<1>6. AtomicUP!Ioctl(p) => Ioctl(p)
  BY DEF Holders, AtomicUP!Ioctl, AtomicUP!IoctlCall, AtomicUP!IoctlLock,
         AtomicUP!CopyIn, AtomicUP!LedLoad, AtomicUP!LedStore, AtomicUP!LedShadow,
         AtomicUP!GetState, AtomicUP!Reply, AtomicUP!Return, AtomicUP!Goto,
         AtomicUP!Holders, AtomicUP!port, AtomicUP!Command, AtomicUP!None,
         AtomicUP!State, AtomicUP!LED_OFF, AtomicUP!LED_ON
<1> QED
  BY <1>1, <1>2, <1>3, <1>4, <1>5, <1>6
-------------------------------------------------------------------------------
(* What the guards of the drivers count.  Each is about one driver. *)
Unique == \A p, q \in Holders : p = q

SemInv == driver = "sem" => Unique /\ led_lock = IF Holders = {} THEN 1 ELSE 0

SpinInv ==
  driver = "spinlock" =>
    /\ Unique /\ user_count = IF Holders = {} THEN 0 ELSE 1
    /\ \A p \in Process :
         /\ pc[p] \in {"test", "take", "release"} => spin_lock = p
         /\ pc[p] = "take" => user_count = 0
         /\ pc[p] \in {"test", "take"} => p \notin Holders
         /\ pc[p] = "release" => p \in Holders

AtomicInv == /\ AvailableAccounts
             /\ driver \in {"atomic", "atomic_up"} => Unique
             /\ driver = "atomic_up" => Atomic!Undoing = {}

GuardInv == SemInv /\ SpinInv /\ AtomicInv

-------------------------------------------------------------------------------
LEMMA AttachHolders ==
  ASSUME Types, NEW p \in Process, NEW m \in Obj, minor' = [minor EXCEPT ![p] = m]
  PROVE  Holders' = Holders \union {p}
  BY ObjMinors DEF Types, Holders

LEMMA DetachHolders ==
  ASSUME Types, NEW p \in Process, minor' = [minor EXCEPT ![p] = NoMinor]
  PROVE  Holders' = Holders \ {p}
  BY DEF Types, Holders

(* led_ioctl() opens and closes nothing, and stays among its own labels. *)
LEMMA IoctlMoves ==
  ASSUME Types, NEW p \in Process, InIoctl(p), Ioctl(p)
  PROVE  /\ UNCHANGED minor
         /\ pc[p] \in LedLabel
         /\ \E label \in LedLabel : Goto(p, label)
<1>1. CopyIn(p) => cmd[p].op \in {"set", "get"}
  BY CommandFields DEF CopyIn, InIoctl, LedLabel
<1> QED
  BY <1>1 DEF Ioctl, IoctlCall, IoctlLock, CopyIn, LedLoad, LedStore, LedShadow, GetState,
              Reply, Return, Goto, LedLabel

(* so the guards' invariant does not notice it. *)
LEMMA GuardInvIoctl ==
  ASSUME Types, GuardInv, NEW p \in Process, InIoctl(p), Ioctl(p), UNCHANGED <<driver, open>>
  PROVE  GuardInv'
<1>1. PICK label \in LedLabel : pc' = [pc EXCEPT ![p] = label]
  BY IoctlMoves DEF Goto
<1>2. pc[p] \in LedLabel /\ UNCHANGED minor
  BY IoctlMoves
<1>3. Holders' = Holders
  BY <1>2 DEF Holders
<1>4. Atomic!Undoing' = Atomic!Undoing
  BY <1>1, <1>2 DEF Types, Atomic!Undoing, LedLabel
<1>5. SemInv' /\ SpinInv'
  BY <1>1, <1>2, <1>3 DEF GuardInv, SemInv, SpinInv, Unique, Types, LedLabel, open
<1>6. AtomicInv'
  BY <1>3, <1>4 DEF GuardInv, AtomicInv, Unique, AvailableAccounts, open
<1> QED
  BY <1>5, <1>6 DEF GuardInv
-------------------------------------------------------------------------------
(* What a step of open() or release() is to the caller, in the words of ExclusiveOpen. *)
Outcome(p) ==
  \/ Holders = {} /\ Holders' = {p} /\ refused' = refused \ {p}
  \/ p \notin Holders /\ Holders # {} /\ Holders' = Holders /\ refused' = refused \union {p}
  \/ p \in Holders /\ Holders' = Holders \ {p} /\ refused' = refused
  \/ Holders' = Holders /\ refused' = refused

(* led.c, led_nums.c: no guard. *)
LEMMA SharedStep ==
  ASSUME Types, GuardInv, UNCHANGED <<driver, open>>,
         NEW p \in Sharer,
         \/ driver = "shared" /\ (Shared!Open(p) \/ Shared!Release(p))
         \/ driver = "minors" /\ (Minors!Open(p) \/ Minors!Release(p))
  PROVE  GuardStep(p) /\ GuardInv'
<1> USE SharerAssumption
<1>1. GuardInv'
  BY DEF GuardInv, SemInv, SpinInv, AtomicInv, AvailableAccounts
<1>2. ASSUME driver = "shared"
      PROVE  GuardStep(p)
  BY <1>2 DEF GuardStep, Unset, Outside, Goto, Attach, Detach, ioctl, port, Types,
       Obj, Holders, Shared!Open, Shared!Release, Shared!Attach, Shared!Detach,
       Shared!Goto, Shared!ioctl, Shared!port, Shared!ledVars, Shared!Holders,
       Shared!Unset
<1>3. ASSUME driver = "minors"
      PROVE  GuardStep(p)
  BY <1>3 DEF GuardStep, Unset, Outside, Goto, Attach, Detach, ioctl, port, Types,
       Obj, Holders, Minors!Open, Minors!Release, Minors!Attach, Minors!Detach,
       Minors!Goto, Minors!ioctl, Minors!port, Minors!ledVars, Minors!Holders,
       Minors!Unset
<1> QED
  BY <1>1, <1>2, <1>3

(* led_sem.c: the semaphore is down exactly while a file is open. *)
LEMMA SemStep ==
  ASSUME Types, GuardInv, driver = "sem",
         UNCHANGED <<driver, spin_lock, user_count, led_available>>,
         NEW p \in Process,
         Sem!OpenGranted(p) \/ Sem!OpenRefused(p) \/ Sem!Release(p)
  PROVE  GuardStep(p) /\ GuardInv' /\ Outcome(p)
<1>1. GuardStep(p)
  BY DEF GuardStep, Unset, Outside, Goto, Attach, Detach, ioctl, port, Types, Obj,
       Holders, Sem!OpenGranted, Sem!OpenRefused, Sem!Release, Sem!Attach, Sem!Detach,
       Sem!Goto, Sem!ioctl, Sem!port, Sem!ledVars, Sem!Holders, Sem!Unset
<1>2. SemInv' /\ Outcome(p)
  <2>1. CASE Sem!OpenGranted(p)
    <3>1. Holders = {} /\ led_lock' = 0 /\ refused' = refused \ {p}
      BY <2>1 DEF GuardInv, SemInv, Sem!OpenGranted
    <3>2. PICK m \in Obj : minor' = [minor EXCEPT ![p] = m]
      BY <2>1 DEF Obj, Sem!OpenGranted, Sem!Attach
    <3> QED
      BY <3>1, <3>2, AttachHolders DEF SemInv, Unique, Outcome
  <2>2. CASE Sem!OpenRefused(p)
    BY <2>2 DEF GuardInv, SemInv, Unique, Outcome, Holders, Sem!OpenRefused,
         Sem!ledVars, Sem!Holders
  <2>3. CASE Sem!Release(p)
    <3>1. p \in Holders /\ led_lock' = led_lock + 1 /\ refused' = refused
      BY <2>3 DEF Holders, Sem!Release, Sem!Holders
    <3>2. Holders' = Holders \ {p}
      BY <2>3, DetachHolders DEF Sem!Release, Sem!Detach
    <3> QED
      BY <3>1, <3>2 DEF GuardInv, SemInv, Unique, Outcome
  <2> QED
    BY <2>1, <2>2, <2>3
<1>3. SpinInv' /\ AtomicInv'
  BY DEF SpinInv, AtomicInv, AvailableAccounts
<1> QED
  BY <1>1, <1>2, <1>3 DEF GuardInv

(* led_spinlock.c: between the test and the count nobody else gets the spin lock. *)
LEMMA SpinStep ==
  ASSUME Types, GuardInv, driver = "spinlock",
         \A q \in Process : InIoctl(q),
         UNCHANGED <<driver, led_lock, led_available>>,
         NEW p \in Process,
         \/ Spinlock!OpenEnter(p) \/ Spinlock!OpenTest(p) \/ Spinlock!OpenTake(p)
         \/ Spinlock!ReleaseEnter(p) \/ Spinlock!Release(p)
  PROVE  GuardStep(p) /\ GuardInv' /\ Outcome(p)
<1> USE ProcessAssumption DEF GuardInv, SpinInv, Unique, Outcome, Goto, Types
<1>1. CASE Spinlock!OpenEnter(p) \/ Spinlock!ReleaseEnter(p)
  <2>1. GuardStep(p) /\ UNCHANGED <<minor, user_count, refused>>
    BY <1>1 DEF GuardStep, Outside, port, Holders, Spinlock!OpenEnter,
         Spinlock!ReleaseEnter, Spinlock!Goto, Spinlock!port, Spinlock!Holders
  <2>2. Holders' = Holders
    BY <2>1 DEF Holders
  <2>3. /\ spin_lock = NoProcess /\ spin_lock' = p
        /\ \/ p \notin Holders /\ pc' = [pc EXCEPT ![p] = "test"]
           \/ p \in Holders /\ pc' = [pc EXCEPT ![p] = "release"]
    BY <1>1 DEF Holders, Spinlock!OpenEnter, Spinlock!ReleaseEnter, Spinlock!Goto,
         Spinlock!Holders
  <2>4. SpinInv' /\ Outcome(p)
    BY <2>1, <2>2, <2>3
  <2> QED
    BY <2>1, <2>4 DEF SemInv, AtomicInv, AvailableAccounts
<1>2. CASE Spinlock!OpenTest(p)
  <2>1. GuardStep(p) /\ UNCHANGED <<minor, user_count>>
    BY <1>2 DEF GuardStep, Outside, port, Spinlock!OpenTest, Spinlock!Goto,
         Spinlock!port
  <2>2. Holders' = Holders /\ p \notin Holders
    BY <1>2, <2>1 DEF Holders, Spinlock!OpenTest
  <2>3. \/ user_count = 0 /\ pc' = [pc EXCEPT ![p] = "take"] /\ UNCHANGED <<spin_lock, refused>>
        \/ /\ user_count # 0 /\ pc' = [pc EXCEPT ![p] = "user"]
           /\ spin_lock' = NoProcess /\ refused' = refused \union {p}
    BY <1>2 DEF Spinlock!OpenTest, Spinlock!Goto
  <2>4. pc[p] = "test" /\ spin_lock = p
    BY <1>2 DEF Spinlock!OpenTest
  <2>5. SpinInv' /\ Outcome(p)
    BY <2>1, <2>2, <2>3, <2>4
  <2> QED
    BY <2>1, <2>5 DEF SemInv, AtomicInv, AvailableAccounts
<1>3. CASE Spinlock!OpenTake(p)
  <2>1. /\ pc[p] = "take" /\ pc' = [pc EXCEPT ![p] = "user"]
        /\ user_count' = user_count + 1 /\ refused' = refused \ {p}
    BY <1>3 DEF Spinlock!OpenTake, Spinlock!Goto
  <2>2. PICK m \in Obj : minor' = [minor EXCEPT ![p] = m]
    BY <1>3 DEF Obj, Spinlock!OpenTake, Spinlock!Attach
  <2>3. p \notin Holders /\ Holders = {} /\ spin_lock = p
    BY <2>1
  <2>4. Holders' = {p}
    BY <2>2, <2>3, AttachHolders
  <2>5. GuardStep(p)
    BY <1>3, <2>3 DEF GuardStep, Outside, Attach, Obj, Spinlock!OpenTake,
         Spinlock!Goto, Spinlock!Attach
  <2>6. SpinInv' /\ Outcome(p)
    BY <2>1, <2>3, <2>4
  <2> QED
    BY <2>5, <2>6 DEF SemInv, AtomicInv, AvailableAccounts
<1>4. CASE Spinlock!Release(p)
  <2>1. /\ pc[p] = "release" /\ pc' = [pc EXCEPT ![p] = "user"]
        /\ user_count' = user_count - 1 /\ refused' = refused /\ spin_lock = p
    BY <1>4 DEF Spinlock!Release, Spinlock!Goto
  <2>2. Holders' = Holders \ {p}
    BY <1>4, DetachHolders DEF Spinlock!Release, Spinlock!Detach
  <2>3. p \in Holders
    BY <2>1
  <2>4. GuardStep(p)
    BY <1>4 DEF GuardStep, Outside, Detach, Unset, Spinlock!Release, Spinlock!Goto,
         Spinlock!Detach, Spinlock!Unset
  <2>5. SpinInv' /\ Outcome(p)
    BY <2>1, <2>2, <2>3
  <2> QED
    BY <2>4, <2>5 DEF SemInv, AtomicInv, AvailableAccounts
<1> QED
  BY <1>1, <1>2, <1>3, <1>4
-------------------------------------------------------------------------------
(* A step of open() or release() of led_atomic.c, on either kernel. *)
AtomicGuard(p) ==
  \/ Atomic!OpenGranted(p) \/ Atomic!OpenRefused(p) \/ Atomic!OpenUndo(p) \/ Atomic!Release(p)
AtomicGuardUP(p) ==
  \/ AtomicUP!OpenGranted(p) \/ AtomicUP!OpenRefused(p)
  \/ AtomicUP!OpenUndo(p) \/ AtomicUP!Release(p)

(* What it does to the counter, the holders and the failed calls. *)
Counts(p) ==
  \/ /\ led_available = 1 /\ led_available' = 0 /\ refused' = refused \ {p}
     /\ UNCHANGED pc
     /\ \E m \in Obj : minor' = [minor EXCEPT ![p] = m]
  \/ /\ led_available # 1 /\ p \notin Holders /\ UNCHANGED minor
     /\ refused' = refused \union {p}
     /\ \/ /\ driver = "atomic" /\ led_available' = led_available - 1
           /\ pc[p] = "user" /\ pc' = [pc EXCEPT ![p] = "undo"]
        \/ UNCHANGED <<led_available, pc>>
  \/ /\ pc[p] = "undo" /\ pc' = [pc EXCEPT ![p] = "user"]
     /\ led_available' = led_available + 1 /\ UNCHANGED <<minor, refused>>
  \/ /\ p \in Holders /\ led_available' = led_available + 1 /\ UNCHANGED <<pc, refused>>
     /\ minor' = [minor EXCEPT ![p] = NoMinor]

LEMMA AvailableIsInteger ==
  ASSUME Types, AvailableAccounts, driver \in {"atomic", "atomic_up"}
  PROVE  /\ IsFiniteSet(Holders) /\ Cardinality(Holders) \in Nat
         /\ IsFiniteSet(Atomic!Undoing) /\ Cardinality(Atomic!Undoing) \in Nat
         /\ led_available = 1 - Cardinality(Holders) - Cardinality(Atomic!Undoing)
<1>1. Holders \in SUBSET Process /\ Atomic!Undoing \in SUBSET Process
  BY DEF Holders, Atomic!Undoing
<1>2. IsFiniteSet(Holders) /\ IsFiniteSet(Atomic!Undoing)
  BY <1>1, FS_Subset, FiniteAssumption
<1>3. Cardinality(Holders) \in Nat /\ Cardinality(Atomic!Undoing) \in Nat
  BY <1>2, FS_CardinalityType
<1> QED
  BY <1>2, <1>3 DEF AvailableAccounts

LEMMA AtomicCounts ==
  ASSUME Types, GuardInv, NEW p \in Process, UNCHANGED driver,
         \/ driver = "atomic" /\ AtomicGuard(p)
         \/ driver = "atomic_up" /\ AtomicGuardUP(p)
  PROVE  GuardStep(p) /\ Counts(p)
<1>1. led_available \in Int
  BY AvailableIsInteger DEF GuardInv, AtomicInv
<1>2. ASSUME driver = "atomic", AtomicGuard(p)
      PROVE  GuardStep(p)
  BY <1>2 DEF AtomicGuard, GuardStep, Unset, Outside, Goto, Attach, Detach, ioctl,
       port, Types, Obj, Holders, Atomic!OpenGranted, Atomic!OpenRefused,
       Atomic!OpenUndo, Atomic!Release, Atomic!Attach, Atomic!Detach, Atomic!Goto,
       Atomic!ioctl, Atomic!port, Atomic!ledVars, Atomic!Holders, Atomic!Unset
<1>3. ASSUME driver = "atomic_up", AtomicGuardUP(p)
      PROVE  GuardStep(p)
  BY <1>3 DEF AtomicGuardUP, GuardStep, Unset, Outside, Goto, Attach, Detach, ioctl,
       port, Types, Obj, Holders, AtomicUP!OpenGranted, AtomicUP!OpenRefused,
       AtomicUP!OpenUndo, AtomicUP!Release, AtomicUP!Attach, AtomicUP!Detach,
       AtomicUP!Goto, AtomicUP!ioctl, AtomicUP!port, AtomicUP!ledVars,
       AtomicUP!Holders, AtomicUP!Unset
<1>4. ASSUME driver = "atomic", AtomicGuard(p)
      PROVE  Counts(p)
  BY <1>1, <1>4 DEF AtomicGuard, Counts, Holders, Obj, Atomic!OpenGranted,
       Atomic!OpenRefused, Atomic!OpenUndo, Atomic!Release, Atomic!Attach,
       Atomic!Detach, Atomic!Goto, Atomic!ioctl, Atomic!port, Atomic!ledVars,
       Atomic!Holders, Atomic!Unset
<1>5. ASSUME driver = "atomic_up", AtomicGuardUP(p)
      PROVE  Counts(p)
  BY <1>1, <1>5 DEF AtomicGuardUP, Counts, Holders, Obj, AtomicUP!OpenGranted,
       AtomicUP!OpenRefused, AtomicUP!OpenUndo, AtomicUP!Release, AtomicUP!Attach,
       AtomicUP!Detach, AtomicUP!Goto, AtomicUP!ioctl, AtomicUP!port,
       AtomicUP!ledVars, AtomicUP!Holders, AtomicUP!Unset
<1> QED
  BY <1>2, <1>3, <1>4, <1>5

(* led_atomic.c: every file and every failed call keeps one of the counter; where   *)
(* nothing preempts open() there are no failed calls to account for.                *)
LEMMA AtomicStep ==
  ASSUME Types, GuardInv, NEW p \in Process,
         UNCHANGED <<driver, led_lock, spin_lock, user_count>>,
         \/ driver = "atomic" /\ AtomicGuard(p)
         \/ driver = "atomic_up" /\ AtomicGuardUP(p)
  PROVE  /\ GuardStep(p) /\ GuardInv'
         /\ driver = "atomic_up" => Outcome(p)
<1> DEFINE U == Atomic!Undoing
<1>1. GuardStep(p) /\ Counts(p)
  BY AtomicCounts
<1>2. /\ IsFiniteSet(Holders) /\ Cardinality(Holders) \in Nat
      /\ IsFiniteSet(U) /\ Cardinality(U) \in Nat
      /\ led_available = 1 - Cardinality(Holders) - Cardinality(U)
      /\ Unique
      /\ driver = "atomic_up" => U = {}
  BY AvailableIsInteger DEF GuardInv, AtomicInv
<1>3. Cardinality(Holders) = 0 <=> Holders = {}
  BY <1>2, FS_EmptySet
<1>4. Cardinality(U) = 0 <=> U = {}
  BY <1>2, FS_EmptySet
<1>5. SUFFICES /\ led_available' = 1 - Cardinality(Holders') - Cardinality(U')
               /\ Unique'
               /\ driver = "atomic_up" => U' = {} /\ Outcome(p)
  <2>1. AtomicInv'
    BY <1>5 DEF AtomicInv, AvailableAccounts
  <2>2. SemInv' /\ SpinInv'
    BY DEF SemInv, SpinInv
  <2> QED
    BY <1>1, <1>5, <2>1, <2>2 DEF GuardInv
<1>6. CASE /\ led_available = 1 /\ led_available' = 0 /\ refused' = refused \ {p}
           /\ UNCHANGED pc
           /\ \E m \in Obj : minor' = [minor EXCEPT ![p] = m]
  <2>1. Holders = {} /\ U = {}
    BY <1>2, <1>3, <1>4, <1>6
  <2>2. Holders' = {p}
    BY <1>6, <2>1, AttachHolders
  <2>3. U' = {}
    BY <1>6, <2>1 DEF Atomic!Undoing
  <2>4. Cardinality(Holders') = 1 /\ Cardinality(U') = 0
    BY <2>2, <2>3, FS_Singleton, FS_EmptySet
  <2> HIDE DEF U
  <2> QED
    BY <1>6, <2>1, <2>2, <2>3, <2>4 DEF Unique, Outcome
<1>7. CASE /\ led_available # 1 /\ p \notin Holders /\ UNCHANGED minor
           /\ refused' = refused \union {p}
           /\ driver = "atomic" /\ led_available' = led_available - 1
           /\ pc[p] = "user" /\ pc' = [pc EXCEPT ![p] = "undo"]
  <2>1. Holders' = Holders
    BY <1>7 DEF Holders
  <2>2. U' = U \union {p} /\ p \notin U
    BY <1>7 DEF Atomic!Undoing, Types
  <2>3. Cardinality(U') = Cardinality(U) + 1
    BY <1>2, <2>2, FS_AddElement
  <2> HIDE DEF U
  <2> QED
    BY <1>2, <1>7, <2>1, <2>3 DEF Unique
<1>8. CASE /\ led_available # 1 /\ p \notin Holders /\ UNCHANGED minor
           /\ refused' = refused \union {p}
           /\ UNCHANGED <<led_available, pc>>
  <2>1. Holders' = Holders /\ U' = U
    BY <1>8 DEF Holders, Atomic!Undoing
  <2>2. driver = "atomic_up" => Holders # {}
    BY <1>2, <1>3, <1>4, <1>8
  <2> HIDE DEF U
  <2> QED
    BY <1>2, <1>8, <2>1, <2>2 DEF Unique, Outcome
<1>9. CASE /\ pc[p] = "undo" /\ pc' = [pc EXCEPT ![p] = "user"]
           /\ led_available' = led_available + 1 /\ UNCHANGED <<minor, refused>>
  <2>1. Holders' = Holders
    BY <1>9 DEF Holders
  <2>2. U' = U \ {p} /\ p \in U
    BY <1>9 DEF Atomic!Undoing, Types
  <2>3. Cardinality(U') = Cardinality(U) - 1
    BY <1>2, <2>2, FS_RemoveElement
  <2> HIDE DEF U
  <2> QED
    BY <1>2, <1>9, <2>1, <2>2, <2>3 DEF Unique, Outcome
<1>10. CASE /\ p \in Holders /\ led_available' = led_available + 1
            /\ UNCHANGED <<pc, refused>>
            /\ minor' = [minor EXCEPT ![p] = NoMinor]
  <2>1. Holders' = Holders \ {p} /\ U' = U
    BY <1>10, DetachHolders DEF Atomic!Undoing
  <2>2. Cardinality(Holders') = Cardinality(Holders) - 1
    BY <1>2, <1>10, <2>1, FS_RemoveElement
  <2> HIDE DEF U
  <2> QED
    BY <1>2, <1>10, <2>1, <2>2 DEF Unique, Outcome
<1> QED
  BY <1>1, <1>6, <1>7, <1>8, <1>9, <1>10 DEF Counts
-------------------------------------------------------------------------------
(* The steps of led_ioctl(): types. *)
LEMMA IoctlTypes ==
  ASSUME IoctlInv, NEW p \in Process, Ioctl(p), UNCHANGED driver
  PROVE  Types'
<1> USE CommandFields DEF IoctlInv, Types, InIoctl, Goto, Return, port, Obj, Holders,
        State, LED_OFF, LED_ON, LedLabel
<1>1. CASE IoctlCall(p)
  BY <1>1 DEF IoctlCall
<1>2. CASE IoctlLock(p)
  BY <1>2 DEF IoctlLock
<1>3. CASE CopyIn(p)
  <2>1. cmd[p].op \in LedLabel /\ UNCHANGED <<port, minor>>
    BY <1>3 DEF CopyIn
  <2>2. CASE Goto(p, cmd[p].op) /\ UNCHANGED <<bkl, cmd, tmp, val>>
    BY <2>1, <2>2
  <2>3. CASE Goto(p, "lock") /\ bkl' = NoProcess /\ UNCHANGED <<cmd, tmp, val>>
    BY <2>1, <2>3
  <2>4. CASE Return(p)
    BY <2>1, <2>4
  <2> QED
    BY <1>3, <2>2, <2>3, <2>4 DEF CopyIn
<1>4. CASE LedLoad(p)
  <2>1. UNCHANGED <<port, minor>>
    BY <1>4 DEF LedLoad
  <2>2. CASE /\ tmp' = [tmp EXCEPT ![p] = gpndat] /\ Goto(p, "store")
             /\ UNCHANGED <<bkl, cmd, val>>
    BY <2>1, <2>2
  <2>3. CASE Return(p)
    BY <2>1, <2>3
  <2> QED
    BY <1>4, <2>2, <2>3 DEF LedLoad
<1>5. CASE LedStore(p)
  BY <1>5 DEF LedStore
<1>6. CASE LedShadow(p)
  BY <1>6 DEF LedShadow
<1>7. CASE GetState(p)
  BY <1>7 DEF GetState
<1>8. CASE Reply(p)
  BY <1>8 DEF Reply
<1> QED
  BY <1>1, <1>2, <1>3, <1>4, <1>5, <1>6, <1>7, <1>8 DEF Ioctl

(* Who is where, with which command, and with the big kernel lock. *)
LEMMA IoctlPlaces ==
  ASSUME IoctlInv, NEW p \in Process, Ioctl(p), UNCHANGED driver
  PROVE  \A q \in Process : InIoctl(q)'
<1> USE CommandFields, ProcessAssumption DEF IoctlInv, Types, InIoctl, Goto, Return,
        port, Holders, LedLabel
<1>1. CASE IoctlCall(p)
  BY <1>1 DEF IoctlCall
<1>2. CASE IoctlLock(p)
  BY <1>2 DEF IoctlLock
<1>3. CASE CopyIn(p)
  <2>1. /\ pc[p] = "copy" /\ bkl = p /\ cmd[p] \in Command /\ p \in Holders
        /\ cmd[p].op \in {"set", "get"}
    BY <1>3 DEF CopyIn
  <2>2. Holders' = Holders
    BY <1>3 DEF CopyIn
  <2>3. CASE Goto(p, cmd[p].op) /\ UNCHANGED <<bkl, cmd, tmp, val>>
    BY <2>1, <2>2, <2>3
  <2>4. CASE Goto(p, "lock") /\ bkl' = NoProcess /\ UNCHANGED <<cmd, tmp, val>>
    BY <2>1, <2>2, <2>4
  <2>5. CASE Return(p)
    BY <2>1, <2>2, <2>5
  <2> QED
    BY <1>3, <2>3, <2>4, <2>5 DEF CopyIn
<1>4. CASE LedLoad(p)
  <2>1. pc[p] = "set" /\ bkl = p /\ cmd[p] \in Command /\ p \in Holders /\ cmd[p].op = "set"
    BY <1>4 DEF LedLoad
  <2>2. Holders' = Holders
    BY <1>4 DEF LedLoad
  <2>3. CASE cmd[p].state \in State
    <3>1. pc' = [pc EXCEPT ![p] = "store"] /\ UNCHANGED <<bkl, cmd>>
      BY <1>4, <2>3 DEF LedLoad
    <3> QED
      BY <2>1, <2>2, <2>3, <3>1
  <2>4. CASE cmd[p].state \notin State
    <3>1. Return(p)
      BY <1>4, <2>4 DEF LedLoad
    <3> QED
      BY <2>1, <2>2, <3>1
  <2> QED
    BY <2>3, <2>4
<1>5. CASE LedStore(p)
  BY <1>5 DEF LedStore
<1>6. CASE LedShadow(p)
  BY <1>6 DEF LedShadow
<1>7. CASE GetState(p)
  BY <1>7 DEF GetState
<1>8. CASE Reply(p)
  BY <1>8 DEF Reply
<1> QED
  BY <1>1, <1>2, <1>3, <1>4, <1>5, <1>6, <1>7, <1>8 DEF Ioctl

(* The read-modify-write of led_set() is not interleaved. *)
LEMMA IoctlSet ==
  ASSUME IoctlInv, NEW p \in Process, Ioctl(p), UNCHANGED driver
  PROVE  \A q \in Process : InLedSet(q)'
<1> USE CommandFields, ProcessAssumption DEF IoctlInv, Types, InIoctl, Goto, Return,
        port, InLedSet, State, LED_OFF, LED_ON, LedLabel
<1>1. CASE IoctlCall(p)
  BY <1>1 DEF IoctlCall
<1>2. CASE IoctlLock(p)
  BY <1>2 DEF IoctlLock
<1>3. CASE CopyIn(p)
  BY <1>3 DEF CopyIn
<1>4. CASE LedLoad(p)
  BY <1>4 DEF LedLoad
<1>5. CASE LedStore(p)
  BY <1>5 DEF LedStore
<1>6. CASE LedShadow(p)
  BY <1>6 DEF LedShadow
<1>7. CASE GetState(p)
  BY <1>7 DEF GetState
<1>8. CASE Reply(p)
  BY <1>8 DEF Reply
<1> QED
  BY <1>1, <1>2, <1>3, <1>4, <1>5, <1>6, <1>7, <1>8 DEF Ioctl

(* and led_state follows the register. *)
LEMMA IoctlShadow ==
  ASSUME IoctlInv, NEW p \in Process, Ioctl(p), UNCHANGED driver
  PROVE  OneShadowMatchesRegister'
<1> USE CommandFields, ProcessAssumption DEF IoctlInv, Types, InIoctl, Goto, Return,
        port, InLedSet, OneShadowMatchesRegister, ShadowMatchesRegister, State,
        LED_OFF, LED_ON, LedLabel, Obj, OneMinor, Holders
<1>1. CASE IoctlCall(p)
  BY <1>1, SMTT(20) DEF IoctlCall
<1>2. CASE IoctlLock(p)
  BY <1>2 DEF IoctlLock
<1>3. CASE CopyIn(p)
  BY <1>3 DEF CopyIn
<1>4. CASE LedLoad(p)
  BY <1>4 DEF LedLoad
<1>5. CASE LedStore(p)
  BY <1>5 DEF LedStore
<1>6. CASE LedShadow(p)
  <2> DEFINE c == cmd[p]
             m == CHOOSE x \in Minor : TRUE
  <2>1. SUFFICES ASSUME driver # "minors", NEW l \in Led,
                        \E q \in Process : mine'[q][l] # Unset
                 PROVE  led_state'[m][l] = LED_ON <=> l \notin gpndat'
    BY DEF OneShadowMatchesRegister, ShadowMatchesRegister
  <2>2. /\ pc[p] = "shadow" /\ p \in Holders /\ c \in Command /\ bkl = p
        /\ c.state \in State /\ (c.led \in gpndat <=> c.state = LED_OFF)
    BY <1>6 DEF LedShadow
  <2>3. minor[p] = m /\ m \in Obj
    BY <2>1, <2>2, MinorAssumption
  <2>4. /\ led_state' = [led_state EXCEPT ![m][c.led] = c.state]
        /\ mine' = [mine EXCEPT ![p][c.led] = c.state]
        /\ gpndat' = gpndat
    BY <1>6, <2>3 DEF LedShadow
  <2>5. CASE l = c.led
    BY <2>2, <2>3, <2>4, <2>5
  <2>6. CASE l # c.led
    <3>1. \E q \in Process : mine[q][l] # Unset
      BY <2>1, <2>2, <2>4, <2>6
    <3>2. \A q \in Process : pc[q] = "shadow" => cmd[q].led # l
      BY <2>2, <2>6
    <3>3. led_state[m][l] = LED_ON <=> l \notin gpndat
      BY <2>1, <3>1, <3>2
    <3> QED
      BY <2>2, <2>3, <2>4, <2>6, <3>3
  <2> QED
    BY <2>5, <2>6
<1>7. CASE GetState(p)
  BY <1>7 DEF GetState
<1>8. CASE Reply(p)
  BY <1>8 DEF Reply
<1> QED
  BY <1>1, <1>2, <1>3, <1>4, <1>5, <1>6, <1>7, <1>8 DEF Ioctl

LEMMA IoctlMine ==
  ASSUME IoctlInv, NEW p \in Process, Ioctl(p), UNCHANGED driver
  PROVE  MineSinceOpen'
<1> USE CommandFields DEF IoctlInv, Types, MineSinceOpen
<1>1. Holders' = Holders
  BY IoctlMoves DEF Holders
<1>2. CASE LedShadow(p)
  <2>1. p \in Holders
    BY <1>2 DEF LedShadow, InIoctl, LedLabel
  <2> QED
    BY <1>1, <1>2, <2>1 DEF LedShadow
<1>3. CASE UNCHANGED mine
  BY <1>1, <1>3
<1> QED
  BY <1>2, <1>3 DEF Ioctl, IoctlCall, IoctlLock, CopyIn, LedLoad, LedStore, GetState,
       Reply, port

(* A step of open() or release() leaves led_ioctl() alone, and the ghost of a task *)
(* is cleared with its file.                                                        *)
LEMMA GuardKeeps ==
  ASSUME IoctlInv, NEW p \in Process, GuardStep(p)
  PROVE  IoctlInv'
<1> USE DEF IoctlInv, Types, Outside, LedLabel
<1>1. PICK label \in Outside : pc' = [pc EXCEPT ![p] = label]
  BY DEF GuardStep, Goto
<1>2. pc[p] \in Outside /\ UNCHANGED <<driver, gpndat, led_state, bkl, cmd, tmp, val>>
  BY DEF GuardStep
<1>3. \/ UNCHANGED <<minor, mine>>
      \/ p \notin Holders /\ UNCHANGED mine /\ \E m \in Obj : minor' = [minor EXCEPT ![p] = m]
      \/ /\ minor' = [minor EXCEPT ![p] = NoMinor]
         /\ mine' = [mine EXCEPT ![p] = [l \in Led |-> Unset]]
  BY DEF GuardStep, Attach, Detach
<1>4. Obj' = Obj
  BY <1>2 DEF Obj
<1>5. \A q \in Process \ {p} : q \in Holders' <=> q \in Holders
  BY <1>3 DEF Holders
<1>6. Types'
  <2>1. minor' \in [Process -> Obj \union {NoMinor}]
    BY <1>3
  <2>2. mine' \in [Process -> [Led -> State \union {Unset}]]
    <3>1. [l \in Led |-> Unset] \in [Led -> State \union {Unset}]
      OBVIOUS
    <3> QED
      BY <1>3, <3>1
  <2>3. pc' \in [Process -> LedLabel \union Outside]
    BY <1>1
  <2> QED
    BY <1>2, <1>4, <2>1, <2>2, <2>3
<1>7. \A q \in Process : InIoctl(q)'
  BY <1>1, <1>2, <1>5 DEF InIoctl
<1>8. \A q \in Process : InLedSet(q)'
  BY <1>1, <1>2 DEF InLedSet
<1>9. MineSinceOpen'
  <2>1. \A q \in Process \ {p} : mine'[q] = mine[q]
    BY <1>3
  <2>2. p \in Process \ Holders' => \A l \in Led : mine'[p][l] = Unset
    <3>1. CASE UNCHANGED <<minor, mine>>
      BY <3>1 DEF MineSinceOpen, Holders
    <3>2. CASE p \notin Holders /\ UNCHANGED mine
      BY <3>2 DEF MineSinceOpen
    <3>3. CASE mine' = [mine EXCEPT ![p] = [l \in Led |-> Unset]]
      BY <3>3
    <3> QED
      BY <1>3, <3>1, <3>2, <3>3
  <2> QED
    BY <1>5, <2>1, <2>2 DEF MineSinceOpen
<1>10. OneShadowMatchesRegister'
  <2>1. \A q \in Process, l \in Led : mine'[q][l] # Unset => mine[q][l] # Unset
    BY <1>3
  <2>2. \A q \in Process : pc[q] = "shadow" => pc'[q] = "shadow"
    BY <1>1, <1>2
  <2> QED
    BY <1>2, <2>1, <2>2 DEF OneShadowMatchesRegister, ShadowMatchesRegister
<1> QED
  BY <1>6, <1>7, <1>8, <1>9, <1>10
-------------------------------------------------------------------------------
(* The task that has an exclusive device finds in led_state what it set. *)
Refusing == driver \in {"sem", "spinlock", "atomic", "atomic_up"}

OwnInv ==
  Refusing =>
    /\ \A p \in Holders : \A l \in Led :
         mine[p][l] # Unset => led_state[minor[p]][l] = mine[p][l]
    /\ ReadsOwnWrites

LEMMA RefusingUnique == ASSUME Types, GuardInv, Refusing PROVE Unique
  BY DEF GuardInv, SemInv, SpinInv, AtomicInv, Refusing

LEMMA OwnIoctl ==
  ASSUME IoctlInv, Refusing => Unique, OwnInv, NEW p \in Process, Ioctl(p), UNCHANGED driver
  PROVE  OwnInv'
<1> USE CommandFields DEF IoctlInv, Types, InIoctl, Goto, Return, port, OwnInv, ReadsOwnWrites,
                          Refusing, LedLabel
<1>1. Holders' = Holders /\ UNCHANGED minor
  BY IoctlMoves DEF Holders
<1>2. CASE LedShadow(p)
  <2>1. pc[p] = "shadow" /\ p \in Holders /\ cmd[p] \in Command /\ cmd[p].state \in State
    BY <1>2 DEF LedShadow
  <2>2. minor[p] \in Obj
    BY <2>1 DEF Holders
  <2>3. /\ led_state' = [led_state EXCEPT ![minor[p]][cmd[p].led] = cmd[p].state]
        /\ mine' = [mine EXCEPT ![p][cmd[p].led] = cmd[p].state]
        /\ pc' = [pc EXCEPT ![p] = "user"] /\ val' = [val EXCEPT ![p] = LED_OFF]
    BY <1>2 DEF LedShadow
  <2>4. SUFFICES ASSUME Refusing
                 PROVE  /\ \A q \in Holders : \A l \in Led :
                             mine'[q][l] # Unset => led_state'[minor[q]][l] = mine'[q][l]
                        /\ \A q \in Process : pc'[q] # "reply"
    BY <1>1
  <2>5. \A q \in Holders : q = p
    BY <2>1, <2>4 DEF Unique
  <2>6. \A q \in Process : pc'[q] # "reply"
    <3>1. \A q \in Process \ {p} : pc[q] # "reply"
      BY <2>5
    <3> QED
      BY <2>3, <3>1
  <2> QED
    BY <2>1, <2>2, <2>3, <2>4, <2>5, <2>6
<1>3. CASE GetState(p)
  <2>1. pc[p] = "get" /\ p \in Holders /\ cmd[p] \in Command
    BY <1>3 DEF GetState
  <2>2. /\ val' = [val EXCEPT ![p] = led_state[minor[p]][cmd[p].led]]
        /\ pc' = [pc EXCEPT ![p] = "reply"] /\ UNCHANGED <<led_state, mine, cmd>>
    BY <1>3 DEF GetState
  <2> QED
    BY <1>1, <2>1, <2>2
<1>4. CASE /\ UNCHANGED <<led_state, mine>>
           /\ \A q \in Process : pc'[q] = "reply" =>
                pc[q] = "reply" /\ cmd'[q] = cmd[q] /\ val'[q] = val[q]
  BY <1>1, <1>4
<1>5. CASE IoctlCall(p) \/ IoctlLock(p) \/ LedStore(p) \/ Reply(p)
  BY <1>4, <1>5 DEF IoctlCall, IoctlLock, LedStore, Reply
<1>6. CASE CopyIn(p)
  BY <1>4, <1>6 DEF CopyIn
<1>7. CASE LedLoad(p)
  BY <1>4, <1>7 DEF LedLoad
<1> QED
  BY <1>2, <1>3, <1>5, <1>6, <1>7 DEF Ioctl

LEMMA OwnGuard ==
  ASSUME IoctlInv, OwnInv, NEW p \in Process, GuardStep(p)
  PROVE  OwnInv'
<1> USE DEF IoctlInv, Types, Outside
<1>1. PICK label \in Outside : pc' = [pc EXCEPT ![p] = label]
  BY DEF GuardStep, Goto
<1>2. UNCHANGED <<driver, led_state, cmd, val>>
  BY DEF GuardStep
<1>3. \/ UNCHANGED <<minor, mine>>
      \/ p \notin Holders /\ UNCHANGED mine /\ \E m \in Obj : minor' = [minor EXCEPT ![p] = m]
      \/ /\ minor' = [minor EXCEPT ![p] = NoMinor]
         /\ mine' = [mine EXCEPT ![p] = [l \in Led |-> Unset]]
  BY DEF GuardStep, Attach, Detach
<1>4. \A q \in Process \ {p} : mine'[q] = mine[q] /\ minor'[q] = minor[q]
  BY <1>3
<1>5. ASSUME Refusing, NEW q \in Holders', NEW l \in Led, mine'[q][l] # Unset
      PROVE  led_state'[minor'[q]][l] = mine'[q][l]
  <2>1. CASE q # p
    BY <1>2, <1>4, <1>5, <2>1 DEF OwnInv, Holders
  <2>2. CASE q = p
    <3>1. CASE UNCHANGED <<minor, mine>>
      BY <1>2, <1>5, <2>2, <3>1 DEF OwnInv, Holders
    <3>2. CASE p \notin Holders /\ UNCHANGED mine
      BY <1>5, <2>2, <3>2 DEF MineSinceOpen
    <3>3. CASE mine' = [mine EXCEPT ![p] = [k \in Led |-> Unset]]
      BY <1>5, <2>2, <3>3
    <3> QED
      BY <1>3, <3>1, <3>2, <3>3
  <2> QED
    BY <2>1, <2>2
<1>6. ASSUME Refusing, NEW q \in Process, pc'[q] = "reply", mine'[q][cmd'[q].led] # Unset
      PROVE  val'[q] = mine'[q][cmd'[q].led]
  <2>1. q # p /\ pc[q] = "reply"
    BY <1>1, <1>6
  <2> QED
    BY <1>2, <1>4, <1>6, <2>1 DEF OwnInv, ReadsOwnWrites
<1> QED
  BY <1>2, <1>5, <1>6 DEF OwnInv, ReadsOwnWrites, Refusing
-------------------------------------------------------------------------------
IInv == IoctlInv /\ GuardInv /\ OwnInv

(* What a step is: of led_ioctl(), or of a driver's open() or release(). *)
Step(p) ==
  \/ Ioctl(p) /\ UNCHANGED <<driver, open>>
  \/ GuardStep(p) /\ (Strict => Outcome(p))

LEMMA Steps ==
  ASSUME IInv, Next
  PROVE  GuardInv' /\ \E p \in Process : Step(p)
<1> USE DEF IInv, IoctlInv
<1>1. UNCHANGED driver
  BY DEF Next
<1>2. ASSUME NEW p \in Process, Ioctl(p), UNCHANGED open
      PROVE  GuardInv' /\ Step(p)
  BY <1>1, <1>2, GuardInvIoctl DEF Step
<1>3. CASE driver = "shared" /\ Shared!Next /\ UNCHANGED open
  <2>1. PICK p \in Sharer : Shared!Open(p) \/ Shared!Release(p) \/ Shared!Ioctl(p)
    BY <1>3 DEF Shared!Next
  <2> QED
    BY <1>1, <1>2, <1>3, <2>1, SharedStep, SameIoctl, SharerAssumption DEF Step, Strict
<1>4. CASE driver = "minors" /\ Minors!Next /\ UNCHANGED open
  <2>1. PICK p \in Sharer : Minors!Open(p) \/ Minors!Release(p) \/ Minors!Ioctl(p)
    BY <1>4 DEF Minors!Next
  <2> QED
    BY <1>1, <1>2, <1>4, <2>1, SharedStep, SameIoctl, SharerAssumption DEF Step, Strict
<1>5. CASE driver = "sem" /\ Sem!Next /\ UNCHANGED <<spin_lock, user_count, led_available>>
  <2>1. PICK p \in Process :
          \/ Sem!OpenGranted(p) \/ Sem!OpenRefused(p) \/ Sem!Release(p)
          \/ Sem!Ioctl(p) /\ UNCHANGED <<led_lock, refused>>
    BY <1>5 DEF Sem!Next
  <2>2. CASE Sem!Ioctl(p) /\ UNCHANGED <<led_lock, refused>>
    BY <1>2, <1>5, <2>2, SameIoctl DEF open
  <2> QED
    BY <1>1, <1>5, <2>1, <2>2, SemStep DEF Step
<1>6. CASE driver = "spinlock" /\ Spinlock!Next /\ UNCHANGED <<led_lock, led_available>>
  <2>1. PICK p \in Process :
          \/ Spinlock!OpenEnter(p) \/ Spinlock!OpenTest(p) \/ Spinlock!OpenTake(p)
          \/ Spinlock!ReleaseEnter(p) \/ Spinlock!Release(p)
          \/ Spinlock!Ioctl(p) /\ UNCHANGED <<spin_lock, user_count, refused>>
    BY <1>6 DEF Spinlock!Next
  <2>2. CASE Spinlock!Ioctl(p) /\ UNCHANGED <<spin_lock, user_count, refused>>
    BY <1>2, <1>6, <2>2, SameIoctl DEF open
  <2> QED
    BY <1>1, <1>6, <2>1, <2>2, SpinStep DEF Step
<1>7. CASE driver = "atomic" /\ Atomic!Next /\ UNCHANGED <<led_lock, spin_lock, user_count>>
  <2>1. PICK p \in Process :
          \/ AtomicGuard(p)
          \/ Atomic!Ioctl(p) /\ UNCHANGED <<led_available, refused>>
    BY <1>7 DEF Atomic!Next, AtomicGuard
  <2>2. CASE Atomic!Ioctl(p) /\ UNCHANGED <<led_available, refused>>
    BY <1>2, <1>7, <2>2, SameIoctl DEF open
  <2> QED
    BY <1>1, <1>7, <2>1, <2>2, AtomicStep DEF Step, Strict
<1>8. CASE /\ driver = "atomic_up" /\ AtomicUP!Next
           /\ UNCHANGED <<led_lock, spin_lock, user_count>>
  <2>1. PICK p \in Process :
          \/ AtomicGuardUP(p)
          \/ AtomicUP!Ioctl(p) /\ UNCHANGED <<led_available, refused>>
    BY <1>8 DEF AtomicUP!Next, AtomicGuardUP
  <2>2. CASE AtomicUP!Ioctl(p) /\ UNCHANGED <<led_available, refused>>
    BY <1>2, <1>8, <2>2, SameIoctl DEF open
  <2> QED
    BY <1>1, <1>8, <2>1, <2>2, AtomicStep DEF Step
<1> QED
  BY <1>3, <1>4, <1>5, <1>6, <1>7, <1>8 DEF Next

LEMMA Initially == Init => IInv
<1> SUFFICES ASSUME Init
             PROVE  IInv
  OBVIOUS
<1> USE DEF Init
<1>1. /\ gpndat \subseteq Led
      /\ led_state = [m \in Obj |-> [l \in Led |-> LED_OFF]]
      /\ bkl = NoProcess
      /\ minor = [p \in Process |-> NoMinor]
      /\ pc = [p \in Process |-> "user"]
      /\ cmd = [p \in Process |-> None]
      /\ tmp = [p \in Process |-> {}]
      /\ val = [p \in Process |-> LED_OFF]
      /\ mine = [p \in Process |-> [l \in Led |-> Unset]]
  BY DEF LedInit, OneObj!LedInit, Obj, None, Unset, LED_OFF,
         OneObj!None, OneObj!Unset, OneObj!LED_OFF
<1>2. Holders = {} /\ Atomic!Undoing = {}
  BY <1>1 DEF Holders, Atomic!Undoing
<1>3. Types
  <2>1. /\ led_state \in [Obj -> [Led -> State]] /\ val \in [Process -> State]
        /\ mine \in [Process -> [Led -> State \union {Unset}]]
    BY <1>1 DEF State
  <2> QED
    BY <1>1, <2>1, DriverAssumption DEF Types, LedLabel
<1>4. \A p \in Process : InIoctl(p) /\ InLedSet(p)
  BY <1>1 DEF InIoctl, InLedSet
<1>5. MineSinceOpen /\ OneShadowMatchesRegister
  BY <1>1 DEF MineSinceOpen, OneShadowMatchesRegister, ShadowMatchesRegister
<1>6. GuardInv
  BY <1>1, <1>2, FS_EmptySet
  DEF GuardInv, SemInv, SpinInv, AtomicInv, AvailableAccounts, Unique
<1>7. OwnInv
  BY <1>1, <1>2 DEF OwnInv, ReadsOwnWrites
<1> QED
  BY <1>3, <1>4, <1>5, <1>6, <1>7 DEF IInv, IoctlInv

LEMMA Inductive == IInv /\ [Next]_vars => IInv'
<1> SUFFICES ASSUME IInv, [Next]_vars
             PROVE  IInv'
  OBVIOUS
<1>1. CASE Next
  <2>1. GuardInv'
    BY <1>1, Steps
  <2>2. PICK p \in Process : Step(p)
    BY <1>1, Steps
  <2>3. Refusing => Unique
    BY RefusingUnique DEF IInv, IoctlInv
  <2>4. CASE Ioctl(p) /\ UNCHANGED <<driver, open>>
    BY <2>1, <2>3, <2>4, IoctlTypes, IoctlPlaces, IoctlSet, IoctlShadow, IoctlMine, OwnIoctl
    DEF IInv, IoctlInv
  <2>5. CASE GuardStep(p)
    BY <2>1, <2>5, GuardKeeps, OwnGuard DEF IInv
  <2> QED
    BY <2>2, <2>4, <2>5 DEF Step
<1>2. CASE UNCHANGED vars
  <2>1. Holders' = Holders /\ Obj' = Obj /\ Atomic!Undoing' = Atomic!Undoing
    BY <1>2 DEF vars, open, ledVars, port, ioctl, Holders, Obj, Atomic!Undoing
  <2>2. IoctlInv'
    BY <1>2, <2>1 DEF IInv, IoctlInv, Types, InIoctl, InLedSet, MineSinceOpen, vars, ledVars,
      port, ioctl, OneShadowMatchesRegister, ShadowMatchesRegister
  <2>3. GuardInv' /\ OwnInv'
    BY <1>2, <2>1 DEF IInv, GuardInv, SemInv, SpinInv, AtomicInv, AvailableAccounts, Unique,
      OwnInv, Refusing, ReadsOwnWrites, vars, open, ledVars, port, ioctl
  <2> QED
    BY <2>2, <2>3 DEF IInv
<1> QED
  BY <1>1, <1>2

THEOREM Invariance == Spec => []IInv
  BY Initially, Inductive, PTL DEF Spec
-------------------------------------------------------------------------------
(* GET is answered from led_state: outside led_set() it says what the register says, *)
(* for any number of LEDs and of tasks that set them at once.                         *)
THEOREM ShadowNeverLies == Spec => []OneShadowMatchesRegister
<1>1. IInv => OneShadowMatchesRegister
  BY DEF IInv, IoctlInv
<1> QED
  BY <1>1, Invariance, PTL

(* The three ways to refuse a second open() keep the device to one task, however many *)
(* try and wherever they are preempted.                                                *)
THEOREM OneHolder == Spec => []ExclusiveHolder
<1>1. IInv => ExclusiveHolder
  <2> SUFFICES ASSUME IInv, Refusing
               PROVE  Cardinality(Holders) <= 1
    BY DEF ExclusiveHolder, Refusing
  <2>1. \A p, q \in Holders : p = q
    BY RefusingUnique DEF IInv, IoctlInv, Unique
  <2>2. Holders = {} \/ \E p : Holders = {p}
    BY <2>1
  <2>3. Cardinality(Holders) = 0 \/ Cardinality(Holders) = 1
    BY <2>2, FS_EmptySet, FS_Singleton
  <2> QED
    BY <2>3
<1> QED
  BY <1>1, Invariance, PTL

(* and that task reads back what it set. *)
THEOREM HolderReadsBack == Spec => []ReadsOwnWritesIfExclusive
<1>1. IInv => ReadsOwnWritesIfExclusive
  BY DEF IInv, OwnInv, Refusing, ReadsOwnWritesIfExclusive
<1> QED
  BY <1>1, Invariance, PTL

(* The counter of led_atomic.c never drifts, whatever the number of refused opens *)
(* in progress: the device is neither lost nor given twice.                        *)
THEOREM CounterNeverDrifts == Spec => []AvailableAccounts
<1>1. IInv => AvailableAccounts
  BY DEF IInv, GuardInv, AtomicInv
<1> QED
  BY <1>1, Invariance, PTL

(* A bit of the register changes only where led_set() was told to change it: under *)
(* the big kernel lock no load and store of two tasks mix.                          *)
THEOREM SetsOnlyItsLed == Spec => OnlyOwnLed
<1> DEFINE A == \A l \in Led : (l \in gpndat) # (l \in gpndat')
                  => \E p \in Process : pc[p] = "store" /\ cmd[p].led = l
<1>1. IInv /\ [Next]_vars => [A]_ledVars
  <2> SUFFICES ASSUME IInv, Next
               PROVE  A
    BY DEF vars, ledVars
  <2>1. PICK p \in Process : Step(p)
    BY Steps
  <2>2. CASE LedStore(p)
    <3>1. pc[p] = "store" /\ tmp[p] = gpndat
      BY <2>2 DEF IInv, IoctlInv, InLedSet, LedStore
    <3>2. gpndat' = gpndat \ {cmd[p].led} \/ gpndat' = gpndat \union {cmd[p].led}
      BY <2>2, <3>1 DEF LedStore
    <3> QED
      BY <3>1, <3>2
  <2>3. ~LedStore(p) => gpndat' = gpndat
    BY <2>1 DEF Step, GuardStep, Ioctl, IoctlCall, IoctlLock, CopyIn, LedLoad, LedShadow,
      GetState, Reply, port
  <2> QED
    BY <2>2, <2>3
<1> QED
  BY <1>1, Invariance, PTL DEF Spec, OnlyOwnLed

(* led_sem.c and led_spinlock.c, and led_atomic.c where nothing preempts it, implement *)
(* exclusive open: one file at a time, and -EBUSY only while there is one.              *)
THEOREM ImplementsExclusiveOpen == Spec => ExclusiveSpec
<1> DEFINE holder == IF Strict THEN Holders ELSE {}
           busy   == IF Strict THEN refused ELSE {}
<1>1. Init => Exclusive!Init
  <2> SUFFICES ASSUME Init
               PROVE  Holders = {} /\ refused = {}
    BY DEF Exclusive!Init
  <2> QED
    BY DEF Init, LedInit, OneObj!LedInit, Holders
<1>2. IInv /\ [Next]_vars => [Exclusive!Next]_<<holder, busy>>
  <2> SUFFICES ASSUME IInv, [Next]_vars
               PROVE  [Exclusive!Next]_<<holder, busy>>
    OBVIOUS
  <2>1. CASE UNCHANGED vars
    BY <2>1 DEF vars, open, ledVars, Holders, Strict
  <2>2. CASE Next
    <3>1. Strict' = Strict
      BY <2>2 DEF Next, Strict
    <3>2. CASE ~Strict
      BY <3>1, <3>2
    <3>3. CASE Strict
      <4>1. PICK p \in Process : Step(p)
        BY <2>2, Steps
      <4>2. Outcome(p)
        <5>1. CASE Ioctl(p) /\ UNCHANGED <<driver, open>>
          <6>1. UNCHANGED minor
            BY <5>1, IoctlMoves DEF IInv, IoctlInv
          <6> QED
            BY <5>1, <6>1 DEF Outcome, Holders, open
        <5> QED
          BY <3>3, <4>1, <5>1 DEF Step
      <4>3. holder = Holders /\ holder' = Holders' /\ busy = refused /\ busy' = refused'
        BY <3>1, <3>3
      <4> QED
        BY <4>2, <3>1, <3>3
        DEF Outcome, Exclusive!Next, Exclusive!Grant, Exclusive!Refuse, Exclusive!Close
    <3> QED
      BY <3>2, <3>3
  <2> QED
    BY <2>1, <2>2
<1> QED
  BY <1>1, <1>2, Invariance, PTL DEF Spec, ExclusiveSpec, Exclusive!Spec
===============================================================================
