------------------------------- MODULE LedIoctl -------------------------------
(***************************************************************************)
(* led_ioctl() and led_set(), the same code in led.c, led_sem.c,            *)
(* led_atomic.c, led_spinlock.c and led_nums.c: the port B data register    *)
(* shared by all LEDs, and the led_state[] copy of it kept per minor (one   *)
(* minor, except in led_nums.c).  How the device is opened is left to the   *)
(* modules that extend this one.                                            *)
(*                                                                          *)
(* The handler is .ioctl, so the VFS calls it with the big kernel lock,     *)
(* which a task gives up while it sleeps on a fault in copy_*_user.         *)
(***************************************************************************)
EXTENDS Integers, FiniteSets

CONSTANTS Process,
          Led,      \* LED numbers in use, bits of gpndat
          Minor,    \* the minors, each with a led_obj of its own
          NoProcess, NoMinor

ASSUME LedAssumption == Led \subseteq 5 .. 8
ASSUME MinorAssumption == Minor # {} /\ NoMinor \notin Minor
ASSUME ProcessAssumption == NoProcess \notin Process

LED_OFF == 0
LED_ON == 1
State == {LED_OFF, LED_ON}
Unset == -1

(* LED_SET_ON and LED_SET_OFF are "set" of LED1 without a copy that can fault. *)
(* The state 2 stands for every value led_set() rejects.                       *)
Command == [op : {"set"}, led : Led, state : State \union {2}]
             \union [op : {"get"}, led : Led, state : {LED_OFF}]
None == [op |-> "none"]

VARIABLES
  gpndat,      \* LEDs whose bit in the register is 1: those are dark
  led_state,   \* led_state[m][l]
  bkl,         \* holder of the big kernel lock
  minor,       \* minor[p]: the minor p has open
  pc, cmd,     \* the ioctl p is in, and its argument
  tmp,         \* the register value p read
  val,         \* the state p is about to get back
  mine         \* ghost: mine[p][l] is what p last set l to since it opened

ioctl == <<bkl, pc, cmd, tmp, val>>
port  == <<gpndat, led_state, mine>>
ledVars == <<port, minor, ioctl>>

Holders == {p \in Process : minor[p] # NoMinor}

LedInit == /\ gpndat \in SUBSET Led       \* whatever the boot loader left
           /\ led_state = [m \in Minor |-> [l \in Led |-> LED_OFF]]
           /\ bkl = NoProcess
           /\ minor = [p \in Process |-> NoMinor]
           /\ pc = [p \in Process |-> "user"]
           /\ cmd = [p \in Process |-> None]
           /\ tmp = [p \in Process |-> {}]
           /\ val = [p \in Process |-> LED_OFF]
           /\ mine = [p \in Process |-> [l \in Led |-> Unset]]

Goto(p, label) == pc' = [pc EXCEPT ![p] = label]

(* unlock_kernel(), and the handler's frame is gone. *)
Return(p) == /\ Goto(p, "user")
             /\ bkl' = IF bkl = p THEN NoProcess ELSE bkl
             /\ cmd' = [cmd EXCEPT ![p] = None]
             /\ tmp' = [tmp EXCEPT ![p] = {}]
             /\ val' = [val EXCEPT ![p] = LED_OFF]
-------------------------------------------------------------------------------
IoctlCall(p) == /\ pc[p] = "user" /\ p \in Holders
                /\ \E c \in Command : cmd' = [cmd EXCEPT ![p] = c]
                /\ Goto(p, "lock")
                /\ UNCHANGED <<port, minor, bkl, tmp, val>>

(* Variant: .unlocked_ioctl, called without the big kernel lock. *)
IoctlUnlocked(p) == /\ pc[p] = "lock"
                    /\ Goto(p, "copy")
                    /\ UNCHANGED <<port, minor, bkl, cmd, tmp, val>>

(* lock_kernel() *)
IoctlLock(p) == /\ pc[p] = "lock" /\ bkl = NoProcess
                /\ bkl' = p
                /\ Goto(p, "copy")
                /\ UNCHANGED <<port, minor, cmd, tmp, val>>

(* copy_from_user() succeeds, sleeps and lets others in, or fails. *)
CopyIn(p) == /\ pc[p] = "copy"
             /\ \/ Goto(p, cmd[p].op) /\ UNCHANGED <<bkl, cmd, tmp, val>>
                \/ Goto(p, "lock") /\ bkl' = NoProcess /\ UNCHANGED <<cmd, tmp, val>>
                \/ Return(p)
             /\ UNCHANGED <<port, minor>>

(* led_set(): the load of gpndat |= BIT(n), its store, and the led_state copy. *)
LedLoad(p) == /\ pc[p] = "set"
              /\ IF cmd[p].state \in State
                 THEN /\ tmp' = [tmp EXCEPT ![p] = gpndat]
                      /\ Goto(p, "store")
                      /\ UNCHANGED <<bkl, cmd, val>>
                 ELSE Return(p)
              /\ UNCHANGED <<port, minor>>

(* Variant: "|" and "&" swapped, the LED is lit by a 1. *)
LedStoreInverted(p) ==
  /\ pc[p] = "store"
  /\ gpndat' = IF cmd[p].state = LED_OFF THEN tmp[p] \ {cmd[p].led}
                                         ELSE tmp[p] \union {cmd[p].led}
  /\ Goto(p, "shadow")
  /\ UNCHANGED <<led_state, mine, minor, bkl, cmd, tmp, val>>

LedStore(p) == /\ pc[p] = "store"
               /\ gpndat' = IF cmd[p].state = LED_ON THEN tmp[p] \ {cmd[p].led}
                                                    ELSE tmp[p] \union {cmd[p].led}
               /\ Goto(p, "shadow")
               /\ UNCHANGED <<led_state, mine, minor, bkl, cmd, tmp, val>>

LedShadow(p) ==
  LET c == cmd[p] IN
  /\ pc[p] = "shadow"
  /\ led_state' = [led_state EXCEPT ![minor[p]][c.led] = c.state]
  /\ mine' = [mine EXCEPT ![p][c.led] = c.state]
  /\ Return(p)
  /\ UNCHANGED <<gpndat, minor>>

(* LED_GET_STATE: read led_state, then copy_to_user(), which may sleep. *)
GetState(p) == /\ pc[p] = "get"
               /\ val' = [val EXCEPT ![p] = led_state[minor[p]][cmd[p].led]]
               /\ Goto(p, "reply")
               /\ bkl' \in {bkl, NoProcess}
               /\ UNCHANGED <<port, minor, cmd, tmp>>

Reply(p) == /\ pc[p] = "reply"
            /\ Return(p)
            /\ UNCHANGED <<port, minor>>

Ioctl(p) == \/ IoctlCall(p) \/ IoctlLock(p) \/ CopyIn(p)
            \/ LedLoad(p) \/ LedStore(p) \/ LedShadow(p)
            \/ GetState(p) \/ Reply(p)
-------------------------------------------------------------------------------
(* private_data is set by open and cleared by release, per open file. *)
Attach(p, m) == /\ minor' = [minor EXCEPT ![p] = m]
                /\ UNCHANGED <<gpndat, led_state, mine>>

Detach(p) == /\ minor' = [minor EXCEPT ![p] = NoMinor]
             /\ mine' = [mine EXCEPT ![p] = [l \in Led |-> Unset]]
             /\ UNCHANGED <<gpndat, led_state>>
-------------------------------------------------------------------------------
LedLabel == {"user", "lock", "copy", "set", "store", "shadow", "get", "reply"}

(* Types, but for pc: open() adds labels of its own. *)
LedTypeOK == /\ gpndat \subseteq Led
             /\ led_state \in [Minor -> [Led -> State]]
             /\ bkl \in Process \union {NoProcess}
             /\ minor \in [Process -> Minor \union {NoMinor}]
             /\ cmd \in [Process -> Command \union {None}]
             /\ tmp \in [Process -> SUBSET Led]
             /\ val \in [Process -> State]
             /\ mine \in [Process -> [Led -> State \union {Unset}]]

(* Setting one LED never changes another: the read-modify-write of the shared *)
(* register is not interleaved with that of another task.                     *)
OnlyOwnLed ==
  [][\A l \in Led : (l \in gpndat) # (l \in gpndat')
       => \E p \in Process : pc[p] = "store" /\ cmd[p].led = l]_ledVars

(* GET answers from led_state, not from the register: once an LED has been set *)
(* by a task that still has the device open, the two agree, except between    *)
(* the two assignments of led_set.                                            *)
ShadowMatchesRegister(m) ==
  \A l \in Led :
    /\ \E p \in Process : mine[p][l] # Unset
    /\ \A p \in Process : pc[p] = "shadow" => cmd[p].led # l
    => (led_state[m][l] = LED_ON <=> l \notin gpndat)

(* With the device open to one task, that task reads back what it set. *)
ReadsOwnWrites ==
  \A p \in Process :
    pc[p] = "reply" /\ mine[p][cmd[p].led] # Unset => val[p] = mine[p][cmd[p].led]
===============================================================================
