------------------------------- MODULE ButtonsBH -------------------------------
(***************************************************************************)
(* The key drivers with a bottom half, char_driver/5/interrupt_bh:          *)
(* buttons_tsklet.c with a tasklet, buttons_workqueue.c with a work item.   *)
(* The handler leaves the pin of its key in irq_pin, one variable for all   *)
(* keys, and schedules the bottom half, which prints that pin's state.      *)
(*                                                                          *)
(* Handlers of different keys nest (they are not registered with            *)
(* IRQF_DISABLED), and may run, on another processor, beside the bottom     *)
(* half.  The bottom half runs once at a time.                              *)
(***************************************************************************)
EXTENDS ButtonLines

CONSTANT Bottom         \* which drivers: a set of "tasklet", "work"

ASSUME BottomAssumption == Bottom \subseteq {"tasklet", "work"} /\ Bottom # {}

NoPin   == N            \* irq_pin before the first interrupt
Garbage == N + 1        \* the first word of a work_struct, taken for a pin

VARIABLES
  kind,         \* the driver that is loaded
  irq_pin,
  handler,      \* handler[k]: where the handler of key k is
  queued,       \* the bottom half is scheduled and has not been started
  bottom,       \* where the bottom half is
  value_of,     \* the pin whose state is in buttons_value
  printed,      \* the last message: the pin named, and the pin whose state it shows
  unread        \* ghost: irq_pin was stored and the bottom half has not been at its
                \* getpin since

bottomVars == <<queued, bottom, value_of, printed>>
vars == <<lineVars, kind, irq_pin, handler, bottomVars, unread>>

Init == /\ LinesInit /\ kind \in Bottom
        /\ irq_pin = NoPin /\ handler = [k \in Key |-> "idle"]
        /\ queued = FALSE /\ bottom = "idle" /\ value_of = NoPin
        /\ printed = [pin |-> NoPin, shows |-> NoPin]
        /\ unread = FALSE

(* The argument of the bottom half, dereferenced: a tasklet gets &irq_pin, as      *)
(* declared; a work function gets its work_struct.                                 *)
PinArgument == IF kind = "tasklet" THEN irq_pin ELSE Garbage
-------------------------------------------------------------------------------
(* The lines are requested for falling edges: key presses. *)
KeyMoves(k) == Toggle(k, {1}) /\ UNCHANGED <<kind, irq_pin, handler, bottomVars, unread>>

(* open and close; free_irq() waits for the line's handler. *)
Lines(p) == /\ \/ OpenCall(p) \/ RequestIrq(p) \/ UnwindIrq(p) \/ OpenDone(p)
               \/ CloseCall(p) \/ CloseIrq(p)
            /\ \A k \in Key : irq'[k] # irq[k] => handler[k] = "idle"
            /\ UNCHANGED <<kind, irq_pin, handler, bottomVars, unread>>
-------------------------------------------------------------------------------
(* the handler, in two steps: store, then schedule *)

(* Variant: a press of the key that irq_pin holds already is not passed on. *)
HandlerStoreChange(k) ==
  /\ Interrupt(k) /\ handler[k] = "idle"
  /\ irq_pin' = k /\ unread' = TRUE
  /\ handler' = [handler EXCEPT ![k] = IF irq_pin = k THEN "idle" ELSE "schedule"]
  /\ UNCHANGED <<kind, bottomVars>>

HandlerStore(k) == /\ Interrupt(k) /\ handler[k] = "idle"
                   /\ irq_pin' = k /\ unread' = TRUE
                   /\ handler' = [handler EXCEPT ![k] = "schedule"]
                   /\ UNCHANGED <<kind, bottomVars>>

(* Scheduling what is scheduled already does nothing; what is running already *)
(* will run again.                                                            *)
HandlerSchedule(k) == /\ handler[k] = "schedule"
                      /\ queued' = TRUE
                      /\ handler' = [handler EXCEPT ![k] = "idle"]
                      /\ UNCHANGED <<lineVars, kind, irq_pin, bottom, value_of, printed, unread>>
-------------------------------------------------------------------------------
(* the bottom half *)

BottomStart == /\ queued /\ bottom = "idle"
               /\ queued' = FALSE /\ bottom' = "getpin"
               /\ UNCHANGED <<lineVars, kind, irq_pin, handler, value_of, printed, unread>>

BottomGetpin == /\ bottom = "getpin"
                /\ value_of' = PinArgument /\ unread' = FALSE
                /\ bottom' = "print"
                /\ UNCHANGED <<lineVars, kind, irq_pin, handler, queued, printed>>

(* Variant: the bottom half is marked as done when it ends. *)
BottomPrintClears ==
  /\ bottom = "print"
  /\ printed' = [pin |-> PinArgument, shows |-> value_of]
  /\ bottom' = "idle" /\ queued' = FALSE
  /\ UNCHANGED <<lineVars, kind, irq_pin, handler, value_of, unread>>

(* The message names what the argument points to by now. *)
BottomPrint == /\ bottom = "print"
               /\ printed' = [pin |-> PinArgument, shows |-> value_of]
               /\ bottom' = "idle"
               /\ UNCHANGED <<lineVars, kind, irq_pin, handler, queued, value_of, unread>>
-------------------------------------------------------------------------------
BottomHalf == BottomStart \/ BottomGetpin \/ BottomPrint

Next == \/ \E k \in Key : KeyMoves(k) \/ HandlerStore(k) \/ HandlerSchedule(k)
        \/ \E p \in Task : Lines(p)
        \/ BottomHalf

Spec == Init /\ [][Next]_vars

(* A handler that has begun goes on, and softirqs and keventd get their turn. *)
FairSpec == Spec /\ (\A k \in Key : WF_vars(HandlerSchedule(k))) /\ WF_vars(BottomHalf)
-------------------------------------------------------------------------------
Pin == Key \union {NoPin, Garbage}

(* Types. *)
TypeOK == /\ LinesTypeOK /\ pc \in [Task -> LineLabel]
          /\ kind \in Bottom /\ irq_pin \in Key \union {NoPin}
          /\ handler \in [Key -> {"idle", "schedule"}]
          /\ queued \in BOOLEAN /\ bottom \in {"idle", "getpin", "print"}
          /\ value_of \in Pin /\ printed \in [pin : Pin, shows : Pin]
          /\ unread \in BOOLEAN

Quiet == ~queued /\ bottom = "idle" /\ \A k \in Key : handler[k] = "idle"

(* A press after which no bottom half has read a pin has one coming: scheduled,     *)
(* started and not yet at getpin, or about to be scheduled by a handler.  The        *)
(* tasklet then reads the key's pin; the work item reads a pin that is none          *)
(* (PinArgument), and of it this only says that it runs after every press.           *)
PressHasBottomHalf ==
  unread => queued \/ bottom = "getpin" \/ \E k \in Key : handler[k] = "schedule"

(* However presses overwrite irq_pin, when all is quiet the tasklet's last message *)
(* was about the last press, and shows the state of the key it names.              *)
LatestPressReported ==
  kind = "tasklet" /\ Quiet => printed = [pin |-> irq_pin, shows |-> irq_pin]

(* Every press is followed by a getpin of the bottom half: in the tasklet a look at *)
(* the pin in irq_pin, in the work item no more than a run of it.                    *)
PressIsLookedAt == unread ~> ~unread

(* A message shows the state of the key it names: the format of line 56, "buttons-%d *)
(* Pressed, value is 0x%x", puts a key and the value of its pin side by side.         *)
MessageIsOfOneKey == printed.pin = printed.shows
===============================================================================
