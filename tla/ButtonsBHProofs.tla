---------------------------- MODULE ButtonsBHProofs ----------------------------
(***************************************************************************)
(* Proofs about the key drivers with a bottom half, for any number of keys  *)
(* and tasks: no press is left without a bottom half, and the tasklet's     *)
(* last message is about the last press.                                    *)
(***************************************************************************)
EXTENDS ButtonsBH, TLAPS

(* Between getpin and the message the tasklet has the pin of the last press, and *)
(* otherwise it has printed it, unless a press has come that it has not read.    *)
MessageFollowsPin ==
  kind = "tasklet" /\ ~unread =>
    /\ bottom = "print" => value_of = irq_pin
    /\ bottom # "print" => printed = [pin |-> irq_pin, shows |-> irq_pin]

HandlerPlaces == handler \in [Key -> {"idle", "schedule"}]

IInv == HandlerPlaces /\ PressHasBottomHalf /\ MessageFollowsPin
-------------------------------------------------------------------------------
(* The initial states: nothing is unread, and irq_pin and the message name no pin. *)
LEMMA Initially == Init => IInv
  BY DEF Init, IInv, HandlerPlaces, PressHasBottomHalf, MessageFollowsPin

(* Every step keeps both: only HandlerStore makes something unread, and it leaves *)
(* its handler about to schedule; only BottomGetpin reads it.                      *)
LEMMA Inductive == IInv /\ [Next]_vars => IInv'
<1> SUFFICES ASSUME IInv, [Next]_vars
             PROVE  IInv'
  OBVIOUS
<1> USE DEF IInv, HandlerPlaces, PressHasBottomHalf, MessageFollowsPin
<1>1. ASSUME NEW k \in Key, KeyMoves(k)
      PROVE  IInv'
  BY <1>1 DEF KeyMoves, bottomVars
<1>2. ASSUME NEW k \in Key, HandlerStore(k)
      PROVE  IInv'
  <2>1. unread' /\ UNCHANGED bottomVars
    BY <1>2 DEF HandlerStore
  <2>2. handler' \in [Key -> {"idle", "schedule"}] /\ handler'[k] = "schedule"
    BY <1>2 DEF HandlerStore
  <2> QED
    BY <2>1, <2>2
<1>3. ASSUME NEW k \in Key, HandlerSchedule(k)
      PROVE  IInv'
  <2>1. /\ queued' /\ handler' \in [Key -> {"idle", "schedule"}]
        /\ UNCHANGED <<kind, irq_pin, bottom, value_of, printed, unread>>
    BY <1>3 DEF HandlerSchedule
  <2> QED
    BY <2>1
<1>4. ASSUME NEW p \in Task, Lines(p)
      PROVE  IInv'
  BY <1>4 DEF Lines, bottomVars
<1>5. ASSUME BottomStart
      PROVE  IInv'
  BY <1>5 DEF BottomStart
<1>6. ASSUME BottomGetpin
      PROVE  IInv'
  <2>1. /\ ~unread' /\ bottom' = "print" /\ value_of' = PinArgument
        /\ UNCHANGED <<kind, irq_pin, handler>>
    BY <1>6 DEF BottomGetpin
  <2> QED
    BY <2>1 DEF PinArgument
<1>7. ASSUME BottomPrint
      PROVE  IInv'
  <2>1. /\ bottom = "print" /\ bottom' = "idle"
        /\ printed' = [pin |-> PinArgument, shows |-> value_of]
        /\ UNCHANGED <<kind, irq_pin, handler, queued, unread>>
    BY <1>7 DEF BottomPrint
  <2>2. PressHasBottomHalf'
    BY <2>1
  <2>3. MessageFollowsPin'
    BY <2>1 DEF PinArgument
  <2> QED
    BY <2>1, <2>2, <2>3
<1>8. CASE UNCHANGED vars
  BY <1>8 DEF vars, bottomVars
<1> QED
  BY <1>1, <1>2, <1>3, <1>4, <1>5, <1>6, <1>7, <1>8 DEF Next, BottomHalf

THEOREM Invariance == Spec => []IInv
  BY Initially, Inductive, PTL DEF Spec
-------------------------------------------------------------------------------
(* A press that no getpin of the bottom half has followed always has one coming,   *)
(* whatever handlers nest and wherever the bottom half is.                         *)
THEOREM EveryPressHasBottomHalf == Spec => []PressHasBottomHalf
<1>1. IInv => PressHasBottomHalf
  BY DEF IInv
<1> QED
  BY <1>1, Invariance, PTL

(* When all is quiet the tasklet's last message names the key of the last press and *)
(* shows that key's state, although irq_pin is one variable that every press writes. *)
THEOREM LastPressIsReported == Spec => []LatestPressReported
<1>1. IInv => LatestPressReported
  BY DEF IInv, PressHasBottomHalf, MessageFollowsPin, LatestPressReported, Quiet
<1> QED
  BY <1>1, Invariance, PTL
===============================================================================
