------------------------------- MODULE ByteFifo -------------------------------
(***************************************************************************)
(* What globalfifo promises its callers: a bounded byte stream.  Bytes      *)
(* enter at the back from a writer's own buffer and leave at the front into *)
(* a reader's own buffer, in order, each exactly once; a call that returns  *)
(* n > 0 has moved n bytes; bytes are dropped only for a caller that asked  *)
(* for FIFO_CLEAR.  Nothing is said about locks, sleeping or memory layout. *)
(***************************************************************************)
EXTENDS Integers, Sequences

CONSTANTS Process,    \* the callers
          Capacity    \* GLOBALFIFO_SIZE

VARIABLES fifo,       \* the bytes accepted and not yet delivered, oldest first
          buf,        \* buf[p]: the bytes in the buffer p passed to the driver
          result,     \* result[p]: what p's call is going to return
          clearing    \* callers that asked for FIFO_CLEAR and wait for it

vars == <<fifo, buf, result, clearing>>

Init == /\ fifo = << >>
        /\ buf = [p \in Process |-> << >>]
        /\ result = [p \in Process |-> 0]
        /\ clearing = {}

(* A call about to return n > 0 keeps that result and the bytes it is about. *)
KeepResults == \A p \in Process :
                 result'[p] > 0 => result'[p] = result[p] /\ buf'[p] = buf[p]

(* A write accepts a prefix of the caller's buffer that fits. *)
Put(p) == \E k \in 0..Len(buf[p]) :
            /\ Len(fifo) + k <= Capacity
            /\ fifo' = fifo \o SubSeq(buf[p], 1, k)
            /\ result' = [result EXCEPT ![p] = k]
            /\ UNCHANGED <<buf, clearing>>

(* A read removes from the front exactly the bytes its caller now holds. *)
Take(p) == /\ Len(buf[p]) <= Len(fifo)
           /\ SubSeq(fifo, 1, Len(buf[p])) = buf[p]
           /\ fifo' = SubSeq(fifo, Len(buf[p]) + 1, Len(fifo))
           /\ result' = [result EXCEPT ![p] = Len(buf[p])]
           /\ UNCHANGED <<buf, clearing>>

Clear(p) == /\ p \in clearing
            /\ clearing' = clearing \ {p}
            /\ fifo' = << >>
            /\ KeepResults

(* Calls begin, fail and end, and bytes are copied to and from user space: *)
(* that alone never changes what is stored.                                *)
Other == /\ UNCHANGED fifo
         /\ clearing \subseteq clearing'
         /\ KeepResults

Next == \/ \E p \in Process : Put(p) \/ Take(p) \/ Clear(p)
        \/ Other

Spec == Init /\ [][Next]_vars
===============================================================================
