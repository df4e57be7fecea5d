------------------------------- MODULE GlobalMem -------------------------------
(***************************************************************************)
(* globalmem.c and globalmem_two.c: an array of bytes behind read, write,   *)
(* llseek and ioctl, without a lock.  The copy to or from user memory may   *)
(* sleep at any byte, and other calls run meanwhile.                        *)
(*                                                                          *)
(* The position of a file belongs to the kernel: sys_read() and sys_write() *)
(* hand the driver a copy of f_pos and store it back when the driver is     *)
(* done, whatever it returned, while llseek changes f_pos itself.  Threads  *)
(* that share a file can lose each other's moves.                           *)
(*                                                                          *)
(* A position is a loff_t; the driver keeps it in an unsigned long and cuts *)
(* offsets to an unsigned int, both of WordSize values.                     *)
(***************************************************************************)
EXTENDS Integers, Sequences

CONSTANTS Task, File, NoMinor,
          Zero,             \* the byte that MEM_CLEAR and a fault store
          Data,             \* the bytes that callers write
          Drivers,          \* which drivers: a set of "globalmem", "globalmem_two"
          Size,             \* GLOBALMEM_SIZE
          WordSize,         \* 2^32
          LoffMax,          \* loff_t is -LoffMax-1 .. LoffMax
          Counts,           \* the sizes callers pass
          Offsets           \* the offsets they seek

ASSUME SizeAssumption == Size \in Nat \ {0} /\ WordSize \in Nat /\ Size < WordSize
ASSUME LoffAssumption == LoffMax \in Nat /\ WordSize <= LoffMax + 1
ASSUME CountsAssumption == Counts \subseteq 0 .. WordSize - 1
ASSUME OffsetsAssumption == Offsets \subseteq -LoffMax - 1 .. LoffMax

Loff  == -LoffMax - 1 .. LoffMax
Index == 0 .. Size - 1
Byte  == Data \union {Zero}

(* 64-bit and 32-bit arithmetic. *)
Wrap(n)     == ((n + LoffMax + 1) % (2 * (LoffMax + 1))) - LoffMax - 1
Truncate(n) == n % WordSize

VARIABLES
  driver,           \* the driver that is loaded
  mem,              \* mem[d]: the array of device d
  inode,            \* inode[f]: the minor through which f was opened
  private_data,     \* private_data[f]: the device f was given by open
  f_pos,
  call,             \* call[p]: the read or write that p is in
  expected,         \* ghost: f_pos[f] as its user can work it out, or Lost
  ended             \* ghost: the files that used SEEK_END

fileVars == <<inode, private_data, f_pos, expected, ended>>
vars     == <<driver, mem, fileVars, call>>

Minor == 0 .. 1
Lost  == LoffMax + 1

Idle    == [op |-> "none"]
Busy(f) == \E p \in Task : call[p] # Idle /\ call[p].file = f

Init == /\ driver \in Drivers
        /\ mem = [d \in Minor |-> [i \in Index |-> Zero]]
        /\ inode = [f \in File |-> NoMinor] /\ private_data = [f \in File |-> NoMinor]
        /\ f_pos = [f \in File |-> 0] /\ expected = [f \in File |-> 0] /\ ended = {}
        /\ call = [p \in Task |-> Idle]
-------------------------------------------------------------------------------
(* open and release *)

Registered == IF driver = "globalmem" THEN {0} ELSE Minor

(* Variant: the second driver gives every file the first device, like the first. *)
DeviceFirst(minor) == 0

(* globalmem_devp, or the device around the inode's cdev. *)
Device(minor) == IF driver = "globalmem" THEN 0 ELSE minor

Open(f) == /\ inode[f] = NoMinor
           /\ \E minor \in Registered :
                /\ inode' = [inode EXCEPT ![f] = minor]
                /\ private_data' = [private_data EXCEPT ![f] = Device(minor)]
           /\ UNCHANGED <<driver, mem, f_pos, expected, ended, call>>

Release(f) == /\ inode[f] # NoMinor /\ ~Busy(f)
              /\ inode' = [inode EXCEPT ![f] = NoMinor]
              /\ private_data' = [private_data EXCEPT ![f] = NoMinor]
              /\ f_pos' = [f_pos EXCEPT ![f] = 0] /\ expected' = [expected EXCEPT ![f] = 0]
              /\ ended' = ended \ {f}
              /\ UNCHANGED <<driver, mem, call>>
-------------------------------------------------------------------------------
(* read and write *)

(* rw_verify_area() of the kernel. *)
AreaAllowed(pos, n) == pos >= 0 /\ pos + n <= LoffMax

(* Variant: the whole request is copied. *)
ClampNone(p, n) == n

Clamp(p, n) == IF n > Size - p THEN Size - p ELSE n

PastEnd(at) == at >= Size

(* A call at a position past the array, or one the kernel does not allow, changes *)
(* nothing.                                                                       *)
Start(p, f, op, n) ==
  LET at == Truncate(f_pos[f])
  IN  /\ call[p] = Idle /\ inode[f] # NoMinor
      /\ AreaAllowed(f_pos[f], n) /\ ~PastEnd(at)
      /\ call' = [call EXCEPT ![p] = [op |-> op, file |-> f, ppos |-> f_pos[f], at |-> at,
                                      count |-> Clamp(at, n), data |-> << >>, alone |-> TRUE]]
      /\ expected' = [expected EXCEPT ![f] = IF Busy(f) THEN Lost ELSE @]
      /\ UNCHANGED <<driver, mem, inode, private_data, f_pos, ended>>

DeviceOf(p) == private_data[call[p].file]
Left(p)     == call[p].count - Len(call[p].data)
Here(p)     == call[p].at + Len(call[p].data)

(* The calls, after one of p that changed device d: the others saw it change. *)
Disturbed(p, d) == [q \in Task |-> IF q # p /\ call[q] # Idle /\ DeviceOf(q) = d
                                   THEN [call[q] EXCEPT !.alone = FALSE] ELSE call[q]]

(* Variant: the data are taken from the start of the array. *)
CopyOutFromStart(p) ==
  /\ call[p].op = "read" /\ Left(p) > 0
  /\ call' = [call EXCEPT ![p].data = Append(@, mem[DeviceOf(p)][Len(@)])]
  /\ UNCHANGED <<driver, mem, fileVars>>

CopyOut(p) == /\ call[p].op = "read" /\ Left(p) > 0
              /\ call' = [call EXCEPT ![p].data = Append(@, mem[DeviceOf(p)][Here(p)])]
              /\ UNCHANGED <<driver, mem, fileVars>>

CopyIn(p) == /\ call[p].op = "write" /\ Left(p) > 0
             /\ \E b \in Data :
                  /\ mem' = [mem EXCEPT ![DeviceOf(p)][Here(p)] = b]
                  /\ call' = [Disturbed(p, DeviceOf(p)) EXCEPT ![p].data = Append(@, b)]
             /\ UNCHANGED <<driver, fileVars>>

StoreBack(f, pos) == f_pos' = [f_pos EXCEPT ![f] = pos]

(* Variant: the position moves by what was copied before the fault. *)
PositionAfterPart(p) == call[p].ppos + Len(call[p].data)

PositionAfterFault(p) == call[p].ppos

(* -EFAULT: the position handed in is stored back; a write leaves zeros in the part *)
(* of the array it did not reach.                                                   *)
Fault(p) ==
  /\ call[p] # Idle /\ Left(p) > 0
  /\ \/ /\ call[p].op = "read"
        /\ UNCHANGED mem
        /\ call' = [call EXCEPT ![p] = Idle]
     \/ /\ call[p].op = "write"
        /\ mem' = [mem EXCEPT ![DeviceOf(p)] =
                     [i \in Index |-> IF i \in Here(p) .. Here(p) + Left(p) - 1 THEN Zero ELSE @[i]]]
        /\ call' = [Disturbed(p, DeviceOf(p)) EXCEPT ![p] = Idle]
  /\ StoreBack(call[p].file, PositionAfterFault(p))
  /\ UNCHANGED <<driver, inode, private_data, expected, ended>>

Finish(p) == /\ call[p] # Idle /\ Left(p) = 0
             /\ LET f == call[p].file
                IN  /\ StoreBack(f, call[p].ppos + call[p].count)
                    /\ expected' = [expected EXCEPT ![f] = IF @ = Lost THEN @ ELSE @ + call[p].count]
             /\ call' = [call EXCEPT ![p] = Idle]
             /\ UNCHANGED <<driver, mem, inode, private_data, ended>>
-------------------------------------------------------------------------------
(* llseek *)

Refused == Lost             \* -EINVAL, with the position left alone

SeekSet(offset) == IF offset < 0 \/ Truncate(offset) > Size THEN Refused ELSE Truncate(offset)

(* Variants: the sum is cut to 32 bits before it is compared; it is not compared with *)
(* the size.                                                                            *)
SeekCurTruncated(pos, offset) ==
  IF Truncate(pos + offset) > Size THEN Refused ELSE Truncate(pos + offset)
SeekCurUnbounded(pos, offset) ==
  IF Wrap(pos + offset) < 0 THEN Refused ELSE Wrap(pos + offset)

SeekCur(pos, offset) ==
  IF Wrap(pos + offset) > Size \/ Wrap(pos + offset) < 0 THEN Refused ELSE Wrap(pos + offset)

SeekEnd(offset) == Wrap(Size + offset)

Seek(f, pos) == /\ pos # Refused
                /\ f_pos' = [f_pos EXCEPT ![f] = pos]
                /\ UNCHANGED <<driver, mem, inode, private_data, call>>

(* A seek between other calls tells its user the position; after one that races with  *)
(* a call nobody can say.                                                             *)
Llseek(f, offset) ==
  /\ inode[f] # NoMinor
  /\ \/ /\ Seek(f, SeekSet(offset)) /\ UNCHANGED ended
        /\ expected' = [expected EXCEPT ![f] = IF Busy(f) THEN Lost ELSE f_pos'[f]]
     \/ /\ Seek(f, SeekCur(f_pos[f], offset)) /\ UNCHANGED ended
        /\ expected' = [expected EXCEPT ![f] = IF Busy(f) \/ @ = Lost THEN Lost ELSE f_pos'[f]]
     \/ /\ driver = "globalmem"
        /\ Seek(f, SeekEnd(offset)) /\ ended' = ended \union {f}
        /\ expected' = [expected EXCEPT ![f] = IF Busy(f) THEN Lost ELSE f_pos'[f]]

(* ioctl with MEM_CLEAR, under the big kernel lock; memset() does not sleep. *)
MemClear(p, f) ==
  /\ call[p] = Idle /\ inode[f] # NoMinor
  /\ mem' = [mem EXCEPT ![private_data[f]] = [i \in Index |-> Zero]]
  /\ call' = Disturbed(p, private_data[f])
  /\ UNCHANGED <<driver, fileVars>>
-------------------------------------------------------------------------------
Next == \/ \E f \in File : Open(f) \/ Release(f)
        \/ \E p \in Task, f \in File :
             \/ \E op \in {"read", "write"}, n \in Counts : Start(p, f, op, n)
             \/ MemClear(p, f)
        \/ \E p \in Task : CopyOut(p) \/ CopyIn(p) \/ Fault(p) \/ Finish(p)
        \/ \E f \in File, offset \in Offsets : Llseek(f, offset)

Spec == Init /\ [][Next]_vars
-------------------------------------------------------------------------------
Call == {Idle} \union
        [op : {"read", "write"}, file : File, ppos : Loff, at : Index, count : 0 .. Size,
         data : UNION {[1 .. n -> Byte] : n \in 0 .. Size}, alone : BOOLEAN]

(* Types. *)
TypeOK == /\ driver \in Drivers /\ mem \in [Minor -> [Index -> Byte]]
          /\ inode \in [File -> Minor \union {NoMinor}]
          /\ private_data \in [File -> Minor \union {NoMinor}]
          /\ f_pos \in [File -> Loff] /\ expected \in [File -> Loff \union {Lost}]
          /\ call \in [Task -> Call] /\ ended \subseteq File

(* A copy stays within the array, wherever SEEK_END or a racing call has left the *)
(* position it started from: past 2^32 the position and p differ.                 *)
CopyWithinMem ==
  \A p \in Task : call[p] # Idle =>
     /\ inode[call[p].file] # NoMinor
     /\ Here(p) \in 0 .. Size /\ Left(p) \in 0 .. Size - Here(p)

(* Only SEEK_END takes a position out of the array (one past its end is allowed): *)
(* no read, write or seek does, nor several that race on one file.                *)
PositionInRange == \A f \in File : f \in ended \/ f_pos[f] \in 0 .. Size

(* The position is where its user's own calls have taken it, unless two of them     *)
(* overlapped on one file: calls on other files do not count, failed ones neither.  *)
PositionAddsUp == \A f \in File : expected[f] # Lost => f_pos[f] = expected[f]

(* A call during which nobody else changed its device has read the bytes of the      *)
(* array at the position, or left its own there.                                     *)
UndisturbedCallIsExact ==
  \A p \in Task : call[p] # Idle /\ call[p].alone =>
     \A i \in 1 .. Len(call[p].data) :
        mem[inode[call[p].file]][call[p].at + i - 1] = call[p].data[i]

(* From a position in the array, a seek relative to it and any seek of less than 2^32 *)
(* arrive where plain integers would, and are refused exactly when that is outside.   *)
SeekIsInteger ==
  \A f \in File, offset \in Loff : f_pos[f] \in 0 .. Size =>
     LET Plain(n) == IF n \in 0 .. Size THEN n ELSE Refused
     IN  /\ SeekCur(f_pos[f], offset) = Plain(f_pos[f] + offset)
         /\ offset < WordSize => SeekSet(offset) = Plain(offset)

(* A byte of a device changes only by a write through a file of that device, within *)
(* what the write asked for, or to zero.                                            *)
OnlyItsWritersChange ==
  [][\A d \in Minor, i \in Index : mem'[d][i] # mem[d][i] =>
        \/ \E p \in Task : /\ call[p] # Idle /\ call[p].op = "write"
                           /\ inode[call[p].file] = d
                           /\ i \in call[p].at .. call[p].at + call[p].count - 1
        \/ mem'[d] = [j \in Index |-> Zero] /\ \E f \in File : inode[f] = d]_vars
===============================================================================
