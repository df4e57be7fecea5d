---------------------------- MODULE GlobalMemProofs ----------------------------
(***************************************************************************)
(* Proofs about the unlocked memory drivers, for any sizes, widths, tasks   *)
(* and files: no copy leaves the array, where positions can be, and what    *)
(* calls that do not overlap can rely on.                                   *)
(***************************************************************************)
EXTENDS GlobalMem, TLAPS

(* A value below the width of an unsigned int is not changed by cutting it. *)
LEMMA TruncateSmall ==
  ASSUME NEW n \in 0 .. Size
  PROVE  Truncate(n) = n
  BY SizeAssumption DEF Truncate

LEMMA TruncateRange ==
  ASSUME NEW n \in Int
  PROVE  Truncate(n) \in Nat /\ Truncate(n) < WordSize
  BY SizeAssumption DEF Truncate

LEMMA WrapRange ==
  ASSUME NEW n \in Int
  PROVE  Wrap(n) \in Loff
  BY LoffAssumption DEF Wrap, Loff
-------------------------------------------------------------------------------
CallRecord == [op : {"read", "write"}, file : File, ppos : Int, at : Index, count : 0 .. Size,
               data : Seq(Byte), alone : BOOLEAN]

(* The types that the proofs need; a file's device is the one it was opened through. *)
Types == /\ mem \in [Minor -> [Index -> Byte]]
         /\ inode \in [File -> Minor \union {NoMinor}] /\ private_data = inode
         /\ f_pos \in [File -> Int] /\ expected \in [File -> Int]
         /\ call \in [Task -> CallRecord \union {Idle}]

(* A call is on an open file and has a clamped count, of which data is the part done. *)
CallsFit == \A p \in Task : call[p] # Idle =>
               /\ inode[call[p].file] # NoMinor
               /\ call[p].count <= Size - call[p].at
               /\ Len(call[p].data) <= call[p].count

Base == Types /\ CallsFit

(* The shape of the steps inside a call. *)
LEMMA IdleIsNoRecord ==
  /\ Idle \notin CallRecord
  /\ \A c \in CallRecord : c.op # Idle.op
  BY DEF Idle, CallRecord

LEMMA InCall ==
  ASSUME Base, NEW p \in Task, call[p] # Idle
  PROVE  /\ call[p] \in CallRecord /\ call[p].file \in File
         /\ DeviceOf(p) \in Minor /\ DeviceOf(p) = inode[call[p].file]
         /\ Len(call[p].data) \in Nat /\ Left(p) \in 0 .. Size
         /\ Here(p) \in 0 .. Size /\ Left(p) <= Size - Here(p)
         /\ Left(p) > 0 => Here(p) \in Index
<1>1. call[p] \in CallRecord
  BY DEF Base, Types
<1>2. /\ call[p].file \in File /\ call[p].at \in Index /\ call[p].count \in 0 .. Size
      /\ call[p].data \in Seq(Byte)
  BY <1>1 DEF CallRecord
<1>3. Len(call[p].data) \in Nat
  BY <1>2
<1>4. DeviceOf(p) \in Minor /\ DeviceOf(p) = inode[call[p].file]
  BY <1>2 DEF DeviceOf, Base, Types, CallsFit
<1>5. call[p].count <= Size - call[p].at /\ Len(call[p].data) <= call[p].count
  BY DEF Base, CallsFit
<1>6. /\ Left(p) \in 0 .. Size /\ Here(p) \in 0 .. Size
      /\ Left(p) <= Size - Here(p) /\ (Left(p) > 0 => Here(p) \in Index)
  <2> DEFINE a == call[p].at  c == call[p].count  n == Len(call[p].data)
  <2>1. /\ a \in Nat /\ a < Size /\ c \in Nat /\ c <= Size - a /\ n \in Nat /\ n <= c
        /\ Size \in Nat
    BY <1>2, <1>3, <1>5, SizeAssumption DEF Index
  <2>2. Left(p) = c - n /\ Here(p) = a + n
    BY DEF Left, Here
  <2> HIDE DEF a, c, n
  <2> QED
    BY <2>1, <2>2 DEF Index
<1> QED
  BY <1>1, <1>2, <1>3, <1>4, <1>6

LEMMA DisturbedCalls ==
  ASSUME Base, NEW p \in Task, NEW d, NEW q \in Task
  PROVE  /\ Disturbed(p, d)[q] \in CallRecord \union {Idle}
         /\ Disturbed(p, d)[q] = Idle <=> call[q] = Idle
         /\ call[q] # Idle => /\ Disturbed(p, d)[q].op = call[q].op
                              /\ Disturbed(p, d)[q].file = call[q].file
                              /\ Disturbed(p, d)[q].ppos = call[q].ppos
                              /\ Disturbed(p, d)[q].at = call[q].at
                              /\ Disturbed(p, d)[q].count = call[q].count
                              /\ Disturbed(p, d)[q].data = call[q].data
         /\ q # p /\ call[q] # Idle /\ DeviceOf(q) = d => ~Disturbed(p, d)[q].alone
         /\ q = p \/ call[q] = Idle \/ DeviceOf(q) # d => Disturbed(p, d)[q] = call[q]
<1>1. call[q] # Idle => call[q] \in CallRecord
  BY DEF Base, Types
<1>2. CASE q # p /\ call[q] # Idle /\ DeviceOf(q) = d
  <2>1. Disturbed(p, d)[q] = [call[q] EXCEPT !.alone = FALSE]
    BY <1>2 DEF Disturbed
  <2>2. [call[q] EXCEPT !.alone = FALSE] \in CallRecord
    BY <1>1, <1>2 DEF CallRecord
  <2>3. [call[q] EXCEPT !.alone = FALSE] # Idle
    BY <2>2, IdleIsNoRecord
  <2> QED
    BY <1>1, <1>2, <2>1, <2>2, <2>3 DEF CallRecord
<1>3. CASE ~(q # p /\ call[q] # Idle /\ DeviceOf(q) = d)
  BY <1>1, <1>3 DEF Disturbed
<1> QED
  BY <1>2, <1>3
-------------------------------------------------------------------------------
(* Positions *)

(* A file that never used SEEK_END is at a position of the array, and its calls work *)
(* at the position they were given.                                                  *)
Positions == /\ PositionInRange
             /\ \A p \in Task : call[p] # Idle /\ call[p].file \notin ended =>
                                  call[p].ppos = call[p].at

(* A position that its user knows is that of the file, and the one call on it has it. *)
Known == /\ PositionAddsUp
         /\ \A p \in Task : call[p] # Idle /\ expected[call[p].file] # Lost =>
                              call[p].ppos = f_pos[call[p].file]
         /\ \A p, q \in Task :
              call[p] # Idle /\ call[q] # Idle /\ call[p].file = call[q].file
                /\ expected[call[p].file] # Lost => p = q

IInv == Base /\ Positions /\ Known /\ UndisturbedCallIsExact

(* The call of q goes on as it is, but for its data. *)
SameCall(q) == /\ call'[q] = Idle <=> call[q] = Idle
               /\ call[q] # Idle => /\ call'[q].file = call[q].file
                                    /\ call'[q].ppos = call[q].ppos
                                    /\ call'[q].at = call[q].at
                                    /\ call'[q].count = call[q].count

LEMMA PositionsKept ==
  ASSUME IInv, UNCHANGED <<f_pos, expected, ended>>, \A q \in Task : SameCall(q)
  PROVE  Positions' /\ Known'
  BY DEF IInv, Positions, Known, PositionInRange, PositionAddsUp, SameCall

(* A call ends, and its file is at v, which its user knows or not (e). *)
LEMMA PositionsAfterCall ==
  ASSUME IInv, NEW p \in Task, call[p] # Idle, NEW f \in File, f = call[p].file,
         NEW v \in Int, NEW e \in Int,
         f_pos' = [f_pos EXCEPT ![f] = v], expected' = [expected EXCEPT ![f] = e],
         UNCHANGED ended, call'[p] = Idle, \A q \in Task \ {p} : SameCall(q),
         f \notin ended => v \in 0 .. Size,
         e # Lost => expected[f] # Lost /\ e = v
  PROVE  Positions' /\ Known'
<1>t. f_pos \in [File -> Int] /\ expected \in [File -> Int]
  BY DEF IInv, Base, Types
<1>f. \A q \in Task : call[q] # Idle => call[q].file \in File
  BY InCall DEF IInv
<1>1. PositionInRange' /\ PositionAddsUp'
  BY <1>t DEF IInv, Positions, Known, PositionInRange, PositionAddsUp
<1>2. ASSUME NEW q \in Task, call'[q] # Idle
      PROVE  /\ q # p /\ call[q] # Idle
             /\ call'[q].file = call[q].file /\ call'[q].ppos = call[q].ppos
             /\ call'[q].at = call[q].at
  BY <1>2 DEF SameCall
<1>3. \A q \in Task : call'[q] # Idle /\ call'[q].file \notin ended' => call'[q].ppos = call'[q].at
  BY <1>2 DEF IInv, Positions
<1>4. ASSUME NEW q \in Task, call'[q] # Idle, expected'[call'[q].file] # Lost
      PROVE  call[q].file # f /\ expected[call[q].file] # Lost
  <2>1. q # p /\ call[q] # Idle /\ call'[q].file = call[q].file /\ call[q].file \in File
    BY <1>2, <1>4, <1>f
  <2>2. CASE call[q].file = f
    <3>1. expected[f] # Lost
      BY <1>4, <2>1, <2>2, <1>t
    <3> QED
      BY <2>1, <2>2, <3>1 DEF IInv, Known
  <2>3. CASE call[q].file # f
    BY <1>4, <2>1, <2>3, <1>t
  <2> QED
    BY <2>2, <2>3
<1>5. \A q \in Task : call'[q] # Idle /\ expected'[call'[q].file] # Lost =>
                        call'[q].ppos = f_pos'[call'[q].file]
  BY <1>2, <1>4, <1>f, <1>t DEF IInv, Known
<1>6. \A q, r \in Task : call'[q] # Idle /\ call'[r] # Idle /\ call'[q].file = call'[r].file
                           /\ expected'[call'[q].file] # Lost => q = r
  BY <1>2, <1>4 DEF IInv, Known
<1> QED
  BY <1>1, <1>3, <1>5, <1>6 DEF Positions, Known

(* A file is put at v between calls, or during them, which leaves its user not knowing. *)
LEMMA PositionsAfterSeek ==
  ASSUME IInv, NEW f \in File, NEW v \in Int, NEW e \in Int,
         f_pos' = [f_pos EXCEPT ![f] = v], expected' = [expected EXCEPT ![f] = e],
         UNCHANGED call,
         \A g \in File \ {f} : g \in ended' <=> g \in ended,
         f \in ended /\ f \notin ended' => ~Busy(f),
         f \notin ended' => v \in 0 .. Size,
         e # Lost => ~Busy(f) /\ e = v
  PROVE  Positions' /\ Known'
<1>t. f_pos \in [File -> Int] /\ expected \in [File -> Int]
  BY DEF IInv, Base, Types
<1>f. \A q \in Task : call[q] # Idle => call[q].file \in File
  BY InCall DEF IInv
<1>1. PositionInRange' /\ PositionAddsUp'
  BY <1>t DEF IInv, Positions, Known, PositionInRange, PositionAddsUp
<1>2. \A q \in Task : call[q] # Idle /\ call[q].file \notin ended' => call[q].ppos = call[q].at
  BY <1>f DEF IInv, Positions, Busy
<1>3. ASSUME NEW q \in Task, call[q] # Idle, expected'[call[q].file] # Lost
      PROVE  call[q].file # f /\ expected[call[q].file] # Lost
  <2>1. CASE call[q].file = f
    BY <1>3, <2>1, <1>t DEF Busy
  <2>2. CASE call[q].file # f
    BY <1>3, <2>2, <1>f, <1>t
  <2> QED
    BY <2>1, <2>2
<1>4. \A q \in Task : call[q] # Idle /\ expected'[call[q].file] # Lost =>
                        call[q].ppos = f_pos'[call[q].file]
  BY <1>3, <1>f, <1>t DEF IInv, Known
<1>5. \A q, r \in Task : call[q] # Idle /\ call[r] # Idle /\ call[q].file = call[r].file
                           /\ expected'[call[q].file] # Lost => q = r
  BY <1>3 DEF IInv, Known
<1> QED
  BY <1>1, <1>2, <1>4, <1>5 DEF Positions, Known
-------------------------------------------------------------------------------
(* open, release and llseek: no call and no byte changes. *)

LEMMA ExactWithoutCalls ==
  ASSUME IInv, UNCHANGED <<mem, call>>,
         \A p \in Task : call[p] # Idle => inode'[call[p].file] = inode[call[p].file]
  PROVE  UndisturbedCallIsExact'
  BY DEF IInv, UndisturbedCallIsExact

LEMMA OpenStep == ASSUME IInv, NEW f \in File, Open(f) PROVE IInv'
<1>t. Base /\ Types
  BY DEF IInv, Base
<1>1. PICK minor \in Registered : /\ inode' = [inode EXCEPT ![f] = minor]
                                  /\ private_data' = [private_data EXCEPT ![f] = Device(minor)]
  BY DEF Open
<1>2. minor \in Minor /\ Device(minor) = minor
  BY DEF Registered, Minor, Device
<1>3. inode[f] = NoMinor /\ UNCHANGED <<mem, f_pos, expected, ended, call>>
  BY DEF Open
<1>4. \A p \in Task : call[p] # Idle => call[p].file \in File \ {f}
  BY <1>3, <1>t, InCall DEF Base, CallsFit
<1>5. \A p \in Task : call[p] # Idle => inode'[call[p].file] = inode[call[p].file]
  BY <1>1, <1>4, <1>t DEF Types
<1>6. Types'
  BY <1>1, <1>2, <1>3, <1>t DEF Types
<1>7. CallsFit'
  BY <1>3, <1>5, <1>t DEF Base, CallsFit
<1>8. \A q \in Task : SameCall(q)
  BY <1>3 DEF SameCall
<1> QED
  BY <1>3, <1>5, <1>6, <1>7, <1>8, PositionsKept, ExactWithoutCalls DEF IInv, Base

LEMMA ReleaseStep == ASSUME IInv, NEW f \in File, Release(f) PROVE IInv'
<1>t. Base /\ Types
  BY DEF IInv, Base
<1>1. /\ inode' = [inode EXCEPT ![f] = NoMinor]
      /\ private_data' = [private_data EXCEPT ![f] = NoMinor]
      /\ f_pos' = [f_pos EXCEPT ![f] = 0] /\ expected' = [expected EXCEPT ![f] = 0]
      /\ ended' = ended \ {f} /\ ~Busy(f) /\ UNCHANGED <<mem, call>>
  BY DEF Release
<1>2. \A p \in Task : call[p] # Idle => call[p].file \in File \ {f}
  BY <1>1, <1>t, InCall DEF Busy
<1>3. \A p \in Task : call[p] # Idle => inode'[call[p].file] = inode[call[p].file]
  BY <1>1, <1>2, <1>t DEF Types
<1>4. Types'
  BY <1>1, <1>t DEF Types
<1>5. CallsFit'
  BY <1>1, <1>3, <1>t DEF Base, CallsFit
<1>6. 0 \in 0 .. Size
  BY SizeAssumption
<1>7. Positions' /\ Known'
  <2>1. /\ 0 \in Int /\ \A g \in File \ {f} : g \in ended' <=> g \in ended
        /\ f \in ended /\ f \notin ended' => ~Busy(f)
        /\ f \notin ended' => 0 \in 0 .. Size
        /\ 0 # Lost => ~Busy(f) /\ 0 = 0
    BY <1>1, <1>6
  <2>2. /\ f_pos' = [f_pos EXCEPT ![f] = 0] /\ expected' = [expected EXCEPT ![f] = 0]
        /\ UNCHANGED call
    BY <1>1
  <2> QED
    BY <2>1, <2>2, PositionsAfterSeek
<1> QED
  BY <1>1, <1>3, <1>4, <1>5, <1>7, ExactWithoutCalls DEF IInv, Base

(* What a seek that is not refused returns. *)
LEMMA SeekResults ==
  ASSUME NEW offset \in Int, NEW pos \in Int
  PROVE  /\ SeekSet(offset) # Refused => SeekSet(offset) \in 0 .. Size
         /\ SeekCur(pos, offset) # Refused => SeekCur(pos, offset) \in 0 .. Size
         /\ SeekEnd(offset) \in Int
<1>1. Truncate(offset) \in Nat /\ Wrap(pos + offset) \in Int /\ Wrap(Size + offset) \in Int
  BY TruncateRange, WrapRange, SizeAssumption, LoffAssumption DEF Loff
<1> QED
  BY <1>1, SizeAssumption DEF SeekSet, SeekCur, SeekEnd

LEMMA LlseekStep == ASSUME IInv, NEW f \in File, NEW offset \in Offsets, Llseek(f, offset) PROVE IInv'
<1>t. Base /\ Types /\ offset \in Int /\ f_pos[f] \in Int /\ expected[f] \in Int /\ Lost \in Int
  BY OffsetsAssumption, LoffAssumption DEF IInv, Base, Types, Lost
<1> DEFINE Effect(v, e) == /\ v \in Int /\ e \in Int /\ Seek(f, v)
                           /\ expected' = [expected EXCEPT ![f] = e]
                           /\ UNCHANGED ended \/ ended' = ended \union {f}
                           /\ f \notin ended' => v \in 0 .. Size
                           /\ e # Lost => ~Busy(f) /\ e = v
<1>1. PICK v, e : Effect(v, e)
  <2>v. \A v : Seek(f, v) => f_pos'[f] = v
    BY <1>t DEF Seek, Types
  <2>1. CASE /\ Seek(f, SeekSet(offset)) /\ UNCHANGED ended
             /\ expected' = [expected EXCEPT ![f] = IF Busy(f) THEN Lost ELSE f_pos'[f]]
    <3>1. SeekSet(offset) \in 0 .. Size /\ f_pos'[f] = SeekSet(offset)
      BY <2>1, <2>v, <1>t, SeekResults DEF Seek
    <3>2. CASE Busy(f)
      <4>1. Effect(SeekSet(offset), Lost)
        BY <2>1, <3>1, <3>2, <1>t, SizeAssumption
      <4> QED
        BY <4>1
    <3>3. CASE ~(Busy(f))
      <4>1. Effect(SeekSet(offset), SeekSet(offset))
        BY <2>1, <3>1, <3>3, <1>t, SizeAssumption
      <4> QED
        BY <4>1
    <3> QED
      BY <3>2, <3>3
  <2>2. CASE /\ Seek(f, SeekCur(f_pos[f], offset)) /\ UNCHANGED ended
             /\ expected' = [expected EXCEPT ![f] = IF Busy(f) \/ @ = Lost THEN Lost ELSE f_pos'[f]]
    <3>1. /\ SeekCur(f_pos[f], offset) \in 0 .. Size /\ f_pos'[f] = SeekCur(f_pos[f], offset)
          /\ SeekCur(f_pos[f], offset) \in Int
      <4>1. SeekCur(f_pos[f], offset) # Refused /\ f_pos'[f] = SeekCur(f_pos[f], offset)
        BY <2>2, <2>v DEF Seek
      <4>2. SeekCur(f_pos[f], offset) \in 0 .. Size
        BY <4>1, <1>t, SeekResults
      <4> QED
        BY <4>1, <4>2, SizeAssumption
    <3>2. CASE Busy(f) \/ expected[f] = Lost
      <4>1. expected' = [expected EXCEPT ![f] = Lost]
        BY <2>2, <3>2, <1>t DEF Types
      <4>2. Effect(SeekCur(f_pos[f], offset), Lost)
        BY <2>2, <3>1, <4>1, <1>t
      <4> QED
        BY <4>2
    <3>3. CASE ~(Busy(f) \/ expected[f] = Lost)
      <4>1. expected' = [expected EXCEPT ![f] = f_pos'[f]]
        BY <2>2, <3>3, <1>t DEF Types
      <4>2. Effect(SeekCur(f_pos[f], offset), SeekCur(f_pos[f], offset))
        BY <2>2, <3>1, <3>3, <4>1, <1>t, SizeAssumption
      <4> QED
        BY <4>2
    <3> QED
      BY <3>2, <3>3
  <2>3. CASE /\ Seek(f, SeekEnd(offset)) /\ ended' = ended \union {f}
             /\ expected' = [expected EXCEPT ![f] = IF Busy(f) THEN Lost ELSE f_pos'[f]]
    <3>1. SeekEnd(offset) \in Int /\ f_pos'[f] = SeekEnd(offset)
      BY <2>3, <2>v, <1>t, SeekResults
    <3>2. CASE Busy(f)
      <4>1. Effect(SeekEnd(offset), Lost)
        BY <2>3, <3>1, <3>2, <1>t, SizeAssumption
      <4> QED
        BY <4>1
    <3>3. CASE ~(Busy(f))
      <4>1. Effect(SeekEnd(offset), SeekEnd(offset))
        BY <2>3, <3>1, <3>3, <1>t, SizeAssumption
      <4> QED
        BY <4>1
    <3> QED
      BY <3>2, <3>3
  <2> QED
    BY <2>1, <2>2, <2>3 DEF Llseek
<1>2. f_pos' = [f_pos EXCEPT ![f] = v] /\ UNCHANGED <<mem, inode, private_data, call>>
  BY <1>1 DEF Seek
<1>3. Types'
  BY <1>1, <1>2, <1>t DEF Types
<1>4. CallsFit'
  BY <1>2, <1>t DEF Base, CallsFit
<1>5. Positions' /\ Known'
  BY <1>1, <1>2, PositionsAfterSeek
<1>6. UndisturbedCallIsExact'
  BY <1>2, ExactWithoutCalls
<1> QED
  BY <1>3, <1>4, <1>5, <1>6 DEF IInv, Base
-------------------------------------------------------------------------------
(* read, write and ioctl *)

LEMMA StartStep ==
  ASSUME IInv, NEW p \in Task, NEW f \in File, NEW op \in {"read", "write"}, NEW n \in Counts,
         Start(p, f, op, n)
  PROVE  IInv'
<1> DEFINE at  == Truncate(f_pos[f])
           new == [op |-> op, file |-> f, ppos |-> f_pos[f], at |-> at, count |-> Clamp(at, n),
                   data |-> << >>, alone |-> TRUE]
<1>t. /\ Base /\ Types /\ f_pos[f] \in Int /\ f_pos \in [File -> Int]
      /\ expected \in [File -> Int] /\ call \in [Task -> CallRecord \union {Idle}]
      /\ Lost \in Int
  BY LoffAssumption DEF IInv, Base, Types, Lost
<1>1. /\ call[p] = Idle /\ inode[f] # NoMinor /\ at < Size
      /\ call' = [call EXCEPT ![p] = new]
      /\ expected' = [expected EXCEPT ![f] = IF Busy(f) THEN Lost ELSE @]
      /\ UNCHANGED <<mem, inode, private_data, f_pos, ended>>
  BY <1>t, TruncateRange, SizeAssumption DEF Start, PastEnd
<1>2. at \in Index
  BY <1>1, <1>t, TruncateRange, SizeAssumption DEF Index
<1>3. Clamp(at, n) \in 0 .. Size /\ Clamp(at, n) <= Size - at
  BY <1>2, SizeAssumption, CountsAssumption DEF Clamp, Index
<1>4. << >> \in Seq(Byte) /\ Len(<< >>) = 0
  OBVIOUS
<1> HIDE DEF at
<1>5. new \in CallRecord
  BY <1>2, <1>3, <1>4, <1>t DEF CallRecord
<1>6. call'[p] = new /\ \A q \in Task \ {p} : call'[q] = call[q]
  BY <1>1, <1>t
<1>7. Types'
  <2>1. expected' \in [File -> Int]
    BY <1>1, <1>t
  <2>2. call' \in [Task -> CallRecord \union {Idle}]
    BY <1>1, <1>5, <1>t
  <2> QED
    BY <1>1, <2>1, <2>2, <1>t DEF Types
<1>8. CallsFit'
  BY <1>1, <1>3, <1>4, <1>6, <1>t DEF Base, CallsFit
<1>9. Positions'
  <2>1. f \notin ended => f_pos[f] = at
    BY TruncateSmall DEF IInv, Positions, PositionInRange, at
  <2> QED
    BY <2>1, <1>1, <1>6 DEF IInv, Positions, PositionInRange
<1>10. Known'
  <2>1. \A g \in File : expected'[g] # Lost => expected[g] = expected'[g] /\ (g = f => ~Busy(f))
    BY <1>1, <1>t
  <2>2. \A q \in Task : call[q] # Idle => call[q].file \in File
    BY <1>t, InCall
  <2>3. PositionAddsUp'
    BY <2>1, <1>1 DEF IInv, Known, PositionAddsUp
  <2>4. ASSUME NEW q \in Task, call'[q] # Idle, expected'[call'[q].file] # Lost
        PROVE  /\ call'[q].ppos = f_pos'[call'[q].file]
               /\ call'[q].file = f => q = p
    <3>1. CASE q = p
      BY <3>1, <1>1, <1>6
    <3>2. CASE q # p
      BY <3>2, <2>1, <2>2, <2>4, <1>1, <1>6 DEF IInv, Known, Busy
    <3> QED
      BY <3>1, <3>2
  <2>5. ASSUME NEW q \in Task, NEW r \in Task, call'[q] # Idle, call'[r] # Idle,
               call'[q].file = call'[r].file, expected'[call'[q].file] # Lost
        PROVE  q = r
    <3>1. CASE q = p \/ r = p
      BY <3>1, <2>4, <2>5, <1>6
    <3>2. CASE q # p /\ r # p
      BY <3>2, <2>1, <2>2, <2>5, <1>6 DEF IInv, Known
    <3> QED
      BY <3>1, <3>2
  <2> QED
    BY <2>3, <2>4, <2>5 DEF Known
<1>11. UndisturbedCallIsExact'
  <2> SUFFICES ASSUME NEW q \in Task, call'[q] # Idle /\ call'[q].alone,
                      NEW j \in 1 .. Len(call'[q].data)
               PROVE  mem'[inode'[call'[q].file]][call'[q].at + j - 1] = call'[q].data[j]
    BY DEF UndisturbedCallIsExact
  <2>1. q # p
    BY <1>4, <1>6
  <2> QED
    BY <2>1, <1>1, <1>6 DEF IInv, UndisturbedCallIsExact
<1> QED
  BY <1>7, <1>8, <1>9, <1>10, <1>11 DEF IInv, Base

(* A call whose data grow by a byte. *)
LEMMA CallWithByte ==
  ASSUME Base, NEW p \in Task, call[p] # Idle, Left(p) > 0, NEW b \in Byte
  PROVE  LET new == [call[p] EXCEPT !.data = Append(@, b)]
         IN  /\ new \in CallRecord /\ new # Idle
             /\ new.file = call[p].file /\ new.ppos = call[p].ppos /\ new.at = call[p].at
             /\ new.count = call[p].count /\ new.alone = call[p].alone
             /\ new.data = Append(call[p].data, b)
             /\ Len(new.data) = Len(call[p].data) + 1 /\ Len(new.data) <= new.count
<1> DEFINE new == [call[p] EXCEPT !.data = Append(@, b)]
<1>1. call[p] \in CallRecord /\ call[p].data \in Seq(Byte) /\ call[p].count \in Nat
      /\ Len(call[p].data) \in Nat /\ Left(p) \in Int
  BY InCall, SizeAssumption DEF CallRecord
<1>2. Append(call[p].data, b) \in Seq(Byte)
      /\ Len(Append(call[p].data, b)) = Len(call[p].data) + 1
  BY <1>1
<1>3. new \in CallRecord
  BY <1>1, <1>2 DEF CallRecord
<1>4. /\ new.file = call[p].file /\ new.ppos = call[p].ppos /\ new.at = call[p].at
      /\ new.count = call[p].count /\ new.alone = call[p].alone
      /\ new.data = Append(call[p].data, b)
  BY <1>1 DEF CallRecord
<1>5. Len(call[p].data) + 1 <= call[p].count
  BY <1>1 DEF Left
<1> QED
  BY <1>2, <1>3, <1>4, <1>5, IdleIsNoRecord

LEMMA CopyOutStep == ASSUME IInv, NEW p \in Task, CopyOut(p) PROVE IInv'
<1> DEFINE b   == mem[DeviceOf(p)][Here(p)]
           new == [call[p] EXCEPT !.data = Append(@, b)]
<1>t. Base /\ Types /\ call \in [Task -> CallRecord \union {Idle}]
  BY DEF IInv, Base, Types
<1>1. call[p] # Idle /\ Left(p) > 0 /\ UNCHANGED <<mem, fileVars>>
  BY DEF CopyOut, Idle
<1>2. b \in Byte
  BY <1>t, <1>1, InCall DEF Types
<1>3. call'[p] = new /\ \A q \in Task \ {p} : call'[q] = call[q]
  BY <1>t DEF CopyOut
<1> HIDE DEF b
<1>4. /\ new \in CallRecord /\ new # Idle
      /\ new.file = call[p].file /\ new.ppos = call[p].ppos /\ new.at = call[p].at
      /\ new.count = call[p].count /\ new.alone = call[p].alone
      /\ new.data = Append(call[p].data, b)
      /\ Len(new.data) = Len(call[p].data) + 1 /\ Len(new.data) <= new.count
  BY <1>t, <1>1, <1>2, CallWithByte
<1>c. call' = [call EXCEPT ![p] = new]
  BY DEF CopyOut, b
<1> HIDE DEF new
<1>5. \A q \in Task : SameCall(q)
  BY <1>1, <1>3, <1>4 DEF SameCall
<1>6. Types'
  BY <1>1, <1>c, <1>4, <1>t DEF Types, fileVars
<1>7. CallsFit'
  BY <1>1, <1>3, <1>4, <1>t DEF Base, CallsFit, fileVars
<1>8. UndisturbedCallIsExact'
  <2> SUFFICES ASSUME NEW q \in Task, call'[q] # Idle /\ call'[q].alone,
                      NEW j \in 1 .. Len(call'[q].data)
               PROVE  mem[inode[call'[q].file]][call'[q].at + j - 1] = call'[q].data[j]
    BY <1>1 DEF UndisturbedCallIsExact, fileVars
  <2>1. CASE q # p
    BY <2>1, <1>3 DEF IInv, UndisturbedCallIsExact
  <2>2. CASE q = p
    <3> DEFINE n == Len(call[p].data)
    <3>1. n \in Nat /\ call[p].data \in Seq(Byte) /\ call[p].at \in Nat /\ Here(p) = call[p].at + n
      BY <1>t, <1>1, InCall, SizeAssumption DEF CallRecord, Index, Here
    <3>2. CASE j = n + 1
      <4>1. call'[p].data[j] = b
        BY <3>1, <3>2, <1>3, <1>4
      <4>2. call'[p].at + j - 1 = Here(p) /\ inode[call'[p].file] = DeviceOf(p)
        BY <3>1, <3>2, <1>1, <1>3, <1>4, <1>t, InCall
      <4> QED
        BY <2>2, <4>1, <4>2 DEF b
    <3>3. CASE j # n + 1
      <4>1. j \in 1 .. n
        BY <3>1, <3>3, <2>2, <1>3, <1>4
      <4>2. call'[p].data[j] = call[p].data[j]
        BY <3>1, <4>1, <1>2, <1>3, <1>4
      <4> QED
        BY <2>2, <4>1, <4>2, <1>1, <1>3, <1>4 DEF IInv, UndisturbedCallIsExact
    <3> QED
      BY <3>2, <3>3
  <2> QED
    BY <2>1, <2>2
<1> QED
  BY <1>1, <1>5, <1>6, <1>7, <1>8, PositionsKept DEF IInv, Base, fileVars

LEMMA CopyInStep == ASSUME IInv, NEW p \in Task, CopyIn(p) PROVE IInv'
<1>t. Base /\ Types /\ call \in [Task -> CallRecord \union {Idle}]
      /\ mem \in [Minor -> [Index -> Byte]]
  BY DEF IInv, Base, Types
<1>1. call[p] # Idle /\ Left(p) > 0 /\ UNCHANGED fileVars
  BY DEF CopyIn, Idle
<1> DEFINE d == DeviceOf(p)
           h == Here(p)
<1>2. d \in Minor /\ h \in Index /\ inode[call[p].file] = d
  BY <1>t, <1>1, InCall
<1>3. PICK b \in Data : /\ mem' = [mem EXCEPT ![d][h] = b]
                        /\ call' = [Disturbed(p, d) EXCEPT ![p].data = Append(@, b)]
  BY DEF CopyIn
<1> DEFINE new == [call[p] EXCEPT !.data = Append(@, b)]
<1>4. /\ new \in CallRecord /\ new # Idle
      /\ new.file = call[p].file /\ new.ppos = call[p].ppos /\ new.at = call[p].at
      /\ new.count = call[p].count /\ new.alone = call[p].alone
      /\ new.data = Append(call[p].data, b)
      /\ Len(new.data) = Len(call[p].data) + 1 /\ Len(new.data) <= new.count
  BY <1>t, <1>1, CallWithByte DEF Byte
<1>5. call'[p] = new /\ \A q \in Task \ {p} : call'[q] = Disturbed(p, d)[q]
  BY <1>3 DEF Disturbed
<1>e. call' = [q \in Task |-> IF q = p THEN new ELSE Disturbed(p, d)[q]]
  BY <1>3 DEF Disturbed
<1>m. /\ mem' \in [Minor -> [Index -> Byte]] /\ mem'[d][h] = b
      /\ \A k \in Index : k # h => mem'[d][k] = mem[d][k]
      /\ \A c \in Minor : c # d => mem'[c] = mem[c]
  BY <1>2, <1>3, <1>t DEF Byte
<1> HIDE DEF new, d, h
<1>6. \A q \in Task : SameCall(q)
  BY <1>t, <1>1, <1>4, <1>5, DisturbedCalls DEF SameCall
<1>7. Types'
  <2>1. call' \in [Task -> CallRecord \union {Idle}]
    BY <1>t, <1>e, <1>4, DisturbedCalls
  <2> QED
    BY <2>1, <1>1, <1>m, <1>t DEF Types, fileVars
<1>8. CallsFit'
  BY <1>t, <1>1, <1>4, <1>5, DisturbedCalls DEF Base, CallsFit, fileVars
<1>9. UndisturbedCallIsExact'
  <2> SUFFICES ASSUME NEW q \in Task, call'[q] # Idle /\ call'[q].alone,
                      NEW j \in 1 .. Len(call'[q].data)
               PROVE  mem'[inode[call'[q].file]][call'[q].at + j - 1] = call'[q].data[j]
    BY <1>1 DEF UndisturbedCallIsExact, fileVars
  <2>1. CASE q # p
    <3>1. call'[q] = call[q] /\ call[q] # Idle /\ DeviceOf(q) # d
      BY <2>1, <1>5, <1>t, DisturbedCalls
    <3>2. mem'[inode[call[q].file]] = mem[inode[call[q].file]]
      BY <3>1, <1>t, <1>m, InCall
    <3> QED
      BY <3>1, <3>2 DEF IInv, UndisturbedCallIsExact
  <2>2. CASE q = p
    <3> DEFINE n == Len(call[p].data)
    <3>1. /\ n \in Nat /\ call[p].data \in Seq(Byte) /\ call[p].at \in Nat
          /\ h = call[p].at + n /\ Size \in Nat /\ h < Size
      BY <1>t, <1>1, <1>2, InCall, SizeAssumption DEF CallRecord, Index, Here, h
    <3>2. CASE j = n + 1
      <4>1. call'[p].data[j] = b
        BY <3>1, <3>2, <1>4, <1>5 DEF Byte
      <4>2. call'[p].at + j - 1 = h /\ inode[call'[p].file] = d
        BY <3>1, <3>2, <1>2, <1>4, <1>5
      <4> QED
        BY <2>2, <4>1, <4>2, <1>m
    <3>3. CASE j # n + 1
      <4>1. j \in 1 .. n /\ call[p].at + j - 1 \in Index /\ call[p].at + j - 1 # h
        <5>1. j \in 1 .. n
          BY <3>1, <3>3, <2>2, <1>4, <1>5
        <5> HIDE DEF n
        <5> QED
          BY <3>1, <5>1 DEF Index
      <4>2. call'[p].data[j] = call[p].data[j]
        BY <3>1, <4>1, <1>4, <1>5 DEF Byte
      <4>3. mem[inode[call[p].file]][call[p].at + j - 1] = call[p].data[j]
        BY <2>2, <4>1, <1>1, <1>4, <1>5 DEF IInv, UndisturbedCallIsExact
      <4> QED
        BY <2>2, <4>1, <4>2, <4>3, <1>2, <1>4, <1>5, <1>m
    <3> QED
      BY <3>2, <3>3
  <2> QED
    BY <2>1, <2>2
<1> QED
  BY <1>1, <1>6, <1>7, <1>8, <1>9, PositionsKept DEF IInv, Base, fileVars

(* The end of a call by Finish or Fault, or a call that never was: calls other than *)
(* that of p are disturbed or not; bytes of one device may change.                   *)
LEMMA OthersKept ==
  ASSUME IInv, NEW p \in Task, NEW d \in Minor, UNCHANGED <<inode, private_data>>,
         \/ call' = [call EXCEPT ![p] = Idle] /\ UNCHANGED mem
         \/ /\ call' = [Disturbed(p, d) EXCEPT ![p] = Idle]
            /\ mem' \in [Minor -> [Index -> Byte]]
            /\ \A c \in Minor \ {d} : mem'[c] = mem[c]
  PROVE  /\ call' \in [Task -> CallRecord \union {Idle}] /\ call'[p] = Idle
         /\ \A q \in Task \ {p} : SameCall(q)
         /\ CallsFit' /\ UndisturbedCallIsExact'
<1>t. Base /\ Types /\ call \in [Task -> CallRecord \union {Idle}]
      /\ mem \in [Minor -> [Index -> Byte]]
  BY DEF IInv, Base, Types
<1>1. CASE call' = [call EXCEPT ![p] = Idle] /\ UNCHANGED mem
  <2>1. call'[p] = Idle /\ \A q \in Task \ {p} : call'[q] = call[q]
    BY <1>1, <1>t
  <2>2. call' \in [Task -> CallRecord \union {Idle}]
    BY <1>1, <1>t
  <2> QED
    BY <1>1, <2>1, <2>2, <1>t DEF SameCall, Base, CallsFit, IInv, UndisturbedCallIsExact
<1>2. CASE /\ call' = [Disturbed(p, d) EXCEPT ![p] = Idle]
           /\ mem' \in [Minor -> [Index -> Byte]]
           /\ \A c \in Minor \ {d} : mem'[c] = mem[c]
  <2>1. call'[p] = Idle /\ \A q \in Task \ {p} : call'[q] = Disturbed(p, d)[q]
    BY <1>2 DEF Disturbed
  <2>e. call' = [q \in Task |-> IF q = p THEN Idle ELSE Disturbed(p, d)[q]]
    BY <1>2 DEF Disturbed
  <2>2. call' \in [Task -> CallRecord \union {Idle}]
    BY <1>t, <2>e, DisturbedCalls
  <2>3. \A q \in Task \ {p} : SameCall(q)
    BY <1>t, <2>1, DisturbedCalls DEF SameCall
  <2>4. CallsFit'
    BY <1>t, <2>1, DisturbedCalls DEF Base, CallsFit
  <2>5. UndisturbedCallIsExact'
    <3> SUFFICES ASSUME NEW q \in Task, call'[q] # Idle /\ call'[q].alone,
                        NEW j \in 1 .. Len(call'[q].data)
                 PROVE  mem'[inode[call'[q].file]][call'[q].at + j - 1] = call'[q].data[j]
      BY DEF UndisturbedCallIsExact
    <3>1. q # p
      BY <2>1
    <3>2. call'[q] = call[q] /\ call[q] # Idle /\ DeviceOf(q) # d
      BY <3>1, <2>1, <1>t, DisturbedCalls
    <3>3. mem'[inode[call[q].file]] = mem[inode[call[q].file]]
      BY <3>2, <1>t, <1>2, InCall
    <3> QED
      BY <3>2, <3>3 DEF IInv, UndisturbedCallIsExact
  <2> QED
    BY <2>1, <2>2, <2>3, <2>4, <2>5
<1> QED
  BY <1>1, <1>2

LEMMA MemClearStep ==
  ASSUME IInv, NEW p \in Task, NEW f \in File, MemClear(p, f)
  PROVE  IInv'
<1>t. Base /\ Types /\ call \in [Task -> CallRecord \union {Idle}]
      /\ mem \in [Minor -> [Index -> Byte]]
  BY DEF IInv, Base, Types
<1> DEFINE d == private_data[f]
<1>1. call[p] = Idle /\ d \in Minor /\ UNCHANGED fileVars
  BY <1>t DEF MemClear, Types
<1>2. mem' = [mem EXCEPT ![d] = [i \in Index |-> Zero]] /\ call' = Disturbed(p, d)
  BY DEF MemClear
<1>3. mem' \in [Minor -> [Index -> Byte]] /\ \A c \in Minor \ {d} : mem'[c] = mem[c]
  BY <1>1, <1>2, <1>t DEF Byte
<1>4. call' = [Disturbed(p, d) EXCEPT ![p] = Idle]
  BY <1>1, <1>2 DEF Disturbed
<1> HIDE DEF d
<1>5. /\ call' \in [Task -> CallRecord \union {Idle}] /\ call'[p] = Idle
      /\ \A q \in Task \ {p} : SameCall(q)
      /\ CallsFit' /\ UndisturbedCallIsExact'
  BY <1>1, <1>3, <1>4, OthersKept DEF fileVars
<1>6. \A q \in Task : SameCall(q)
  BY <1>1, <1>5 DEF SameCall
<1>7. Types'
  BY <1>1, <1>3, <1>5, <1>t DEF Types, fileVars
<1> QED
  BY <1>1, <1>5, <1>6, <1>7, PositionsKept DEF IInv, Base, fileVars

LEMMA FinishStep == ASSUME IInv, NEW p \in Task, Finish(p) PROVE IInv'
<1> DEFINE f == call[p].file
           v == call[p].ppos + call[p].count
           e == IF expected[f] = Lost THEN Lost ELSE expected[f] + call[p].count
<1>t. /\ Base /\ Types /\ call[p] # Idle /\ Lost \in Int
      /\ f_pos \in [File -> Int] /\ expected \in [File -> Int]
  BY LoffAssumption DEF IInv, Base, Types, Finish, Lost
<1>1. /\ f_pos' = [f_pos EXCEPT ![f] = v] /\ expected' = [expected EXCEPT ![f] = e]
      /\ call' = [call EXCEPT ![p] = Idle] /\ UNCHANGED <<mem, inode, private_data, ended>>
  BY <1>t DEF Finish, StoreBack
<1>2. /\ f \in File /\ call[p].ppos \in Int /\ call[p].count \in Nat /\ call[p].at \in Nat
      /\ call[p].count <= Size - call[p].at /\ DeviceOf(p) \in Minor
  BY <1>t, InCall, SizeAssumption DEF CallRecord, Index, Base, CallsFit
<1>3. v \in Int /\ e \in Int
  BY <1>t, <1>2
<1>4. /\ call' \in [Task -> CallRecord \union {Idle}] /\ call'[p] = Idle
      /\ \A q \in Task \ {p} : SameCall(q)
      /\ CallsFit' /\ UndisturbedCallIsExact'
  BY <1>1, <1>2, OthersKept
<1>5. f \notin ended => v \in 0 .. Size
  <2>1. f \notin ended => call[p].ppos = call[p].at
    BY <1>t DEF IInv, Positions
  <2> QED
    BY <2>1, <1>2, SizeAssumption
<1>6. e # Lost => expected[f] # Lost /\ e = v
  BY <1>t, <1>2 DEF IInv, Known, PositionAddsUp
<1>7. Types'
  BY <1>1, <1>2, <1>3, <1>4, <1>t DEF Types
<1> HIDE DEF f, v, e
<1>8. Positions' /\ Known'
  BY <1>1, <1>2, <1>3, <1>4, <1>5, <1>6, <1>t, PositionsAfterCall DEF f
<1> QED
  BY <1>4, <1>7, <1>8 DEF IInv, Base

LEMMA FaultStep == ASSUME IInv, NEW p \in Task, Fault(p) PROVE IInv'
<1> DEFINE f == call[p].file
           d == DeviceOf(p)
           v == call[p].ppos
           e == IF expected[f] = Lost THEN Lost ELSE expected[f]
<1>t. /\ Base /\ Types /\ call[p] # Idle /\ Lost \in Int
      /\ f_pos \in [File -> Int] /\ expected \in [File -> Int]
      /\ mem \in [Minor -> [Index -> Byte]]
  BY LoffAssumption DEF IInv, Base, Types, Fault, Lost
<1>1. f_pos' = [f_pos EXCEPT ![f] = v] /\ UNCHANGED <<inode, private_data, expected, ended>>
  BY DEF Fault, StoreBack, PositionAfterFault
<1>2. /\ f \in File /\ v \in Int /\ call[p].at \in 0 .. Size /\ d \in Minor /\ e \in Int
      /\ expected' = [expected EXCEPT ![f] = e]
  BY <1>t, <1>1, InCall, SizeAssumption DEF CallRecord, Index
<1>3. \/ call' = [call EXCEPT ![p] = Idle] /\ UNCHANGED mem
      \/ /\ call' = [Disturbed(p, d) EXCEPT ![p] = Idle]
         /\ mem' \in [Minor -> [Index -> Byte]]
         /\ \A c \in Minor \ {d} : mem'[c] = mem[c]
  BY <1>t, <1>2 DEF Fault, Byte
<1>4. /\ call' \in [Task -> CallRecord \union {Idle}] /\ call'[p] = Idle
      /\ \A q \in Task \ {p} : SameCall(q)
      /\ CallsFit' /\ UndisturbedCallIsExact'
  BY <1>1, <1>2, <1>3, OthersKept
<1>5. f \notin ended => v \in 0 .. Size
  BY <1>t, <1>2 DEF IInv, Positions
<1>6. e # Lost => expected[f] # Lost /\ e = v
  BY <1>t, <1>2 DEF IInv, Known, PositionAddsUp
<1>7. Types'
  BY <1>1, <1>2, <1>3, <1>4, <1>t DEF Types
<1> HIDE DEF f, v, e, d
<1>8. Positions' /\ Known'
  BY <1>1, <1>2, <1>4, <1>5, <1>6, <1>t, PositionsAfterCall DEF f
<1> QED
  BY <1>4, <1>7, <1>8 DEF IInv, Base
-------------------------------------------------------------------------------
LEMMA Initially == Init => IInv
<1> SUFFICES ASSUME Init
             PROVE  IInv
  OBVIOUS
<1>1. Types /\ CallsFit
  BY DEF Init, Types, CallsFit, Byte
<1>2. Positions /\ Known /\ UndisturbedCallIsExact
  BY SizeAssumption DEF Init, Positions, Known, PositionInRange, PositionAddsUp,
                        UndisturbedCallIsExact
<1> QED
  BY <1>1, <1>2 DEF IInv, Base

LEMMA StutterStep == ASSUME IInv, UNCHANGED vars PROVE IInv'
<1>1. UNCHANGED <<mem, inode, private_data, f_pos, expected, ended, call>>
  BY DEF vars, fileVars
<1>2. Base'
  BY <1>1 DEF IInv, Base, Types, CallsFit
<1>3. \A q \in Task : SameCall(q)
  BY <1>1 DEF SameCall
<1>4. UndisturbedCallIsExact'
  BY <1>1, ExactWithoutCalls
<1> QED
  BY <1>1, <1>2, <1>3, <1>4, PositionsKept DEF IInv

THEOREM Invariance == Spec => []IInv
<1>1. IInv /\ [Next]_vars => IInv'
  BY OpenStep, ReleaseStep, LlseekStep, StartStep, MemClearStep, CopyOutStep, CopyInStep, FaultStep,
     FinishStep, StutterStep DEF Next
<1> QED
  BY <1>1, Initially, PTL DEF Spec

(* No copy leaves the array, for any size and widths, whatever SEEK_END and racing *)
(* calls have done to the positions.                                               *)
THEOREM CopiesStayInMem == Spec => []CopyWithinMem
<1>1. IInv => CopyWithinMem
  BY InCall DEF IInv, Base, CallsFit, CopyWithinMem
<1> QED
  BY <1>1, Invariance, PTL

(* Only SEEK_END takes a position out of the array. *)
THEOREM PositionsStayInRange == Spec => []PositionInRange
<1>1. IInv => PositionInRange
  BY DEF IInv, Positions
<1> QED
  BY <1>1, Invariance, PTL

(* Moves are lost only where two calls overlapped on one file. *)
THEOREM PositionsAddUp == Spec => []PositionAddsUp
<1>1. IInv => PositionAddsUp
  BY DEF IInv, Known
<1> QED
  BY <1>1, Invariance, PTL

(* A call nobody disturbed moved the bytes of its own device. *)
THEOREM UndisturbedCallsAreExact == Spec => []UndisturbedCallIsExact
<1>1. IInv => UndisturbedCallIsExact
  BY DEF IInv
<1> QED
  BY <1>1, Invariance, PTL

(* 32-bit and 64-bit arithmetic agree with plain integers from a position in the   *)
(* array; only a sum past the largest loff_t wraps, and then it is negative.        *)
LEMMA SeeksAreInteger ==
  ASSUME NEW pos \in 0 .. Size, NEW offset \in Loff
  PROVE  LET Plain(n) == IF n \in 0 .. Size THEN n ELSE Refused
         IN  /\ SeekCur(pos, offset) = Plain(pos + offset)
             /\ offset < WordSize => SeekSet(offset) = Plain(offset)
<1>t. /\ pos \in Int /\ offset \in Int /\ Size \in Nat /\ WordSize \in Nat /\ LoffMax \in Nat
      /\ pos >= 0 /\ pos <= Size /\ Size < WordSize /\ WordSize <= LoffMax + 1
      /\ -LoffMax - 1 <= offset /\ offset <= LoffMax
  BY SizeAssumption, LoffAssumption DEF Loff
<1>1. CASE pos + offset <= LoffMax
  <2>1. Wrap(pos + offset) = pos + offset
    BY <1>t, <1>1 DEF Wrap
  <2> QED
    BY <2>1, <1>t, TruncateSmall DEF SeekCur, SeekSet, Truncate
<1>2. CASE pos + offset > LoffMax
  <2>1. Wrap(pos + offset) = pos + offset - 2 * (LoffMax + 1)
    BY <1>t, <1>2 DEF Wrap
  <2> QED
    BY <2>1, <1>t, <1>2 DEF SeekCur, SeekSet, Truncate
<1> QED
  BY <1>1, <1>2, <1>t

(* Seeks within the array arrive where integers would, for any widths. *)
THEOREM SeeksArriveWhereTheyShould == Spec => []SeekIsInteger
<1>1. SeekIsInteger
  BY SeeksAreInteger DEF SeekIsInteger
<1> QED
  BY <1>1, PTL

(* Nobody but a writer of the device, or what sets it to zeros, changes a byte. *)
THEOREM OnlyWritersChange == Spec => OnlyItsWritersChange
<1> DEFINE Written == \A d \in Minor, i \in Index : mem'[d][i] # mem[d][i] =>
                        \/ \E p \in Task : /\ call[p] # Idle /\ call[p].op = "write"
                                           /\ inode[call[p].file] = d
                                           /\ i \in call[p].at .. call[p].at + call[p].count - 1
                        \/ mem'[d] = [j \in Index |-> Zero] /\ \E f \in File : inode[f] = d
<1>1. ASSUME IInv, [Next]_vars
      PROVE  [Written]_vars
  <2>t. Base /\ Types /\ mem \in [Minor -> [Index -> Byte]]
    BY <1>1 DEF IInv, Base, Types
  <2>1. ASSUME NEW p \in Task, CopyIn(p) \/ Fault(p)
        PROVE  Written
    <3> SUFFICES ASSUME NEW d \in Minor, NEW i \in Index, mem'[d][i] # mem[d][i]
                 PROVE  /\ call[p] # Idle /\ call[p].op = "write" /\ inode[call[p].file] = d
                        /\ i \in call[p].at .. call[p].at + call[p].count - 1
      OBVIOUS
    <3>1. call[p] # Idle /\ call[p].op = "write" /\ Left(p) > 0
      BY <2>1 DEF CopyIn, Fault, Idle
    <3>2. d = DeviceOf(p) /\ i \in Here(p) .. Here(p) + Left(p) - 1
      BY <2>1, <3>1, <2>t, InCall DEF CopyIn, Fault
    <3>3. /\ call[p].at \in Int /\ call[p].count \in Int /\ Len(call[p].data) \in Nat
          /\ inode[call[p].file] = DeviceOf(p) /\ i \in Int
      BY <3>1, <2>t, InCall, SizeAssumption DEF CallRecord, Index
    <3> QED
      BY <3>1, <3>2, <3>3 DEF Here, Left
  <2>2. ASSUME NEW p \in Task, NEW f \in File, MemClear(p, f)
        PROVE  Written
    BY <2>2, <2>t DEF MemClear, Types
  <2>3. CASE UNCHANGED mem
    BY <2>3
  <2> QED
    BY <1>1, <2>1, <2>2, <2>3 DEF Next, Open, Release, Start, CopyOut, Finish, Llseek, Seek, vars
<1> QED
  BY <1>1, Invariance, PTL DEF Spec, OnlyItsWritersChange
===============================================================================
