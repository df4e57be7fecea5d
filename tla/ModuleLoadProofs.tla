---------------------------- MODULE ModuleLoadProofs ----------------------------
(***************************************************************************)
(* Proofs about load and unload.  The first half says of each driver's       *)
(* table what its error paths and its exit function must be for the          *)
(* invariants to hold; the second half that, for tables like these, every    *)
(* step of the module keeps the invariants.                                  *)
(***************************************************************************)
EXTENDS ModuleLoad, SequenceTheorems, TLAPS

Cdevs == {"cdev", "cdev1", "misc"}

(* What a list of releases covers. *)
Entries(s) == {s[k] : k \in DOMAIN s}
Cover(s)   == UNION {Frees(t) : t \in Entries(s)}

(* The things an init function takes before its call i, and those it certainly has *)
(* when it gets there.                                                              *)
Thing(m, i)   == m.load[i].thing
Before(m, i)  == {Thing(m, j) : j \in 1 .. i - 1}
Certain(m, i) == {Thing(m, j) : j \in {k \in 1 .. i - 1 : m.load[k].onFailure # "unnoticed"}}

(* No release comes twice, and no device after its class. *)
Orderly(s) ==
  \A k, l \in DOMAIN s : k < l =>
    /\ Frees(s[k]) \intersect Frees(s[l]) = {}
    /\ ~(s[k] = "class" /\ s[l] \in {"device", "device1"})

(* A release that finds what it gives back, or that the kernel allows, once the calls *)
(* before i have been made and the things in tried tried.                              *)
Releasable(d, m, i, tried, t) ==
  \/ t = "thread"
  \/ Frees(t) \intersect Certain(m, i) # {}
  \/ \E c \in Certain(m, i) : t \in Needs(c)
  \/ t \in {"cdev", "cdev1", "class", "kset_p"} /\ t \in tried
  \/ d = "kset_test" /\ t = "my_kobj" /\ t \in tried
  \/ t \in {"device", "device1"} /\ t \in tried /\ <<d, "class">> \in Repeats
       /\ "class" \in tried

(* The error path of call i: it gives back what was taken before, but for a leak; it *)
(* gives back nothing else, but for a repeat; and nobody can have the device open.     *)
UndoSound(d, m, i) ==
  LET t == Thing(m, i)
      s == m.load[i].undo
  IN  m.load[i].onFailure \in {"error", "success"} =>
        /\ \/ m.load[i].onFailure = "error" /\ <<d, t>> \in Leaks
           \/ Before(m, i) \subseteq NeverGivenBack \union Cover(s)
        /\ \/ <<d, t>> \in Repeats
           \/ /\ m.load[i].onFailure = "error" /\ Orderly(s)
              /\ \A r \in Entries(s) : Releasable(d, m, i, Before(m, i) \union {t}, r)
        /\ \/ <<d, t>> = <<"led_nums", "cdev1">>
           \/ Before(m, i) \intersect Cdevs = {}

ExitSound(d, m) ==
  LET end == Len(m.load) + 1
  IN  /\ d = "kobject_test" \/ Before(m, end) \subseteq NeverGivenBack \union Cover(m.unload)
      /\ \/ d = "led_nums_wiscom"
         \/ /\ Orderly(m.unload)
            /\ \A r \in Entries(m.unload) : Releasable(d, m, end, Before(m, end), r)

UsesSound(d, m) ==
  \A i \in 1 .. Len(m.load) : Thing(m, i) \in Cdevs =>
      /\ m.uses[Thing(m, i)] \subseteq Certain(m, Len(m.load) + 1)
      /\ m.uses[Thing(m, i)] \ (IF d \in Late THEN NeverGivenBack ELSE {}) \subseteq Certain(m, i)

(* The things whose release is asked for. *)
Releases == {"mapping", "region", "region_of_one", "cdev", "cdev1", "class", "device", "device1",
             "memory", "thread", "timer", "misc", "my_kobj", "kset_p", "kset_c", "bus", "bus_file",
             "device_object", "device_file"}

IsList(s) == s \in Seq(Releases)

Typed(m) ==
  /\ Len(m.load) \in Nat /\ IsList(m.unload)
  /\ \A i \in 1 .. Len(m.load) :
       /\ m.load[i].onFailure \in {"error", "success", "unnoticed", "cannot"}
       /\ m.load[i].onFailure \in {"error", "success"} => IsList(m.load[i].undo)

(* The drivers with a piece of code that runs by itself. *)
StartsSound(d, m) ==
  \A i \in 1 .. Len(m.load) :
    /\ Thing(m, i) = "thread" => d \in {"waitqueue", "complete_test"}
    /\ Thing(m, i) = "timer" => d = "timer"

Sound(d, m) == /\ Typed(m) /\ StartsSound(d, m)
               /\ \A i \in 1 .. Len(m.load) : UndoSound(d, m, i)
               /\ ExitSound(d, m)
               /\ UsesSound(d, m)
-------------------------------------------------------------------------------
Row(m, i, t, f) == m.load[i].thing = t /\ m.load[i].onFailure = f

(* The entries of a list, and what they cover, by its length. *)
LEMMA Entries0 == Entries(<< >>) = {}
  BY DEF Entries
LEMMA Entries1 == \A a : Entries(<<a>>) = {a}
  BY DEF Entries
LEMMA Entries2 == \A a, b : Entries(<<a, b>>) = {a, b}
  BY DEF Entries
LEMMA Entries3 == \A a, b, c : Entries(<<a, b, c>>) = {a, b, c}
  BY DEF Entries
LEMMA Entries4 == \A a, b, c, d : Entries(<<a, b, c, d>>) = {a, b, c, d}
  BY DEF Entries
LEMMA Entries5 == \A a, b, c, d, e : Entries(<<a, b, c, d, e>>) = {a, b, c, d, e}
  BY DEF Entries
LEMMA Entries7 == \A a, b, c, d, e, f, g : Entries(<<a, b, c, d, e, f, g>>) = {a, b, c, d, e, f, g}
  BY DEF Entries

LEMMA Named ==
  /\ "mapping" \in Releases /\ "region" \in Releases
  /\ "region_of_one" \in Releases /\ "cdev" \in Releases
  /\ "cdev1" \in Releases /\ "class" \in Releases /\ "device" \in Releases /\ "device1" \in Releases
  /\ "memory" \in Releases /\ "thread" \in Releases /\ "timer" \in Releases /\ "misc" \in Releases
  /\ "my_kobj" \in Releases /\ "kset_p" \in Releases /\ "kset_c" \in Releases /\ "bus" \in Releases
  /\ "bus_file" \in Releases /\ "device_object" \in Releases /\ "device_file" \in Releases
  BY DEF Releases

LEMMA CoverEntries ==
  ASSUME NEW s
  PROVE  /\ Entries(s) \subseteq Cover(s)
         /\ "cdev" \in Entries(s) => "cdev_object" \in Cover(s)
  BY DEF Cover, Frees

(* Its order, as a relation of each of its entries to those after it. *)
Apart(a, b) == /\ Frees(a) \intersect Frees(b) = {}
               /\ ~(a = "class" /\ b \in {"device", "device1"})

LEMMA Orders0 == Orderly(<< >>)
  BY DEF Orderly, Apart
LEMMA Orders1 == \A a : Orderly(<<a>>)
  BY DEF Orderly, Apart
LEMMA Orders2 ==
  \A a, b :
    /\ Apart(a, b)
    => Orderly(<<a, b>>)
  BY DEF Orderly, Apart
LEMMA Orders3 ==
  \A a, b, c :
    /\ Apart(a, b) /\ Apart(a, c)
    /\ Apart(b, c)
    => Orderly(<<a, b, c>>)
  BY DEF Orderly, Apart
LEMMA Orders4 ==
  \A a, b, c, d :
    /\ Apart(a, b) /\ Apart(a, c) /\ Apart(a, d)
    /\ Apart(b, c) /\ Apart(b, d)
    /\ Apart(c, d)
    => Orderly(<<a, b, c, d>>)
  BY DEF Orderly, Apart
LEMMA Orders5 ==
  \A a, b, c, d, e :
    /\ Apart(a, b) /\ Apart(a, c) /\ Apart(a, d) /\ Apart(a, e)
    /\ Apart(b, c) /\ Apart(b, d) /\ Apart(b, e)
    /\ Apart(c, d) /\ Apart(c, e)
    /\ Apart(d, e)
    => Orderly(<<a, b, c, d, e>>)
  BY DEF Orderly, Apart
LEMMA Orders7 ==
  \A a, b, c, d, e, f, g :
    /\ Apart(a, b) /\ Apart(a, c) /\ Apart(a, d) /\ Apart(a, e) /\ Apart(a, f)
    /\ Apart(a, g)
    /\ Apart(b, c) /\ Apart(b, d) /\ Apart(b, e) /\ Apart(b, f) /\ Apart(b, g)
    /\ Apart(c, d) /\ Apart(c, e) /\ Apart(c, f) /\ Apart(c, g)
    /\ Apart(d, e) /\ Apart(d, f) /\ Apart(d, g)
    /\ Apart(e, f) /\ Apart(e, g)
    /\ Apart(f, g)
    => Orderly(<<a, b, c, d, e, f, g>>)
  BY DEF Orderly, Apart

-------------------------------------------------------------------------------
(* The tables, one by one: what their entries are, and that they are sound. *)
USE DEF Row, Thing, Cdevs, NeverGivenBack, Leaks, Repeats, LedFamily

LEMMA LedCalls ==
  /\ Len(Led.load) = 6 /\ Row(Led, 1, "mapping", "error") /\ Led.load[1].undo = << >>
  /\ Row(Led, 2, "region", "error") /\ Led.load[2].undo = <<"mapping">>
  /\ Row(Led, 3, "cdev_object", "error") /\ Led.load[3].undo = <<"region", "mapping", "region">>
  /\ Row(Led, 4, "cdev", "error") /\ Led.load[4].undo = <<"cdev", "mapping", "region">>
  /\ Row(Led, 5, "class", "unnoticed") /\ Row(Led, 6, "device", "unnoticed")
  /\ Led.unload = <<"mapping", "device", "class", "cdev", "region">>
  /\ Led.uses = Uses({"mapping"})
  BY DEF Led, LedModule, Row, Try, TryThenLoad, TryUnnoticed, Sure, Prepare

LEMMA LedSound ==
  ASSUME NEW d \in {"led", "led_sem", "led_atomic", "key_char"}
  PROVE  Sound(d, Led)
<1>1. ASSUME NEW i \in 1 .. 6
      PROVE  UndoSound(d, Led, i)
  <2>1. CASE i = 1
    BY <2>1, LedCalls, CoverEntries, Entries0, Orders0 DEF UndoSound, Before, Certain,
           Releasable, Apart, Frees
  <2>2. CASE i = 2
    BY <2>2, LedCalls, CoverEntries, Entries1, Orders1 DEF UndoSound, Before, Certain,
           Releasable, Apart, Frees
  <2>3. CASE i = 3
    BY <2>3, LedCalls, CoverEntries, Entries3, Orders3 DEF UndoSound, Before, Certain,
           Releasable, Apart, Frees
  <2>4. CASE i = 4
    <3>1. Before(Led, 4) = {"mapping", "region", "cdev_object"}
      BY LedCalls DEF Before
    <3>2. Certain(Led, 4) = {"mapping", "region", "cdev_object"}
      BY LedCalls DEF Certain
    <3>3. Orderly(Led.load[4].undo) \/ <<d, "cdev">> \in Repeats
      BY LedCalls, Orders3 DEF Apart, Frees
    <3>4. \/ <<d, "cdev">> \in Leaks
          \/ Before(Led, 4) \subseteq NeverGivenBack \union Cover(Led.load[4].undo)
      BY <2>4, <3>1, <3>2, LedCalls, Entries3, CoverEntries
    <3>5. \/ <<d, "cdev">> \in Repeats
          \/ \A r \in Entries(Led.load[4].undo) :
               Releasable(d, Led, 4, Before(Led, 4) \union {"cdev"}, r)
      <4> HIDE DEF Repeats, Leaks, LedFamily
      <4>1. Entries(Led.load[4].undo) = {"cdev", "mapping", "region"}
        BY LedCalls, Entries3
      <4> QED
        BY <3>2, <4>1 DEF Releasable, Frees
    <3> QED
      BY <2>4, <3>1, <3>3, <3>4, <3>5, LedCalls DEF UndoSound
  <2>5. CASE i \in {5, 6}
    BY <2>5, LedCalls DEF UndoSound
  <2> QED
    BY <2>1, <2>2, <2>3, <2>4, <2>5
<1>2. ExitSound(d, Led)
  <2>1. Before(Led, 7) \subseteq NeverGivenBack \union Cover(Led.unload)
    BY LedCalls, Entries5, CoverEntries DEF Before
  <2>2. Orderly(Led.unload)
    BY LedCalls, Orders5 DEF Apart, Frees
  <2>3. ASSUME NEW r \in Entries(Led.unload)
        PROVE  Releasable(d, Led, 7, Before(Led, 7), r)
    <3>1. Before(Led, 7) = {"mapping", "region", "cdev_object", "cdev", "class", "device"}
      BY LedCalls DEF Before
    <3>2. Certain(Led, 7) = {"mapping", "region", "cdev_object", "cdev"}
      BY LedCalls DEF Certain
    <3>3. CASE r \in {"mapping", "cdev", "region"}
      BY <3>2, <3>3 DEF Releasable, Frees
    <3>4. CASE r \in {"device", "class"}
      BY <3>1, <3>2, <3>4 DEF Releasable, Needs
    <3> QED
      BY <3>3, <3>4, LedCalls, Entries5
  <2> QED
    BY LedCalls, <2>1, <2>2, <2>3 DEF ExitSound
<1>3. UsesSound(d, Led)
  BY LedCalls DEF UsesSound, Certain, Uses, Late
<1>4. /\ IsList(Led.unload) /\ IsList(Led.load[1].undo) /\ IsList(Led.load[2].undo)
      /\ IsList(Led.load[3].undo) /\ IsList(Led.load[4].undo)
  BY LedCalls, Named DEF IsList
<1>5. Typed(Led)
  BY <1>4, LedCalls DEF Typed
<1>6. StartsSound(d, Led)
  BY LedCalls DEF StartsSound
<1> QED
  BY <1>1, <1>2, <1>3, <1>5, <1>6, LedCalls DEF Sound

LEMMA LedSpinlockCalls ==
  /\ Len(LedSpinlock.load) = 7
  /\ Row(LedSpinlock, 1, "mapping", "error") /\ LedSpinlock.load[1].undo = << >>
  /\ Row(LedSpinlock, 2, "region", "error") /\ LedSpinlock.load[2].undo = <<"mapping">>
  /\ Row(LedSpinlock, 3, "cdev_object", "error")
  /\ LedSpinlock.load[3].undo = <<"region", "mapping", "region">>
  /\ Row(LedSpinlock, 4, "cdev", "error")
  /\ LedSpinlock.load[4].undo = <<"cdev", "mapping", "region">>
  /\ Row(LedSpinlock, 5, "class", "unnoticed") /\ Row(LedSpinlock, 6, "device", "unnoticed")
  /\ Row(LedSpinlock, 7, "lock", "cannot")
  /\ LedSpinlock.unload = <<"mapping", "device", "class", "cdev", "region">>
  /\ LedSpinlock.uses = Uses({"mapping", "lock"})
  BY DEF LedSpinlock, Led, LedModule, Row, Try, TryThenLoad, TryUnnoticed, Sure, Prepare

LEMMA LedSpinlockSound ==
  Sound("led_spinlock", LedSpinlock)
<1>1. ASSUME NEW i \in 1 .. 7
      PROVE  UndoSound("led_spinlock", LedSpinlock, i)
  <2>1. CASE i = 1
    BY <2>1, LedSpinlockCalls, CoverEntries, Entries0, Orders0 DEF UndoSound, Before,
           Certain, Releasable, Apart, Frees
  <2>2. CASE i = 2
    <3>1. Before(LedSpinlock, 2) = {"mapping"} /\ Certain(LedSpinlock, 2) = {"mapping"}
      BY LedSpinlockCalls DEF Before, Certain
    <3>2. /\ Entries(LedSpinlock.load[2].undo) = {"mapping"}
          /\ Orderly(LedSpinlock.load[2].undo)
      BY LedSpinlockCalls, Entries1, Orders1
    <3>3. Before(LedSpinlock, 2) \subseteq Cover(LedSpinlock.load[2].undo)
      BY <3>1, <3>2, CoverEntries
    <3>4. \A r \in Entries(LedSpinlock.load[2].undo) :
            Releasable("led_spinlock", LedSpinlock, 2, Before(LedSpinlock, 2) \union {"region"}, r)
      <4> HIDE DEF Repeats, Leaks, LedFamily
      <4> QED
        BY <3>1, <3>2 DEF Releasable, Frees
    <3> QED
      BY <2>2, <3>1, <3>2, <3>3, <3>4, LedSpinlockCalls DEF UndoSound
  <2>3. CASE i = 3
    BY <2>3, LedSpinlockCalls, CoverEntries, Entries3, Orders3 DEF UndoSound, Before,
           Certain, Releasable, Apart, Frees
  <2>4. CASE i = 4
    <3>1. Before(LedSpinlock, 4) = {"mapping", "region", "cdev_object"}
      BY LedSpinlockCalls DEF Before
    <3>2. Certain(LedSpinlock, 4) = {"mapping", "region", "cdev_object"}
      BY LedSpinlockCalls DEF Certain
    <3>3. Orderly(LedSpinlock.load[4].undo) \/ <<"led_spinlock", "cdev">> \in Repeats
      BY LedSpinlockCalls, Orders3 DEF Apart, Frees
    <3>4. \/ <<"led_spinlock", "cdev">> \in Leaks
          \/ Before(LedSpinlock, 4) \subseteq NeverGivenBack \union Cover(LedSpinlock.load[4].undo)
      BY <2>4, <3>1, <3>2, LedSpinlockCalls, Entries3, CoverEntries
    <3>5. \/ <<"led_spinlock", "cdev">> \in Repeats
          \/ \A r \in Entries(LedSpinlock.load[4].undo) :
               Releasable("led_spinlock", LedSpinlock, 4, Before(LedSpinlock, 4) \union {"cdev"}, r)
      <4> HIDE DEF Repeats, Leaks, LedFamily
      <4>1. Entries(LedSpinlock.load[4].undo) = {"cdev", "mapping", "region"}
        BY LedSpinlockCalls, Entries3
      <4> QED
        BY <3>2, <4>1 DEF Releasable, Frees
    <3> QED
      BY <2>4, <3>1, <3>3, <3>4, <3>5, LedSpinlockCalls DEF UndoSound
  <2>5. CASE i \in {5, 6, 7}
    BY <2>5, LedSpinlockCalls DEF UndoSound
  <2> QED
    BY <2>1, <2>2, <2>3, <2>4, <2>5
<1>2. ExitSound("led_spinlock", LedSpinlock)
  <2>1. Before(LedSpinlock, 8) \subseteq NeverGivenBack \union Cover(LedSpinlock.unload)
    BY LedSpinlockCalls, Entries5, CoverEntries DEF Before
  <2>2. Orderly(LedSpinlock.unload)
    BY LedSpinlockCalls, Orders5 DEF Apart, Frees
  <2>3. ASSUME NEW r \in Entries(LedSpinlock.unload)
        PROVE  Releasable("led_spinlock", LedSpinlock, 8, Before(LedSpinlock, 8), r)
    <3>1. Before(LedSpinlock, 8) =
            {"mapping", "region", "cdev_object", "cdev", "class", "device", "lock"}
      BY LedSpinlockCalls DEF Before
    <3>2. Certain(LedSpinlock, 8) = {"mapping", "region", "cdev_object", "cdev", "lock"}
      BY LedSpinlockCalls DEF Certain
    <3>3. CASE r \in {"mapping", "cdev", "region"}
      BY <3>2, <3>3 DEF Releasable, Frees
    <3>4. CASE r \in {"device", "class"}
      BY <3>1, <3>2, <3>4 DEF Releasable, Needs
    <3> QED
      BY <3>3, <3>4, LedSpinlockCalls, Entries5
  <2> QED
    BY LedSpinlockCalls, <2>1, <2>2, <2>3 DEF ExitSound
<1>3. UsesSound("led_spinlock", LedSpinlock)
  BY LedSpinlockCalls DEF UsesSound, Certain, Uses, Late
<1>4. /\ IsList(LedSpinlock.unload) /\ IsList(LedSpinlock.load[1].undo)
      /\ IsList(LedSpinlock.load[2].undo) /\ IsList(LedSpinlock.load[3].undo)
      /\ IsList(LedSpinlock.load[4].undo)
  BY LedSpinlockCalls, Named DEF IsList
<1>5. Typed(LedSpinlock)
  <2>1. ASSUME NEW i \in 1 .. 7
        PROVE  /\ LedSpinlock.load[i].onFailure \in {"error", "success", "unnoticed", "cannot"}
               /\ LedSpinlock.load[i].onFailure \in {"error", "success"} =>
                    IsList(LedSpinlock.load[i].undo)
    <3>1. CASE i \in {1, 2, 3, 4}
      BY <1>4, <3>1, LedSpinlockCalls
    <3>2. CASE i \in {5, 6, 7}
      BY <3>2, LedSpinlockCalls
    <3> QED
      BY <3>1, <3>2
  <2> QED
    BY <1>4, <2>1, LedSpinlockCalls DEF Typed
<1>6. StartsSound("led_spinlock", LedSpinlock)
  BY LedSpinlockCalls DEF StartsSound
<1> QED
  BY <1>1, <1>2, <1>3, <1>5, <1>6, LedSpinlockCalls DEF Sound

LEMMA LedNumsCalls ==
  /\ Len(LedNums.load) = 9
  /\ Row(LedNums, 1, "mapping", "error") /\ LedNums.load[1].undo = << >>
  /\ Row(LedNums, 2, "class", "unnoticed")
  /\ Row(LedNums, 3, "region", "error") /\ LedNums.load[3].undo = <<"mapping">>
  /\ Row(LedNums, 4, "cdev", "error") /\ LedNums.load[4].undo = <<"cdev", "mapping", "region">>
  /\ Row(LedNums, 5, "device", "unnoticed") /\ Row(LedNums, 6, "registers", "cannot")
  /\ Row(LedNums, 7, "cdev1", "error") /\ LedNums.load[7].undo = <<"cdev1", "mapping", "region">>
  /\ Row(LedNums, 8, "device1", "unnoticed") /\ Row(LedNums, 9, "registers1", "cannot")
  /\ LedNums.unload = <<"mapping", "cdev", "cdev1", "device", "device1", "class", "region">>
  /\ LedNums.uses = [Uses({"mapping", "registers"}) EXCEPT !["cdev1"] = {"mapping", "registers1"}]
  BY DEF LedNums, Row, Try, TryThenLoad, TryUnnoticed, Sure, Prepare

LEMMA LedNumsSound ==
  Sound("led_nums", LedNums)
<1>1. ASSUME NEW i \in 1 .. 9
      PROVE  UndoSound("led_nums", LedNums, i)
  <2>1. CASE i = 1
    BY <2>1, LedNumsCalls, CoverEntries, Entries0, Orders0 DEF UndoSound, Before, Certain,
           Releasable, Apart, Frees
  <2>2. CASE i = 3
    <3>1. Before(LedNums, 3) = {"mapping", "class"}
      BY LedNumsCalls DEF Before
    <3>2. Certain(LedNums, 3) = {"mapping"}
      BY LedNumsCalls DEF Certain
    <3>3. Orderly(LedNums.load[3].undo) \/ <<"led_nums", "region">> \in Repeats
      BY LedNumsCalls, Orders1 DEF Apart, Frees
    <3>4. \/ <<"led_nums", "region">> \in Leaks
          \/ Before(LedNums, 3) \subseteq NeverGivenBack \union Cover(LedNums.load[3].undo)
      BY <2>2, <3>1, <3>2, LedNumsCalls, Entries1, CoverEntries
    <3>5. ASSUME NEW r \in Entries(LedNums.load[3].undo)
          PROVE  Releasable("led_nums", LedNums, 3, Before(LedNums, 3) \union {"region"}, r)
      <4>1. CASE r \in {"mapping"}
        BY <4>1, <3>2 DEF Releasable, Frees
      <4> QED
        BY <4>1, LedNumsCalls, Entries1
    <3> QED
      BY <2>2, <3>1, <3>3, <3>4, <3>5, LedNumsCalls DEF UndoSound
  <2>3. CASE i = 4
    <3>1. Before(LedNums, 4) = {"mapping", "class", "region"}
      BY LedNumsCalls DEF Before
    <3>2. Certain(LedNums, 4) = {"mapping", "region"}
      BY LedNumsCalls DEF Certain
    <3>3. Orderly(LedNums.load[4].undo) \/ <<"led_nums", "cdev">> \in Repeats
      BY LedNumsCalls, Orders3 DEF Apart, Frees
    <3>4. \/ <<"led_nums", "cdev">> \in Leaks
          \/ Before(LedNums, 4) \subseteq NeverGivenBack \union Cover(LedNums.load[4].undo)
      BY <2>3, <3>1, <3>2, LedNumsCalls, Entries3, CoverEntries
    <3>5. ASSUME NEW r \in Entries(LedNums.load[4].undo)
          PROVE  Releasable("led_nums", LedNums, 4, Before(LedNums, 4) \union {"cdev"}, r)
      <4>1. CASE r \in {"mapping", "region"}
        BY <4>1, <3>2 DEF Releasable, Frees
      <4>2. CASE r \in {"cdev"}
        BY <4>2, <3>1 DEF Releasable
      <4> QED
        BY <4>1, <4>2, LedNumsCalls, Entries3
    <3> QED
      BY <2>3, <3>1, <3>3, <3>4, <3>5, LedNumsCalls DEF UndoSound
  <2>4. CASE i = 7
    <3>1. Before(LedNums, 7) = {"mapping", "class", "region", "cdev", "device", "registers"}
      BY LedNumsCalls DEF Before
    <3>2. Certain(LedNums, 7) = {"mapping", "region", "cdev", "registers"}
      BY LedNumsCalls DEF Certain
    <3>3. Orderly(LedNums.load[7].undo) \/ <<"led_nums", "cdev1">> \in Repeats
      BY LedNumsCalls, Orders3 DEF Apart, Frees
    <3>4. \/ <<"led_nums", "cdev1">> \in Leaks
          \/ Before(LedNums, 7) \subseteq NeverGivenBack \union Cover(LedNums.load[7].undo)
      BY <2>4, <3>1, <3>2, LedNumsCalls, Entries3, CoverEntries
    <3>5. ASSUME NEW r \in Entries(LedNums.load[7].undo)
          PROVE  Releasable("led_nums", LedNums, 7, Before(LedNums, 7) \union {"cdev1"}, r)
      <4>1. CASE r \in {"mapping", "region"}
        BY <4>1, <3>2 DEF Releasable, Frees
      <4>2. CASE r \in {"cdev1"}
        BY <4>2, <3>1 DEF Releasable
      <4> QED
        BY <4>1, <4>2, LedNumsCalls, Entries3
    <3> QED
      BY <2>4, <3>1, <3>3, <3>4, <3>5, LedNumsCalls DEF UndoSound
  <2>5. CASE i \in {2, 5, 6, 8, 9}
    BY <2>5, LedNumsCalls DEF UndoSound
  <2> QED
    BY <2>1, <2>2, <2>3, <2>4, <2>5
<1>2. ExitSound("led_nums", LedNums)
  <2>1. Before(LedNums, 10) \subseteq NeverGivenBack \union Cover(LedNums.unload)
    BY LedNumsCalls, Entries7, CoverEntries DEF Before
  <2>2. Orderly(LedNums.unload)
    BY LedNumsCalls, Orders7 DEF Apart, Frees
  <2>3. ASSUME NEW r \in Entries(LedNums.unload)
        PROVE  Releasable("led_nums", LedNums, 10, Before(LedNums, 10), r)
    <3>1. Before(LedNums, 10) = {"mapping", "class", "region", "cdev", "device", "registers",
                                  "cdev1", "device1", "registers1"}
      BY LedNumsCalls DEF Before
    <3>2. Certain(LedNums, 10) = {"mapping", "region", "cdev", "registers", "cdev1", "registers1"}
      BY LedNumsCalls DEF Certain
    <3>3. CASE r \in {"mapping", "cdev", "cdev1", "region"}
      BY <3>2, <3>3 DEF Releasable, Frees
    <3>4. CASE r \in {"device", "device1", "class"}
      BY <3>1, <3>2, <3>4 DEF Releasable, Needs
    <3> QED
      BY <3>3, <3>4, LedNumsCalls, Entries7
  <2> QED
    BY LedNumsCalls, <2>1, <2>2, <2>3 DEF ExitSound
<1>3. UsesSound("led_nums", LedNums)
  BY LedNumsCalls DEF UsesSound, Certain, Uses, Late
<1>4. /\ IsList(LedNums.unload) /\ IsList(LedNums.load[1].undo)
      /\ IsList(LedNums.load[3].undo) /\ IsList(LedNums.load[4].undo)
      /\ IsList(LedNums.load[7].undo)
  BY LedNumsCalls, Named DEF IsList
<1>5. Typed(LedNums)
  <2>1. ASSUME NEW i \in 1 .. 9
        PROVE  /\ LedNums.load[i].onFailure \in {"error", "success", "unnoticed", "cannot"}
               /\ LedNums.load[i].onFailure \in {"error", "success"} =>
                    IsList(LedNums.load[i].undo)
    <3>1. CASE i \in {1, 3, 4, 7}
      BY <1>4, <3>1, LedNumsCalls, ZenonT(60)
    <3>2. CASE i \in {2, 5, 6, 8, 9}
      BY <3>2, LedNumsCalls
    <3> QED
      BY <3>1, <3>2
  <2> QED
    BY <1>4, <2>1, LedNumsCalls DEF Typed
<1>6. StartsSound("led_nums", LedNums)
  BY LedNumsCalls DEF StartsSound
<1> QED
  BY <1>1, <1>2, <1>3, <1>5, <1>6, LedNumsCalls DEF Sound

LEMMA LedNumsUnfinishedCalls ==
  /\ Len(LedNumsUnfinished.load) = 2
  /\ Row(LedNumsUnfinished, 1, "region", "error") /\ LedNumsUnfinished.load[1].undo = <<"mapping">>
  /\ Row(LedNumsUnfinished, 2, "cdev", "error")
  /\ LedNumsUnfinished.load[2].undo = <<"cdev", "region">>
  /\ LedNumsUnfinished.unload = <<"cdev", "cdev1", "region">>
  /\ LedNumsUnfinished.uses = Uses({})
  BY DEF LedNumsUnfinished, Row, Try, TryThenLoad, TryUnnoticed, Sure, Prepare

LEMMA LedNumsUnfinishedSound ==
  Sound("led_nums_wiscom", LedNumsUnfinished)
<1>1. ASSUME NEW i \in 1 .. 2
      PROVE  UndoSound("led_nums_wiscom", LedNumsUnfinished, i)
  BY LedNumsUnfinishedCalls, CoverEntries, Entries1, Entries2, Orders1, Orders2
     DEF UndoSound, Before, Certain, Releasable, Apart, Frees
<1>2. ExitSound("led_nums_wiscom", LedNumsUnfinished)
  BY LedNumsUnfinishedCalls, CoverEntries, Entries3, Orders3 DEF ExitSound, Before, Certain,
         Releasable, Apart, Frees, Needs
<1>3. UsesSound("led_nums_wiscom", LedNumsUnfinished)
  BY LedNumsUnfinishedCalls DEF UsesSound, Certain, Uses, Late
<1>4. /\ IsList(LedNumsUnfinished.unload) /\ IsList(LedNumsUnfinished.load[1].undo)
      /\ IsList(LedNumsUnfinished.load[2].undo)
  BY LedNumsUnfinishedCalls, Named DEF IsList
<1>5. Typed(LedNumsUnfinished)
  BY <1>4, LedNumsUnfinishedCalls DEF Typed
<1>6. StartsSound("led_nums_wiscom", LedNumsUnfinished)
  BY LedNumsUnfinishedCalls DEF StartsSound
<1> QED
  BY <1>1, <1>2, <1>3, <1>5, <1>6, LedNumsUnfinishedCalls DEF Sound

LEMMA GlobalFifoCalls ==
  /\ Len(GlobalFifo.load) = 5
  /\ Row(GlobalFifo, 1, "region", "error") /\ GlobalFifo.load[1].undo = << >>
  /\ Row(GlobalFifo, 2, "memory", "error") /\ GlobalFifo.load[2].undo = <<"region">>
  /\ Row(GlobalFifo, 3, "cdev", "unnoticed") /\ Row(GlobalFifo, 4, "semaphore", "cannot")
  /\ Row(GlobalFifo, 5, "queues", "cannot")
  /\ GlobalFifo.unload = <<"cdev", "memory", "region">>
  /\ GlobalFifo.uses = Uses({"memory", "semaphore", "queues"})
  BY DEF GlobalFifo, Row, Try, TryThenLoad, TryUnnoticed, Sure, Prepare

LEMMA GlobalFifoSound ==
  ASSUME NEW d \in {"globalfifo", "globalfifo_async"}
  PROVE  Sound(d, GlobalFifo)
<1>1. ASSUME NEW i \in 1 .. 5
      PROVE  UndoSound(d, GlobalFifo, i)
  <2>1. CASE i = 1
    BY <2>1, GlobalFifoCalls, CoverEntries, Entries0, Orders0 DEF UndoSound, Before,
           Certain, Releasable, Apart, Frees
  <2>2. CASE i = 2
    BY <2>2, GlobalFifoCalls, CoverEntries, Entries1, Orders1 DEF UndoSound, Before,
           Certain, Releasable, Apart, Frees
  <2>3. CASE i \in {3, 4, 5}
    BY <2>3, GlobalFifoCalls DEF UndoSound
  <2> QED
    BY <2>1, <2>2, <2>3
<1>2. ExitSound(d, GlobalFifo)
  BY GlobalFifoCalls, CoverEntries, Entries3, Orders3 DEF ExitSound, Before, Certain,
         Releasable, Apart, Frees, Needs
<1>3. UsesSound(d, GlobalFifo)
  BY GlobalFifoCalls DEF UsesSound, Certain, Uses, Late
<1>4. /\ IsList(GlobalFifo.unload) /\ IsList(GlobalFifo.load[1].undo)
      /\ IsList(GlobalFifo.load[2].undo)
  BY GlobalFifoCalls, Named DEF IsList
<1>5. Typed(GlobalFifo)
  BY <1>4, GlobalFifoCalls DEF Typed
<1>6. StartsSound(d, GlobalFifo)
  BY GlobalFifoCalls DEF StartsSound
<1> QED
  BY <1>1, <1>2, <1>3, <1>5, <1>6, GlobalFifoCalls DEF Sound

LEMMA GlobalMemCalls ==
  /\ Len(GlobalMem.load) = 3
  /\ Row(GlobalMem, 1, "region", "error") /\ GlobalMem.load[1].undo = << >>
  /\ Row(GlobalMem, 2, "memory", "error") /\ GlobalMem.load[2].undo = <<"region">>
  /\ Row(GlobalMem, 3, "cdev", "unnoticed")
  /\ GlobalMem.unload = <<"cdev", "memory", "region">> /\ GlobalMem.uses = Uses({"memory"})
  BY DEF GlobalMem, GlobalFifo, Row, Try, TryThenLoad, TryUnnoticed, Sure, Prepare

LEMMA GlobalMemSound ==
  Sound("globalmem", GlobalMem)
<1>1. ASSUME NEW i \in 1 .. 3
      PROVE  UndoSound("globalmem", GlobalMem, i)
  <2>1. CASE i = 1
    BY <2>1, GlobalMemCalls, CoverEntries, Entries0, Orders0 DEF UndoSound, Before, Certain,
           Releasable, Apart, Frees
  <2>2. CASE i = 2
    BY <2>2, GlobalMemCalls, CoverEntries, Entries1, Orders1 DEF UndoSound, Before, Certain,
           Releasable, Apart, Frees
  <2>3. CASE i \in {3}
    BY <2>3, GlobalMemCalls DEF UndoSound
  <2> QED
    BY <2>1, <2>2, <2>3
<1>2. ExitSound("globalmem", GlobalMem)
  BY GlobalMemCalls, CoverEntries, Entries3, Orders3 DEF ExitSound, Before, Certain,
         Releasable, Apart, Frees, Needs
<1>3. UsesSound("globalmem", GlobalMem)
  BY GlobalMemCalls DEF UsesSound, Certain, Uses, Late
<1>4. /\ IsList(GlobalMem.unload) /\ IsList(GlobalMem.load[1].undo)
      /\ IsList(GlobalMem.load[2].undo)
  BY GlobalMemCalls, Named DEF IsList
<1>5. Typed(GlobalMem)
  BY <1>4, GlobalMemCalls DEF Typed
<1>6. StartsSound("globalmem", GlobalMem)
  BY GlobalMemCalls DEF StartsSound
<1> QED
  BY <1>1, <1>2, <1>3, <1>5, <1>6, GlobalMemCalls DEF Sound

LEMMA GlobalMemTwoCalls ==
  /\ Len(GlobalMemTwo.load) = 4
  /\ Row(GlobalMemTwo, 1, "region", "error") /\ GlobalMemTwo.load[1].undo = << >>
  /\ Row(GlobalMemTwo, 2, "memory", "error") /\ GlobalMemTwo.load[2].undo = <<"region_of_one">>
  /\ Row(GlobalMemTwo, 3, "cdev", "unnoticed") /\ Row(GlobalMemTwo, 4, "cdev1", "unnoticed")
  /\ GlobalMemTwo.unload = <<"cdev", "cdev1", "memory", "region">>
  /\ GlobalMemTwo.uses = Uses({"memory"})
  BY DEF GlobalMemTwo, Row, Try, TryThenLoad, TryUnnoticed, Sure, Prepare

LEMMA GlobalMemTwoSound ==
  Sound("globalmem_two", GlobalMemTwo)
<1>1. ASSUME NEW i \in 1 .. 4
      PROVE  UndoSound("globalmem_two", GlobalMemTwo, i)
  BY GlobalMemTwoCalls, CoverEntries, Entries0, Entries1, Orders0, Orders1 DEF UndoSound,
         Before, Certain, Releasable, Apart, Frees
<1>2. ExitSound("globalmem_two", GlobalMemTwo)
  BY GlobalMemTwoCalls, CoverEntries, Entries4, Orders4 DEF ExitSound, Before, Certain,
         Releasable, Apart, Frees, Needs
<1>3. UsesSound("globalmem_two", GlobalMemTwo)
  BY GlobalMemTwoCalls DEF UsesSound, Certain, Uses, Late
<1>4. /\ IsList(GlobalMemTwo.unload) /\ IsList(GlobalMemTwo.load[1].undo)
      /\ IsList(GlobalMemTwo.load[2].undo)
  BY GlobalMemTwoCalls, Named DEF IsList
<1>5. Typed(GlobalMemTwo)
  BY <1>4, GlobalMemTwoCalls DEF Typed
<1>6. StartsSound("globalmem_two", GlobalMemTwo)
  BY GlobalMemTwoCalls DEF StartsSound
<1> QED
  BY <1>1, <1>2, <1>3, <1>5, <1>6, GlobalMemTwoCalls DEF Sound

LEMMA HelloWorldCalls ==
  /\ Len(HelloWorld.load) = 2
  /\ Row(HelloWorld, 1, "region", "success") /\ HelloWorld.load[1].undo = << >>
  /\ Row(HelloWorld, 2, "cdev", "error") /\ HelloWorld.load[2].undo = <<"region">>
  /\ HelloWorld.unload = <<"region", "cdev">> /\ HelloWorld.uses = Uses({})
  BY DEF HelloWorld, Row, Try, TryThenLoad, TryUnnoticed, Sure, Prepare

LEMMA HelloWorldSound ==
  ASSUME NEW d \in {"helloworld", "virtdev"}
  PROVE  Sound(d, HelloWorld)
<1>1. ASSUME NEW i \in 1 .. 2
      PROVE  UndoSound(d, HelloWorld, i)
  <2>1. CASE i = 1
    BY <2>1, HelloWorldCalls, CoverEntries, Entries0, Orders0 DEF UndoSound, Before,
           Certain, Releasable, Apart, Frees
  <2>2. CASE i = 2
    BY <2>2, HelloWorldCalls, CoverEntries, Entries1, Orders1 DEF UndoSound, Before,
           Certain, Releasable, Apart, Frees
  <2> QED
    BY <2>1, <2>2
<1>2. ExitSound(d, HelloWorld)
  BY HelloWorldCalls, CoverEntries, Entries2, Orders2 DEF ExitSound, Before, Certain,
         Releasable, Apart, Frees, Needs
<1>3. UsesSound(d, HelloWorld)
  BY HelloWorldCalls DEF UsesSound, Certain, Uses, Late
<1>4. /\ IsList(HelloWorld.unload) /\ IsList(HelloWorld.load[1].undo)
      /\ IsList(HelloWorld.load[2].undo)
  BY HelloWorldCalls, Named DEF IsList
<1>5. Typed(HelloWorld)
  BY <1>4, HelloWorldCalls DEF Typed
<1>6. StartsSound(d, HelloWorld)
  BY HelloWorldCalls DEF StartsSound
<1> QED
  BY <1>1, <1>2, <1>3, <1>5, <1>6, HelloWorldCalls DEF Sound

LEMMA WaitQueueCalls ==
  /\ Len(WaitQueue.load) = 4
  /\ Row(WaitQueue, 1, "region", "success") /\ WaitQueue.load[1].undo = << >>
  /\ Row(WaitQueue, 2, "cdev", "error") /\ WaitQueue.load[2].undo = <<"region">>
  /\ Row(WaitQueue, 3, "queues", "cannot") /\ Row(WaitQueue, 4, "thread", "unnoticed")
  /\ WaitQueue.unload = <<"thread", "region", "cdev">> /\ WaitQueue.uses = Uses({"queues"})
  BY DEF WaitQueue, HelloWorld, Row, Try, TryThenLoad, TryUnnoticed, Sure, Prepare

LEMMA WaitQueueSound ==
  Sound("waitqueue", WaitQueue)
<1>1. ASSUME NEW i \in 1 .. 4
      PROVE  UndoSound("waitqueue", WaitQueue, i)
  <2>1. CASE i = 1
    BY <2>1, WaitQueueCalls, CoverEntries, Entries0, Orders0 DEF UndoSound, Before, Certain,
           Releasable, Apart, Frees
  <2>2. CASE i = 2
    BY <2>2, WaitQueueCalls, CoverEntries, Entries1, Orders1 DEF UndoSound, Before, Certain,
           Releasable, Apart, Frees
  <2>3. CASE i \in {3, 4}
    BY <2>3, WaitQueueCalls DEF UndoSound
  <2> QED
    BY <2>1, <2>2, <2>3
<1>2. ExitSound("waitqueue", WaitQueue)
  BY WaitQueueCalls, CoverEntries, Entries3, Orders3 DEF ExitSound, Before, Certain,
         Releasable, Apart, Frees, Needs
<1>3. UsesSound("waitqueue", WaitQueue)
  BY WaitQueueCalls DEF UsesSound, Certain, Uses, Late
<1>4. /\ IsList(WaitQueue.unload) /\ IsList(WaitQueue.load[1].undo)
      /\ IsList(WaitQueue.load[2].undo)
  BY WaitQueueCalls, Named DEF IsList
<1>5. Typed(WaitQueue)
  BY <1>4, WaitQueueCalls DEF Typed
<1>6. StartsSound("waitqueue", WaitQueue)
  BY WaitQueueCalls DEF StartsSound
<1> QED
  BY <1>1, <1>2, <1>3, <1>5, <1>6, WaitQueueCalls DEF Sound

LEMMA CompleteTestCalls ==
  /\ Len(CompleteTest.load) = 4
  /\ Row(CompleteTest, 1, "region", "success") /\ CompleteTest.load[1].undo = << >>
  /\ Row(CompleteTest, 2, "cdev", "error") /\ CompleteTest.load[2].undo = <<"region">>
  /\ Row(CompleteTest, 3, "completion", "cannot")
  /\ Row(CompleteTest, 4, "thread", "unnoticed")
  /\ CompleteTest.unload = <<"region", "cdev">> /\ CompleteTest.uses = Uses({"completion"})
  BY DEF CompleteTest, HelloWorld, Row, Try, TryThenLoad, TryUnnoticed, Sure, Prepare

LEMMA CompleteTestSound ==
  Sound("complete_test", CompleteTest)
<1>1. ASSUME NEW i \in 1 .. 4
      PROVE  UndoSound("complete_test", CompleteTest, i)
  <2>1. CASE i = 1
    BY <2>1, CompleteTestCalls, CoverEntries, Entries0, Orders0 DEF UndoSound, Before,
           Certain, Releasable, Apart, Frees
  <2>2. CASE i = 2
    BY <2>2, CompleteTestCalls, CoverEntries, Entries1, Orders1 DEF UndoSound, Before,
           Certain, Releasable, Apart, Frees
  <2>3. CASE i \in {3, 4}
    BY <2>3, CompleteTestCalls DEF UndoSound
  <2> QED
    BY <2>1, <2>2, <2>3
<1>2. ExitSound("complete_test", CompleteTest)
  BY CompleteTestCalls, CoverEntries, Entries2, Orders2 DEF ExitSound, Before, Certain,
         Releasable, Apart, Frees, Needs
<1>3. UsesSound("complete_test", CompleteTest)
  BY CompleteTestCalls DEF UsesSound, Certain, Uses, Late
<1>4. /\ IsList(CompleteTest.unload) /\ IsList(CompleteTest.load[1].undo)
      /\ IsList(CompleteTest.load[2].undo)
  BY CompleteTestCalls, Named DEF IsList
<1>5. Typed(CompleteTest)
  BY <1>4, CompleteTestCalls DEF Typed
<1>6. StartsSound("complete_test", CompleteTest)
  BY CompleteTestCalls DEF StartsSound
<1> QED
  BY <1>1, <1>2, <1>3, <1>5, <1>6, CompleteTestCalls DEF Sound

LEMMA SecondTimerCalls ==
  /\ Len(SecondTimer.load) = 1 /\ Row(SecondTimer, 1, "timer", "cannot")
  /\ SecondTimer.unload = <<"timer">> /\ SecondTimer.uses = Uses({})
  BY DEF SecondTimer, Row, Try, TryThenLoad, TryUnnoticed, Sure, Prepare

LEMMA SecondTimerSound ==
  Sound("timer", SecondTimer)
<1>1. ASSUME NEW i \in 1 .. 1
      PROVE  UndoSound("timer", SecondTimer, i)
  BY SecondTimerCalls DEF UndoSound
<1>2. ExitSound("timer", SecondTimer)
  BY SecondTimerCalls, CoverEntries, Entries1, Orders1 DEF ExitSound, Before, Certain,
         Releasable, Apart, Frees, Needs
<1>3. UsesSound("timer", SecondTimer)
  BY SecondTimerCalls DEF UsesSound, Certain, Uses, Late
<1>4. /\ IsList(SecondTimer.unload)
  BY SecondTimerCalls, Named DEF IsList
<1>5. Typed(SecondTimer)
  BY <1>4, SecondTimerCalls DEF Typed
<1>6. StartsSound("timer", SecondTimer)
  BY SecondTimerCalls DEF StartsSound
<1> QED
  BY <1>1, <1>2, <1>3, <1>5, <1>6, SecondTimerCalls DEF Sound

LEMMA ButtonsCalls ==
  /\ Len(Buttons.load) = 1
  /\ Row(Buttons, 1, "misc", "error") /\ Buttons.load[1].undo = << >>
  /\ Buttons.unload = <<"misc">> /\ Buttons.uses = Uses({})
  BY DEF Buttons, Row, Try, TryThenLoad, TryUnnoticed, Sure, Prepare

LEMMA ButtonsSound ==
  ASSUME NEW d \in {"buttons", "buttons_tsklet", "buttons_workqueue"}
  PROVE  Sound(d, Buttons)
<1>1. ASSUME NEW i \in 1 .. 1
      PROVE  UndoSound(d, Buttons, i)
  BY ButtonsCalls, CoverEntries, Entries0, Orders0 DEF UndoSound, Before, Certain,
         Releasable, Apart, Frees
<1>2. ExitSound(d, Buttons)
  BY ButtonsCalls, CoverEntries, Entries1, Orders1 DEF ExitSound, Before, Certain,
         Releasable, Apart, Frees, Needs
<1>3. UsesSound(d, Buttons)
  BY ButtonsCalls DEF UsesSound, Certain, Uses, Late
<1>4. /\ IsList(Buttons.unload) /\ IsList(Buttons.load[1].undo)
  BY ButtonsCalls, Named DEF IsList
<1>5. Typed(Buttons)
  BY <1>4, ButtonsCalls DEF Typed
<1>6. StartsSound(d, Buttons)
  BY ButtonsCalls DEF StartsSound
<1> QED
  BY <1>1, <1>2, <1>3, <1>5, <1>6, ButtonsCalls DEF Sound

LEMMA KobjectTestCalls ==
  /\ Len(KobjectTest.load) = 1
  /\ Row(KobjectTest, 1, "my_kobj", "error") /\ KobjectTest.load[1].undo = << >>
  /\ KobjectTest.unload = << >> /\ KobjectTest.uses = Uses({})
  BY DEF KobjectTest, Row, Try, TryThenLoad, TryUnnoticed, Sure, Prepare

LEMMA KobjectTestSound ==
  Sound("kobject_test", KobjectTest)
<1>1. ASSUME NEW i \in 1 .. 1
      PROVE  UndoSound("kobject_test", KobjectTest, i)
  BY KobjectTestCalls, CoverEntries, Entries0, Orders0 DEF UndoSound, Before, Certain,
         Releasable, Apart, Frees
<1>2. ExitSound("kobject_test", KobjectTest)
  BY KobjectTestCalls, CoverEntries, Entries0, Orders0 DEF ExitSound, Before, Certain,
         Releasable, Apart, Frees, Needs
<1>3. UsesSound("kobject_test", KobjectTest)
  BY KobjectTestCalls DEF UsesSound, Certain, Uses, Late
<1>4. /\ IsList(KobjectTest.unload) /\ IsList(KobjectTest.load[1].undo)
  BY KobjectTestCalls, Named DEF IsList
<1>5. Typed(KobjectTest)
  BY <1>4, KobjectTestCalls DEF Typed
<1>6. StartsSound("kobject_test", KobjectTest)
  BY KobjectTestCalls DEF StartsSound
<1> QED
  BY <1>1, <1>2, <1>3, <1>5, <1>6, KobjectTestCalls DEF Sound

LEMMA KsetTestCalls ==
  /\ Len(KsetTest.load) = 3 /\ Row(KsetTest, 1, "kset_p", "unnoticed")
  /\ Row(KsetTest, 2, "kset_c", "error") /\ KsetTest.load[2].undo = <<"kset_p">>
  /\ Row(KsetTest, 3, "my_kobj", "unnoticed")
  /\ KsetTest.unload = <<"my_kobj", "kset_p", "kset_c">> /\ KsetTest.uses = Uses({})
  BY DEF KsetTest, Row, Try, TryThenLoad, TryUnnoticed, Sure, Prepare

LEMMA KsetTestSound ==
  Sound("kset_test", KsetTest)
<1>1. ASSUME NEW i \in 1 .. 3
      PROVE  UndoSound("kset_test", KsetTest, i)
  <2>1. CASE i = 2
    BY <2>1, KsetTestCalls, CoverEntries, Entries1, Orders1 DEF UndoSound, Before, Certain,
           Releasable, Apart, Frees
  <2>2. CASE i \in {1, 3}
    BY <2>2, KsetTestCalls DEF UndoSound
  <2> QED
    BY <2>1, <2>2
<1>2. ExitSound("kset_test", KsetTest)
  <2>1. /\ Before(KsetTest, 4) = {"kset_p", "kset_c", "my_kobj"}
        /\ Certain(KsetTest, 4) = {"kset_c"}
    BY KsetTestCalls DEF Before, Certain
  <2>2. /\ Entries(KsetTest.unload) = {"my_kobj", "kset_p", "kset_c"}
        /\ Orderly(KsetTest.unload)
    BY KsetTestCalls, Entries3, Orders3 DEF Apart, Frees
  <2>3. Before(KsetTest, 4) \subseteq Cover(KsetTest.unload)
    BY <2>1, <2>2, CoverEntries
  <2>4. \A r \in Entries(KsetTest.unload) :
          Releasable("kset_test", KsetTest, 4, Before(KsetTest, 4), r)
    <3> HIDE DEF Repeats, Leaks, LedFamily
    <3> QED
      BY <2>1, <2>2 DEF Releasable, Frees
  <2> QED
    BY <2>2, <2>3, <2>4, KsetTestCalls DEF ExitSound
<1>3. UsesSound("kset_test", KsetTest)
  BY KsetTestCalls DEF UsesSound, Certain, Uses, Late
<1>4. /\ IsList(KsetTest.unload) /\ IsList(KsetTest.load[2].undo)
  BY KsetTestCalls, Named DEF IsList
<1>5. Typed(KsetTest)
  BY <1>4, KsetTestCalls DEF Typed
<1>6. StartsSound("kset_test", KsetTest)
  BY KsetTestCalls DEF StartsSound
<1> QED
  BY <1>1, <1>2, <1>3, <1>5, <1>6, KsetTestCalls DEF Sound

LEMMA KsetTestOrigCalls ==
  /\ Len(KsetTestOrig.load) = 2 /\ Row(KsetTestOrig, 1, "kset_p", "unnoticed")
  /\ Row(KsetTestOrig, 2, "kset_c", "success") /\ KsetTestOrig.load[2].undo = <<"kset_p">>
  /\ KsetTestOrig.unload = <<"kset_p", "kset_c">> /\ KsetTestOrig.uses = Uses({})
  BY DEF KsetTestOrig, Row, Try, TryThenLoad, TryUnnoticed, Sure, Prepare

LEMMA KsetTestOrigSound ==
  Sound("kset_test_orig", KsetTestOrig)
<1>1. ASSUME NEW i \in 1 .. 2
      PROVE  UndoSound("kset_test_orig", KsetTestOrig, i)
  <2>1. CASE i = 1
    BY <2>1, KsetTestOrigCalls DEF UndoSound
  <2>2. CASE i = 2
    <3>1. Before(KsetTestOrig, 2) = {"kset_p"}
      BY KsetTestOrigCalls DEF Before
    <3>2. Before(KsetTestOrig, 2) \subseteq Cover(KsetTestOrig.load[2].undo)
      BY <3>1, KsetTestOrigCalls, CoverEntries, Entries1 DEF Frees
    <3>3. <<"kset_test_orig", "kset_c">> \in Repeats
      OBVIOUS
    <3> QED
      BY <2>2, <3>1, <3>2, <3>3, KsetTestOrigCalls DEF UndoSound
  <2> QED
    BY <2>1, <2>2
<1>2. ExitSound("kset_test_orig", KsetTestOrig)
  BY KsetTestOrigCalls, CoverEntries, Entries2, Orders2 DEF ExitSound, Before, Certain,
         Releasable, Apart, Frees, Needs
<1>3. UsesSound("kset_test_orig", KsetTestOrig)
  BY KsetTestOrigCalls DEF UsesSound, Certain, Uses, Late
<1>4. /\ IsList(KsetTestOrig.unload) /\ IsList(KsetTestOrig.load[2].undo)
  BY KsetTestOrigCalls, Named DEF IsList
<1>5. Typed(KsetTestOrig)
  BY <1>4, KsetTestOrigCalls DEF Typed
<1>6. StartsSound("kset_test_orig", KsetTestOrig)
  BY KsetTestOrigCalls DEF StartsSound
<1> QED
  BY <1>1, <1>2, <1>3, <1>5, <1>6, KsetTestOrigCalls DEF Sound

LEMMA VirtBusCalls ==
  /\ Len(VirtBus.load) = 2 /\ Row(VirtBus, 1, "bus", "unnoticed")
  /\ Row(VirtBus, 2, "bus_file", "error") /\ VirtBus.load[2].undo = << >>
  /\ VirtBus.unload = <<"bus_file", "bus">> /\ VirtBus.uses = Uses({})
  BY DEF VirtBus, Row, Try, TryThenLoad, TryUnnoticed, Sure, Prepare

LEMMA VirtBusSound ==
  Sound("virt_bus", VirtBus)
<1>1. ASSUME NEW i \in 1 .. 2
      PROVE  UndoSound("virt_bus", VirtBus, i)
  BY VirtBusCalls, CoverEntries, Entries0, Orders0 DEF UndoSound, Before, Certain,
         Releasable, Apart, Frees
<1>2. ExitSound("virt_bus", VirtBus)
  BY VirtBusCalls, CoverEntries, Entries2, Orders2 DEF ExitSound, Before, Certain,
         Releasable, Apart, Frees, Needs
<1>3. UsesSound("virt_bus", VirtBus)
  BY VirtBusCalls DEF UsesSound, Certain, Uses, Late
<1>4. /\ IsList(VirtBus.unload) /\ IsList(VirtBus.load[2].undo)
  BY VirtBusCalls, Named DEF IsList
<1>5. Typed(VirtBus)
  BY <1>4, VirtBusCalls DEF Typed
<1>6. StartsSound("virt_bus", VirtBus)
  BY VirtBusCalls DEF StartsSound
<1> QED
  BY <1>1, <1>2, <1>3, <1>5, <1>6, VirtBusCalls DEF Sound

LEMMA VirtDeviceCalls ==
  /\ Len(VirtDevice.load) = 2
  /\ Row(VirtDevice, 1, "device_object", "error") /\ VirtDevice.load[1].undo = << >>
  /\ Row(VirtDevice, 2, "device_file", "error") /\ VirtDevice.load[2].undo = << >>
  /\ VirtDevice.unload = <<"device_file", "device_object">> /\ VirtDevice.uses = Uses({})
  BY DEF VirtDevice, Row, Try, TryThenLoad, TryUnnoticed, Sure, Prepare

LEMMA VirtDeviceSound ==
  Sound("virt_device", VirtDevice)
<1>1. ASSUME NEW i \in 1 .. 2
      PROVE  UndoSound("virt_device", VirtDevice, i)
  BY VirtDeviceCalls, CoverEntries, Entries0, Orders0 DEF UndoSound, Before, Certain,
         Releasable, Apart, Frees
<1>2. ExitSound("virt_device", VirtDevice)
  BY VirtDeviceCalls, CoverEntries, Entries2, Orders2 DEF ExitSound, Before, Certain,
         Releasable, Apart, Frees, Needs
<1>3. UsesSound("virt_device", VirtDevice)
  BY VirtDeviceCalls DEF UsesSound, Certain, Uses, Late
<1>4. /\ IsList(VirtDevice.unload) /\ IsList(VirtDevice.load[1].undo)
      /\ IsList(VirtDevice.load[2].undo)
  BY VirtDeviceCalls, Named DEF IsList
<1>5. Typed(VirtDevice)
  BY <1>4, VirtDeviceCalls DEF Typed
<1>6. StartsSound("virt_device", VirtDevice)
  BY VirtDeviceCalls DEF StartsSound
<1> QED
  BY <1>1, <1>2, <1>3, <1>5, <1>6, VirtDeviceCalls DEF Sound

HIDE DEF Row, Thing, Cdevs, NeverGivenBack, Leaks, Repeats, LedFamily

LEMMA TablesSound == \A d \in DOMAIN DriverTable : Sound(d, DriverTable[d])
<1>1. SUFFICES ASSUME NEW d \in DOMAIN DriverTable
               PROVE  Sound(d, DriverTable[d])
  OBVIOUS
<1>2. CASE d \in {"led", "led_sem", "led_atomic", "key_char"}
  <2>1. DriverTable[d] = Led
    BY <1>2 DEF DriverTable, LedSem, LedAtomic, KeyChar
  <2> QED
    BY <1>2, <2>1, LedSound
<1>3. CASE d \in {"globalfifo", "globalfifo_async"}
  <2>1. DriverTable[d] = GlobalFifo
    BY <1>3 DEF DriverTable, GlobalFifoAsync
  <2> QED
    BY <1>3, <2>1, GlobalFifoSound
<1>4. CASE d \in {"helloworld", "virtdev"}
  <2>1. DriverTable[d] = HelloWorld
    BY <1>4 DEF DriverTable, VirtDev
  <2> QED
    BY <1>4, <2>1, HelloWorldSound
<1>5. CASE d \in {"buttons", "buttons_tsklet", "buttons_workqueue"}
  <2>1. DriverTable[d] = Buttons
    BY <1>5 DEF DriverTable, ButtonsTasklet, ButtonsWork
  <2> QED
    BY <1>5, <2>1, ButtonsSound
<1>6. CASE d \in {"led_spinlock", "led_nums", "led_nums_wiscom", "globalmem", "globalmem_two",
                  "waitqueue", "complete_test"}
  BY <1>6, LedSpinlockSound, LedNumsSound, LedNumsUnfinishedSound, GlobalMemSound,
     GlobalMemTwoSound, WaitQueueSound, CompleteTestSound DEF DriverTable
<1>7. CASE d \in {"timer", "kobject_test", "kset_test", "kset_test_orig", "virt_bus",
                  "virt_device"}
  BY <1>7, SecondTimerSound, KobjectTestSound, KsetTestSound, KsetTestOrigSound, VirtBusSound,
     VirtDeviceSound DEF DriverTable
<1> QED
  BY <1>2, <1>3, <1>4, <1>5, <1>6, <1>7 DEF DriverTable
-------------------------------------------------------------------------------
(* While the init function runs, and when it has made all its calls: what was tried  *)
(* is held or has failed, and what could not go unnoticed is held.                    *)
Got == /\ \A j \in 1 .. at - 1 : Thing(This, j) \in held \union failed
       /\ Certain(This, at) \subseteq held
       /\ \A t \in held : Needs(t) \subseteq held

(* A module whose init function failed and reported success. *)
LiveAnyway == phase = "live" /\ at <= Len(This.load)

LoadInv ==
  /\ driver \in DOMAIN DriverTable
  /\ at \in 1 .. Len(This.load) + 1
  /\ phase \in {"loading", "undoing", "live", "exiting", "refused", "removed"}
  /\ held \subseteq Before(This, at)
  /\ phase \in {"loading", "live"} /\ ~LiveAnyway => Got
  /\ phase = "undoing" => /\ at <= Len(This.load) /\ Thing(This, at) \in failed
                          /\ Step.onFailure \in {"error", "success"}
                          /\ result = IF Step.onFailure = "error" THEN -1 ELSE 0
  /\ IsList(todo)
  /\ phase \notin {"undoing", "exiting"} => todo = << >>

(* What is still to be given back covers what is kept. *)
KeptInv ==
  /\ phase = "undoing" => \/ Kept \subseteq Cover(todo)
                          \/ Step.onFailure = "error" /\ Has(Leaks)
  /\ phase = "refused" => Kept = {} \/ Has(Leaks)
  /\ LiveAnyway => Kept = {}
  /\ phase = "exiting" => driver = "kobject_test" \/ Kept \subseteq Cover(todo)
  /\ phase = "removed" => driver = "kobject_test" \/ Kept = {}

(* Each release still to come finds what it gives back, or is tolerated. *)
Excused  == \/ Has(Repeats)
            \/ driver = "led_nums_wiscom" /\ phase \in {"exiting", "removed"}
Found(t) == t = "thread" \/ Frees(t) \intersect held # {} \/ Tolerated(t)

OnceInv ==
  /\ phase \in {"undoing", "exiting"} =>
       \/ Excused
       \/ Orderly(todo) /\ \A r \in Entries(todo) : Found(r)
  /\ LiveAnyway => Has(Repeats)

(* Files are open only while the cdev is there and the module not given up. *)
FileInv ==
  /\ file \in [Task -> Cdevs \union {NoFile}]
  /\ calling \subseteq {p \in Task : file[p] # NoFile}
  /\ ~Has({<<"led_nums", "cdev1">>}) =>
       /\ \A p \in Task : file[p] # NoFile => /\ phase \in {"loading", "live"} /\ ~LiveAnyway
                                              /\ file[p] \in held
       /\ phase = "undoing" \/ LiveAnyway => Cdevs \intersect held = {}

LoadInvs == LoadInv /\ KeptInv /\ OnceInv /\ FileInv
-------------------------------------------------------------------------------
LEMMA ThisSound ==
  ASSUME driver \in DOMAIN DriverTable
  PROVE  Sound(driver, This) /\ Len(This.load) \in Nat
  BY TablesSound DEF This, Sound, Typed

LEMMA BeforeStep ==
  ASSUME NEW m, NEW i \in Nat \ {0}
  PROVE  /\ Before(m, i + 1) = Before(m, i) \union {Thing(m, i)}
         /\ Certain(m, i + 1) = IF m.load[i].onFailure = "unnoticed" THEN Certain(m, i)
                                ELSE Certain(m, i) \union {Thing(m, i)}
         /\ Certain(m, i) \subseteq Before(m, i)
<1>1. Before(m, i + 1) = Before(m, i) \union {Thing(m, i)}
  BY DEF Before
<1>2. {k \in 1 .. (i + 1) - 1 : m.load[k].onFailure # "unnoticed"}
        = {k \in 1 .. i - 1 : m.load[k].onFailure # "unnoticed"}
            \union (IF m.load[i].onFailure = "unnoticed" THEN {} ELSE {i})
  OBVIOUS
<1>3. Certain(m, i + 1) = IF m.load[i].onFailure = "unnoticed" THEN Certain(m, i)
                          ELSE Certain(m, i) \union {Thing(m, i)}
  BY <1>2 DEF Certain
<1>4. Certain(m, i) \subseteq Before(m, i)
  BY DEF Certain, Before
<1> QED
  BY <1>1, <1>3, <1>4

LEMMA NothingBefore == \A m : Before(m, 1) = {} /\ Certain(m, 1) = {}
  BY DEF Before, Certain

(* A list of releases and its tail. *)
LEMMA NoneLeft == IsList(<< >>) /\ Cover(<< >>) = {}
  BY Entries0 DEF IsList, Cover

LEMMA HeadAndTail ==
  ASSUME NEW s, IsList(s), s # << >>
  PROVE  /\ IsList(Tail(s))
         /\ Entries(s) = {Head(s)} \union Entries(Tail(s))
         /\ Cover(s) = Frees(Head(s)) \union Cover(Tail(s))
<1>1. /\ Len(s) \in Nat \ {0} /\ DOMAIN s = 1 .. Len(s) /\ Head(s) = s[1]
      /\ Tail(s) \in Seq(Releases) /\ Len(Tail(s)) = Len(s) - 1
      /\ DOMAIN Tail(s) = 1 .. Len(s) - 1
      /\ \A k \in 1 .. Len(s) - 1 : Tail(s)[k] = s[k + 1]
  BY HeadTailProperties, LenProperties DEF IsList
<1>2. Entries(s) = {Head(s)} \union Entries(Tail(s))
  <2>1. ASSUME NEW k \in DOMAIN s
        PROVE  s[k] \in {Head(s)} \union Entries(Tail(s))
    <3>1. CASE k = 1
      BY <1>1, <3>1
    <3>2. CASE k # 1
      <4>1. k - 1 \in DOMAIN Tail(s) /\ Tail(s)[k - 1] = s[k]
        BY <1>1, <3>2
      <4> QED
        BY <4>1 DEF Entries
    <3> QED
      BY <3>1, <3>2
  <2>2. Head(s) \in Entries(s)
    BY <1>1 DEF Entries
  <2>3. ASSUME NEW k \in DOMAIN Tail(s)
        PROVE  Tail(s)[k] \in Entries(s)
    <3>1. k + 1 \in DOMAIN s /\ Tail(s)[k] = s[k + 1]
      BY <1>1
    <3> QED
      BY <3>1 DEF Entries
  <2> QED
    BY <2>1, <2>2, <2>3 DEF Entries
<1>3. Cover(s) = Frees(Head(s)) \union Cover(Tail(s))
  BY <1>2 DEF Cover
<1> QED
  BY <1>1, <1>2, <1>3 DEF IsList

LEMMA OrderlyTail ==
  ASSUME NEW s, IsList(s), s # << >>, Orderly(s)
  PROVE  /\ Orderly(Tail(s))
         /\ \A r \in Entries(Tail(s)) : Apart(Head(s), r)
<1>1. /\ Len(s) \in Nat \ {0} /\ DOMAIN s = 1 .. Len(s) /\ Head(s) = s[1]
      /\ DOMAIN Tail(s) = 1 .. Len(s) - 1
      /\ \A k \in 1 .. Len(s) - 1 : Tail(s)[k] = s[k + 1]
  BY HeadTailProperties, LenProperties DEF IsList
<1>2. Orderly(Tail(s))
  <2> SUFFICES ASSUME NEW k \in DOMAIN Tail(s), NEW l \in DOMAIN Tail(s), k < l
               PROVE  Apart(Tail(s)[k], Tail(s)[l])
    BY DEF Orderly, Apart
  <2>1. /\ k + 1 \in DOMAIN s /\ l + 1 \in DOMAIN s /\ k + 1 < l + 1
        /\ Tail(s)[k] = s[k + 1] /\ Tail(s)[l] = s[l + 1]
    BY <1>1
  <2> QED
    BY <2>1 DEF Orderly, Apart
<1>3. ASSUME NEW r \in Entries(Tail(s))
      PROVE  Apart(Head(s), r)
  <2>1. PICK k \in DOMAIN Tail(s) : r = Tail(s)[k]
    BY DEF Entries
  <2>2. 1 \in DOMAIN s /\ k + 1 \in DOMAIN s /\ 1 < k + 1 /\ r = s[k + 1]
    BY <1>1, <2>1
  <2> QED
    BY <1>1, <2>2 DEF Orderly, Apart
<1> QED
  BY <1>2, <1>3

(* Found, of any sets of things held and failed. *)
FoundIn(h, f, t) ==
  \/ t = "thread"
  \/ Frees(t) \intersect h # {}
  \/ /\ t \in f
     /\ \/ t \in {"cdev", "cdev1", "class", "kset_p"}
        \/ t \in {"device", "device1"} /\ "class" \in h
        \/ t = "my_kobj" /\ "kset_p" \notin h

LEMMA ReleasableFound ==
  ASSUME NEW d, NEW m, NEW i, NEW tried, NEW t, NEW h, NEW f,
         Releasable(d, m, i, tried, t),
         Certain(m, i) \subseteq h, \A u \in h : Needs(u) \subseteq h,
         tried \subseteq h \union f, ~ \E u \in f : <<d, u>> \in Repeats
  PROVE  FoundIn(h, f, t)
<1>1. t \in Frees(t)
  BY DEF Frees
<1>2. <<"kset_test", "my_kobj">> \in Repeats
  BY DEF Repeats
<1> QED
  BY <1>1, <1>2 DEF Releasable, FoundIn
-------------------------------------------------------------------------------
(* The steps of the module, one by one. *)

LEMMA ModuleInitially == ModuleInit => LoadInvs
<1> SUFFICES ASSUME ModuleInit
             PROVE  LoadInvs
  OBVIOUS
<1>1. driver \in DOMAIN DriverTable /\ Len(This.load) \in Nat
  BY LoadedAssumption, ThisSound DEF ModuleInit
<1>2. /\ phase = "loading" /\ at = 1 /\ held = {} /\ failed = {} /\ ~LiveAnyway
      /\ todo = << >> /\ IsList(todo)
  BY NoneLeft DEF ModuleInit, LiveAnyway
<1>3. Got
  BY <1>2, NothingBefore DEF Got
<1>4. LoadInv
  BY <1>1, <1>2, <1>3 DEF LoadInv
<1>5. FileInv
  BY <1>2 DEF FileInv, ModuleInit, NoFile
<1> QED
  BY <1>2, <1>4, <1>5 DEF LoadInvs, KeptInv, OnceInv

LEMMA LoadStepKeeps ==
  ASSUME LoadInvs, LoadStep
  PROVE  LoadInvs'
<1>1. /\ phase = "loading" /\ at \in Nat \ {0} /\ at <= Len(This.load) /\ Len(This.load) \in Nat
      /\ Got /\ held \subseteq Before(This, at) /\ Needs(Step.thing) \subseteq held
      /\ at' = at + 1 /\ held' = held \union {Thing(This, at)}
      /\ UNCHANGED <<driver, phase, todo, result, failed, file, calling>>
  BY ThisSound DEF LoadInvs, LoadInv, LiveAnyway, LoadStep, Running, Step, Thing
<1>2. UNCHANGED This /\ ~LiveAnyway' /\ ~LiveAnyway
  BY <1>1 DEF This, LiveAnyway
<1>3. Got'
  <2>1. \A j \in 1 .. at : Thing(This, j) \in held' \union failed
    BY <1>1 DEF Got
  <2>2. Certain(This, at + 1) \subseteq held'
    BY <1>1, BeforeStep DEF Got
  <2>3. \A t \in held' : Needs(t) \subseteq held'
    BY <1>1 DEF Got, Step, Thing
  <2> QED
    BY <1>1, <1>2, <2>1, <2>2, <2>3 DEF Got
<1>4. held' \subseteq Before(This', at')
  <2>1. Before(This, at + 1) = Before(This, at) \union {Thing(This, at)}
    BY <1>1, BeforeStep
  <2>2. Before(This', at') = Before(This, at + 1)
    BY <1>1, <1>2
  <2> QED
    BY <1>1, <2>1, <2>2
<1>5. LoadInv'
  BY <1>1, <1>2, <1>3, <1>4 DEF LoadInvs, LoadInv
<1>6. FileInv'
  BY <1>1, <1>2 DEF LoadInvs, FileInv, Has
<1> QED
  BY <1>1, <1>2, <1>5, <1>6 DEF LoadInvs, KeptInv, OnceInv

LEMMA LoadStepFailsKeeps ==
  ASSUME LoadInvs, LoadStepFails
  PROVE  LoadInvs'
<1> DEFINE t == Thing(This, at)
<1>1. /\ phase = "loading" /\ at \in Nat \ {0} /\ at <= Len(This.load) /\ Len(This.load) \in Nat
      /\ Got /\ held \subseteq Before(This, at) /\ ~LiveAnyway
      /\ failed' = failed \union {t}
      /\ driver \in DOMAIN DriverTable
      /\ UNCHANGED <<driver, held, file, calling>> /\ UNCHANGED This
  BY ThisSound DEF LoadInvs, LoadInv, LiveAnyway, LoadStepFails, Running, Step, Thing, This
<1>2. \A failures : Has(failures) \/ <<driver, t>> \in failures => Has(failures)'
  BY <1>1 DEF Has
<1>3. CASE Step.onFailure = "unnoticed"
  <2>1. at' = at + 1 /\ UNCHANGED <<phase, todo, result>> /\ ~LiveAnyway'
    BY <1>1, <1>3 DEF LoadStepFails, LiveAnyway
  <2>2. Got'
    <3>1. \A j \in 1 .. at : Thing(This, j) \in held \union failed'
      BY <1>1 DEF Got
    <3>2. Certain(This, at + 1) \subseteq held
      BY <1>1, <1>3, BeforeStep DEF Got, Step
    <3> QED
      BY <1>1, <2>1, <3>1, <3>2 DEF Got
  <2>3. held \subseteq Before(This, at + 1)
    <3>1. Before(This, at + 1) = Before(This, at) \union {t}
      BY <1>1, BeforeStep
    <3> QED
      BY <1>1, <3>1
  <2>4. LoadInv'
    BY <1>1, <2>1, <2>2, <2>3 DEF LoadInvs, LoadInv
  <2>5. FileInv'
    BY <1>1, <1>2, <2>1 DEF LoadInvs, FileInv
  <2> QED
    BY <1>1, <2>1, <2>4, <2>5 DEF LoadInvs, KeptInv, OnceInv
<1>4. CASE Step.onFailure # "unnoticed"
  <2>1. /\ phase' = "undoing" /\ todo' = Step.undo /\ UNCHANGED at
        /\ result' = IF Step.onFailure = "error" THEN -1 ELSE 0
    BY <1>4 DEF LoadStepFails
  <2>2. Step.onFailure \in {"error", "success"} /\ IsList(Step.undo)
    BY <1>1, <1>4, ThisSound DEF LoadStepFails, Sound, Typed, Step
  <2>3. UNCHANGED Step /\ ~LiveAnyway'
    BY <1>1, <2>1 DEF Step, LiveAnyway
  <2>4. /\ \/ Step.onFailure = "error" /\ <<driver, t>> \in Leaks
           \/ Before(This, at) \subseteq NeverGivenBack \union Cover(Step.undo)
        /\ \/ <<driver, t>> \in Repeats
           \/ /\ Step.onFailure = "error" /\ Orderly(Step.undo)
              /\ \A r \in Entries(Step.undo) :
                   Releasable(driver, This, at, Before(This, at) \union {t}, r)
        /\ \/ <<driver, t>> = <<"led_nums", "cdev1">>
           \/ Before(This, at) \intersect Cdevs = {}
    <3>1. UndoSound(driver, This, at)
      BY <1>1, ThisSound DEF Sound
    <3> QED
      BY <2>2, <3>1 DEF UndoSound, Step
  <2>5. LoadInv'
    BY <1>1, <2>1, <2>2, <2>3 DEF LoadInvs, LoadInv
  <2>6. KeptInv'
    <3>1. UNCHANGED Kept
      BY <1>1 DEF Kept
    <3>2. \/ Step.onFailure = "error" /\ Has(Leaks)'
          \/ Kept \subseteq Cover(Step.undo)
      BY <1>1, <1>2, <2>4 DEF Kept
    <3> QED
      BY <2>1, <2>3, <3>1, <3>2 DEF KeptInv
  <2>7. OnceInv'
    <3>1. CASE Has(Repeats)'
      BY <2>3, <3>1 DEF OnceInv, Excused
    <3>2. CASE ~Has(Repeats)'
      <4>1. <<driver, t>> \notin Repeats /\ ~ \E u \in failed' : <<driver, u>> \in Repeats
        BY <1>1, <1>2, <3>2 DEF Has
      <4>2. Before(This, at) \union {t} \subseteq held \union failed'
        BY <1>1 DEF Got, Before
      <4>3. ASSUME NEW r \in Entries(Step.undo)
            PROVE  FoundIn(held, failed', r)
        BY <1>1, <2>4, <4>1, <4>2, ReleasableFound DEF Got
      <4>4. \A r : Found(r)' <=> FoundIn(held, failed', r)
        BY <1>1 DEF Found, FoundIn, Tolerated
      <4> QED
        BY <2>1, <2>3, <2>4, <4>1, <4>3, <4>4 DEF OnceInv
    <3> QED
      BY <3>1, <3>2
  <2>8. FileInv'
    <3> SUFFICES ASSUME ~Has({<<"led_nums", "cdev1">>})'
                 PROVE  /\ \A p \in Task : file[p] = NoFile
                        /\ Cdevs \intersect held = {}
      BY <1>1, <2>3 DEF LoadInvs, FileInv
    <3>1. <<driver, t>> # <<"led_nums", "cdev1">> /\ ~Has({<<"led_nums", "cdev1">>})
      BY <1>2
    <3>2. Cdevs \intersect held = {}
      BY <1>1, <2>4, <3>1
    <3> QED
      BY <3>1, <3>2 DEF LoadInvs, FileInv
  <2> QED
    BY <2>5, <2>6, <2>7, <2>8 DEF LoadInvs
<1> QED
  BY <1>3, <1>4

LEMMA LoadDoneKeeps ==
  ASSUME LoadInvs, LoadDone
  PROVE  LoadInvs'
<1>1. /\ phase = "loading" /\ phase' = "live" /\ at \in Nat \ {0} /\ at > Len(This.load)
      /\ Len(This.load) \in Nat /\ Got
      /\ UNCHANGED <<driver, at, todo, result, held, failed, file, calling>>
  BY ThisSound DEF LoadInvs, LoadInv, LiveAnyway, LoadDone
<1>2. UNCHANGED <<This, Got>> /\ ~LiveAnyway /\ ~LiveAnyway'
  BY <1>1 DEF This, Got, LiveAnyway
<1>3. LoadInv'
  BY <1>1, <1>2 DEF LoadInvs, LoadInv
<1>4. FileInv'
  BY <1>1, <1>2 DEF LoadInvs, FileInv, Has
<1> QED
  BY <1>1, <1>2, <1>3, <1>4 DEF LoadInvs, KeptInv, OnceInv

(* Releasing the first of the list, but for a thread, which is stopped; the fault is new *)
(* only if excused.                                                                       *)
LEMMA GiveBackKeeps ==
  ASSUME LoadInvs, GiveBack, Head(todo) # "thread"
  PROVE  LoadInvs' /\ (Excused \/ fault # "none" \/ fault' = "none")
<1> DEFINE h == Head(todo)
<1>1. /\ phase \in {"undoing", "exiting"} /\ todo # << >> /\ IsList(todo) /\ ~LiveAnyway
      /\ todo' = Tail(todo) /\ held' = held \ Frees(h)
      /\ UNCHANGED <<driver, phase, at, result, failed, file, calling>>
  BY DEF LoadInvs, LoadInv, GiveBack, LiveAnyway
<1>h. h # "thread"
  OBVIOUS
<1>2. UNCHANGED <<This, Step, Excused>> /\ ~LiveAnyway'
      /\ \A failures : UNCHANGED Has(failures)
  BY <1>1 DEF This, Step, Excused, Has, LiveAnyway
<1>3. /\ IsList(Tail(todo))
      /\ Entries(todo) = {h} \union Entries(Tail(todo))
      /\ Cover(todo) = Frees(h) \union Cover(Tail(todo))
  BY <1>1, HeadAndTail
<1>4. LoadInv'
  BY <1>1, <1>2, <1>3 DEF LoadInvs, LoadInv
<1>5. KeptInv'
  <2>1. Kept \subseteq Cover(todo) => Kept' \subseteq Cover(todo')
    BY <1>1, <1>3 DEF Kept
  <2> QED
    BY <1>1, <1>2, <2>1 DEF LoadInvs, KeptInv
<1>6. ASSUME ~Excused
      PROVE  /\ Orderly(todo') /\ \A r \in Entries(todo') : Found(r)'
             /\ fault = "none" => fault' = "none"
  <2>1. Orderly(todo) /\ \A r \in Entries(todo) : Found(r)
    BY <1>1, <1>6 DEF LoadInvs, OnceInv
  <2>2. /\ Orderly(Tail(todo))
        /\ \A r \in Entries(Tail(todo)) : Apart(h, r)
    BY <1>1, <2>1, OrderlyTail
  <2>3. ASSUME NEW r \in Entries(Tail(todo))
        PROVE  Found(r)'
    <3>1. Found(r) /\ Apart(h, r)
      BY <1>3, <2>1, <2>2
    <3>2. r \in {"device", "device1"} /\ "class" \in held => "class" \in held'
      BY <1>1, <3>1 DEF Apart, Frees
    <3>3. Tolerated(r) => Tolerated(r)'
      BY <1>1, <3>2 DEF Tolerated
    <3>4. Frees(r) \intersect held # {} => Frees(r) \intersect held' # {}
      BY <1>1, <3>1 DEF Apart
    <3> QED
      BY <3>1, <3>3, <3>4 DEF Found
  <2>4. Found(h)
    BY <1>3, <2>1
  <2>5. fault = "none" => fault' = "none"
    BY <2>4, <1>h DEF GiveBack, Found, Dangling
  <2> QED
    BY <1>1, <2>2, <2>3, <2>5
<1>7. OnceInv'
  BY <1>1, <1>2, <1>6 DEF LoadInvs, OnceInv
<1>8. FileInv'
  BY <1>1, <1>2 DEF LoadInvs, FileInv
<1> QED
  BY <1>4, <1>5, <1>6, <1>7, <1>8 DEF LoadInvs

(* A thread that has left, or was never started, is taken off the list. *)
LEMMA ThreadLeftKeeps ==
  ASSUME LoadInvs, phase \in {"undoing", "exiting"}, todo # << >>, Head(todo) = "thread",
         todo' = Tail(todo), UNCHANGED <<driver, phase, at, result, held, failed, file, calling>>
  PROVE  LoadInvs'
<1>1. IsList(todo) /\ ~LiveAnyway /\ ~LiveAnyway'
  BY DEF LoadInvs, LoadInv, LiveAnyway
<1>2. UNCHANGED <<This, Step, Kept, Excused>>
      /\ \A failures : UNCHANGED Has(failures)
  BY DEF This, Step, Kept, Excused, Has
<1>3. /\ IsList(Tail(todo))
      /\ Entries(todo) = {"thread"} \union Entries(Tail(todo))
      /\ Cover(todo) = {"thread"} \union Cover(Tail(todo))
  BY <1>1, HeadAndTail DEF Frees
<1>4. LoadInv'
  BY <1>1, <1>2, <1>3 DEF LoadInvs, LoadInv
<1>5. KeptInv'
  <2>1. Kept \subseteq Cover(todo) => Kept \subseteq Cover(todo')
    BY <1>3 DEF Kept, NeverGivenBack
  <2> QED
    BY <1>1, <1>2, <2>1 DEF LoadInvs, KeptInv
<1>6. OnceInv'
  <2>1. Orderly(todo) => Orderly(todo')
    BY <1>1, OrderlyTail
  <2>2. \A r : Found(r) => Found(r)'
    BY DEF Found, Tolerated
  <2> QED
    BY <1>1, <1>2, <1>3, <2>1, <2>2 DEF LoadInvs, OnceInv
<1>7. FileInv'
  BY <1>1, <1>2 DEF LoadInvs, FileInv
<1> QED
  BY <1>4, <1>5, <1>6, <1>7 DEF LoadInvs

LEMMA GivenBackKeeps ==
  ASSUME LoadInvs, GivenBack
  PROVE  LoadInvs'
<1>1. /\ phase \in {"undoing", "exiting"} /\ todo = << >> /\ Cover(todo) = {} /\ ~LiveAnyway
      /\ phase' = IF phase = "exiting" THEN "removed"
                  ELSE IF result = 0 THEN "live" ELSE "refused"
      /\ UNCHANGED <<driver, at, todo, result, held, failed, fault, file, calling>>
  BY NoneLeft DEF GivenBack, LiveAnyway
<1>2. UNCHANGED <<This, Step, Kept>> /\ \A failures : UNCHANGED Has(failures)
  BY <1>1 DEF This, Step, Kept, Has
<1>3. CASE phase = "exiting"
  <2>1. phase' = "removed" /\ ~LiveAnyway'
    BY <1>1, <1>3 DEF LiveAnyway
  <2> QED
    BY <1>1, <1>2, <1>3, <2>1 DEF LoadInvs, LoadInv, KeptInv, OnceInv, FileInv
<1>4. CASE phase = "undoing"
  <2>1. /\ at <= Len(This.load) /\ Step.onFailure \in {"error", "success"}
        /\ result = IF Step.onFailure = "error" THEN -1 ELSE 0
        /\ phase' = IF Step.onFailure = "error" THEN "refused" ELSE "live"
        /\ LiveAnyway' <=> Step.onFailure = "success"
    BY <1>1, <1>2, <1>4 DEF LoadInvs, LoadInv, LiveAnyway
  <2>2. Step.onFailure = "success" => Has(Repeats)
    <3>1. UndoSound(driver, This, at) /\ Thing(This, at) \in failed
      BY <1>4, <2>1, ThisSound DEF Sound, LoadInvs, LoadInv
    <3>2. Step.onFailure = "success" => <<driver, Thing(This, at)>> \in Repeats
      BY <3>1 DEF UndoSound, Step
    <3> QED
      BY <3>1, <3>2 DEF Has
  <2>3. LoadInv'
    BY <1>1, <1>2, <2>1 DEF LoadInvs, LoadInv
  <2>4. KeptInv'
    BY <1>1, <1>2, <1>4, <2>1 DEF LoadInvs, KeptInv
  <2>5. OnceInv' /\ FileInv'
    BY <1>1, <1>2, <1>4, <2>1, <2>2 DEF LoadInvs, OnceInv, FileInv
  <2> QED
    BY <2>3, <2>4, <2>5 DEF LoadInvs
<1> QED
  BY <1>1, <1>3, <1>4

LEMMA RemoveKeeps ==
  ASSUME LoadInvs, Remove
  PROVE  LoadInvs'
<1> DEFINE end == Len(This.load) + 1
<1>1. /\ phase = "live" /\ phase' = "exiting" /\ todo' = This.unload /\ ~LiveAnyway'
      /\ \A p \in Task : file[p] = NoFile
      /\ driver \in DOMAIN DriverTable /\ held \subseteq Before(This, at)
      /\ at \in 1 .. end /\ Len(This.load) \in Nat
      /\ UNCHANGED <<driver, at, result, held, failed, fault, file, calling>>
  BY ThisSound DEF LoadInvs, LoadInv, Remove, LiveAnyway
<1>2. UNCHANGED <<This, Kept>> /\ \A failures : UNCHANGED Has(failures)
  BY <1>1 DEF This, Kept, Has
<1>3. IsList(This.unload) /\ ExitSound(driver, This)
  BY <1>1, ThisSound DEF Sound, Typed
<1>4. LoadInv'
  BY <1>1, <1>2, <1>3 DEF LoadInvs, LoadInv
<1>5. FileInv'
  BY <1>1, <1>2 DEF LoadInvs, FileInv
<1>6. CASE LiveAnyway
  <2>1. Kept = {} /\ Has(Repeats)
    BY <1>6 DEF LoadInvs, KeptInv, OnceInv
  <2> QED
    BY <1>1, <1>2, <1>4, <1>5, <2>1 DEF LoadInvs, KeptInv, OnceInv, Excused
<1>7. CASE ~LiveAnyway
  <2>1. at = end /\ Got
    BY <1>1, <1>7 DEF LoadInvs, LoadInv, LiveAnyway
  <2>2. KeptInv'
    <3>1. driver = "kobject_test" \/ Kept \subseteq Cover(This.unload)
      BY <1>1, <1>3, <2>1 DEF ExitSound, Kept
    <3> QED
      BY <1>1, <1>2, <3>1 DEF KeptInv
  <2>3. OnceInv'
    <3>1. CASE Excused'
      BY <1>1, <3>1 DEF OnceInv
    <3>2. CASE ~Excused'
      <4>1. driver # "led_nums_wiscom" /\ ~ \E u \in failed : <<driver, u>> \in Repeats
        BY <1>1, <3>2 DEF Excused, Has
      <4>2. /\ Orderly(This.unload)
            /\ \A r \in Entries(This.unload) :
                 Releasable(driver, This, end, Before(This, end), r)
        BY <1>3, <4>1 DEF ExitSound
      <4>3. Before(This, end) \subseteq held \union failed
        BY <2>1 DEF Got, Before
      <4>4. ASSUME NEW r \in Entries(This.unload)
            PROVE  FoundIn(held, failed, r)
        BY <2>1, <4>1, <4>2, <4>3, ReleasableFound DEF Got
      <4>5. \A r : Found(r)' <=> FoundIn(held, failed, r)
        BY <1>1 DEF Found, FoundIn, Tolerated
      <4> QED
        BY <1>1, <4>2, <4>4, <4>5 DEF OnceInv
    <3> QED
      BY <3>1, <3>2
  <2> QED
    BY <1>4, <1>5, <2>2, <2>3 DEF LoadInvs
<1> QED
  BY <1>6, <1>7

LEMMA UserKeeps ==
  ASSUME LoadInvs, NEW p \in Task, Open(p) \/ Call(p) \/ Return(p) \/ Close(p)
  PROVE  LoadInvs'
<1>1. UNCHANGED <<driver, phase, at, todo, result, held, failed, fault>>
  BY DEF Open, Call, Return, Close, load
<1>2. UNCHANGED <<This, Step, Kept, Excused, LiveAnyway, Got>>
      /\ \A failures, r : UNCHANGED <<Has(failures), Found(r)>>
  BY <1>1 DEF This, Step, Kept, Excused, LiveAnyway, Got, Has, Found, Tolerated
<1>3. LoadInv' /\ KeptInv' /\ OnceInv'
  BY <1>1, <1>2 DEF LoadInvs, LoadInv, KeptInv, OnceInv
<1>4. FileInv'
  <2>1. CASE Open(p)
    <3>1. PICK c \in Cdevs \intersect held : file' = [file EXCEPT ![p] = c]
      BY <2>1 DEF Open, Cdevs
    <3>2. /\ phase \in {"loading", "undoing", "live"} /\ UNCHANGED calling
          /\ c \in held /\ c \in Cdevs /\ c # NoFile
      BY <2>1 DEF Open, Cdevs, NoFile
    <3>3. ~Has({<<"led_nums", "cdev1">>}) => phase # "undoing" /\ ~LiveAnyway
      BY <3>2 DEF LoadInvs, FileInv
    <3>4. /\ file' \in [Task -> Cdevs \union {NoFile}]
          /\ calling \subseteq {q \in Task : file'[q] # NoFile}
      BY <3>1, <3>2 DEF LoadInvs, FileInv
    <3>5. ~Has({<<"led_nums", "cdev1">>}) =>
            \A q \in Task : file'[q] # NoFile => /\ phase \in {"loading", "live"} /\ ~LiveAnyway
                                                 /\ file'[q] \in held
      BY <3>1, <3>2, <3>3 DEF LoadInvs, FileInv
    <3> QED
      BY <1>1, <1>2, <3>2, <3>4, <3>5 DEF LoadInvs, FileInv
  <2>2. CASE Call(p)
    BY <1>1, <1>2, <2>2 DEF Call, LoadInvs, FileInv
  <2>3. CASE Return(p)
    BY <1>1, <1>2, <2>3 DEF Return, LoadInvs, FileInv
  <2>4. CASE Close(p)
    <3>1. /\ p \notin calling /\ file' = [file EXCEPT ![p] = NoFile] /\ UNCHANGED calling
      BY <2>4 DEF Close
    <3> QED
      BY <1>1, <1>2, <3>1 DEF LoadInvs, FileInv
  <2> QED
    BY <2>1, <2>2, <2>3, <2>4
<1> QED
  BY <1>3, <1>4 DEF LoadInvs

(* Whatever is no step of the module, but may find a release that is fatal. *)
LEMMA OthersKeep ==
  ASSUME LoadInvs, UNCHANGED <<driver, phase, at, todo, result, held, failed, file, calling>>
  PROVE  LoadInvs'
<1>1. UNCHANGED <<This, Step, Kept, Excused, LiveAnyway, Got>>
      /\ \A failures, r : UNCHANGED <<Has(failures), Found(r)>>
  BY DEF This, Step, Kept, Excused, LiveAnyway, Got, Has, Found, Tolerated
<1> QED
  BY <1>1 DEF LoadInvs, LoadInv, KeptInv, OnceInv, FileInv
-------------------------------------------------------------------------------
(* What the invariants say of the properties. *)

LEMMA InvsGiveBack == LoadInvs => EverythingGivenBack
  BY DEF LoadInvs, KeptInv, EverythingGivenBack

LEMMA InvsFindMemory == LoadInvs => CallsFindMemory
<1> SUFFICES ASSUME LoadInvs, ~Has({<<"led_nums", "cdev1">>})
             PROVE  /\ \A p \in calling : This.uses[file[p]] \ held \subseteq
                            IF driver \in Late /\ phase = "loading" THEN NeverGivenBack ELSE {}
                    /\ phase \in {"refused", "removed"} => \A p \in Task : file[p] = NoFile
  BY DEF CallsFindMemory
<1>1. ASSUME NEW p \in calling
      PROVE  This.uses[file[p]] \ held \subseteq
               IF driver \in Late /\ phase = "loading" THEN NeverGivenBack ELSE {}
  <2>1. /\ p \in Task /\ file[p] \in Cdevs /\ file[p] \in held
        /\ phase \in {"loading", "live"} /\ ~LiveAnyway /\ Got
        /\ held \subseteq Before(This, at) /\ driver \in DOMAIN DriverTable
        /\ at \in 1 .. Len(This.load) + 1 /\ Len(This.load) \in Nat
    BY ThisSound DEF LoadInvs, LoadInv, FileInv
  <2>2. PICK j \in 1 .. at - 1 : Thing(This, j) = file[p]
    BY <2>1 DEF Before
  <2>3. UsesSound(driver, This) /\ j \in 1 .. Len(This.load)
    BY <2>1, ThisSound DEF Sound
  <2>4. CASE phase = "loading"
    <3>1. This.uses[file[p]] \ (IF driver \in Late THEN NeverGivenBack ELSE {})
            \subseteq Certain(This, j)
      BY <2>1, <2>2, <2>3 DEF UsesSound
    <3>2. Certain(This, j) \subseteq Certain(This, at)
      BY <2>1, <2>2 DEF Certain
    <3> QED
      BY <2>1, <2>4, <3>1, <3>2 DEF Got
  <2>5. CASE phase = "live"
    <3>1. at = Len(This.load) + 1
      BY <2>1, <2>5 DEF LiveAnyway
    <3>2. This.uses[file[p]] \subseteq Certain(This, at)
      BY <2>1, <2>2, <2>3, <3>1 DEF UsesSound
    <3> QED
      BY <2>1, <2>5, <3>2 DEF Got
  <2> QED
    BY <2>1, <2>4, <2>5
<1>2. phase \in {"refused", "removed"} => \A p \in Task : file[p] = NoFile
  BY DEF LoadInvs, FileInv
<1> QED
  BY <1>1, <1>2
===============================================================================
