----------------------- MODULE KernelOverheadsProofs -----------------------
(***************************************************************************)
(* Proofs about KernelOverheads, for every system of platforms, list of    *)
(* tests, number of launches and of failing calls: what the list of        *)
(* devices holds, what of it is used, what the tests leave behind, that    *)
(* the kernels are well-formed, and what the table says at the end.        *)
(***************************************************************************)
EXTENDS KernelOverheads, SequenceTheorems, FiniteSetTheorems, WellFoundedInduction, TLAPS

\* What a counter may hold.
MaxCount == UIntMod + MaxDevices

\* The devices of some platforms, as many of each as count says: a set whose
\* cardinality is the sum of the counts.
Row(p, n) == {Device(p, d) : d \in 1..n}
DevicesOf(P, count) == UNION {Row(p, count[p]) : p \in P}

\* All that was counted, and what is left of it for num_devices.
CountedUpTo(n) == Cardinality(DevicesOf(1..n, num_devs)) % UIntMod
LeftOver == Cardinality(DevicesOf(filled \cup (i..num_platforms), num_devs)) % UIntMod

Enumerated == {"fill", "done"}

(* What the variables of the enumeration hold.                             *)
EnumTypeInv ==
    /\ present \in Systems
    /\ pc \in {"platforms", "counters", "count", "wild"} \cup Enumerated
    /\ platforms \in BOOLEAN
    /\ num_platforms \in 0..MaxPlatforms /\ i \in Nat \ {0}
    /\ num_devs \in Seq(0..MaxCount)
    /\ num_devices \in UInt

(* A list of the platforms has all of them; without one, and without an    *)
(* access to it, none is looked for.                                       *)
PlatformsInv ==
    /\ pc # "platforms" /\ platforms => num_platforms = Len(present)
    /\ pc \in {"count"} \cup Enumerated /\ ~platforms => num_platforms = 0
    /\ num_platforms <= Len(present) \/ pc \in {"platforms", "counters", "wild"}

(* A count that succeeded is right, and the counts add up, modulo the      *)
(* width of the sum.                                                       *)
CountInv ==
    /\ pc \in {"platforms", "counters"} => num_devs = << >> /\ counted = {}
    /\ pc \notin {"wild"} \cup Enumerated => filled = {} /\ offset = 0
    /\ pc = "count" =>
         /\ i <= num_platforms + 1
         /\ Len(num_devs) = i - 1
         /\ num_devices = CountedUpTo(i - 1)
    /\ pc \in Enumerated => Len(num_devs) = num_platforms
    /\ counted \subseteq 1..Len(num_devs)
    /\ \A p \in counted : num_devs[p] = present[p] /\ present[p] > 0

(* The array has as many entries as were counted, and num_devices loses    *)
(* the counts of the platforms that failed to deliver.                     *)
FillInv ==
    pc \in Enumerated =>
      /\ i <= num_platforms + 1
      /\ pc = "done" => i = num_platforms + 1
      /\ filled \subseteq 1..(i - 1)
      /\ \A p \in filled : present[p] > 0
      /\ devs = Null => filled = {}
      /\ devs # Null => DOMAIN devs = 0..(CountedUpTo(num_platforms) - 1)
      /\ num_devices = LeftOver

(* Each device delivered is behind the ones before it, and nothing else is *)
(* in the part of the array that has been filled.                          *)
ListInv ==
    pc \in Enumerated /\ Counted =>
      /\ offset = Cardinality(Delivered)
      /\ \A k \in 0..(offset - 1) : k \in DOMAIN devs /\ devs[k] # Garbage
      /\ \A x \in Delivered : devs[Cardinality(DeliveredBefore(x))] = x

EnumInv == EnumTypeInv /\ PlatformsInv /\ CountInv /\ FillInv /\ ListInv /\ StaysInBounds

\* The stages behind the enumeration in main.
Started == {"device", "test", "launch", "end", "crash"}

(* What the variables of main hold.                                        *)
MainTypeInv ==
    /\ stage \in {"options", "enumerate", "elsewhere", "exit"} \cup Started
    /\ given \in BOOLEAN /\ device_id \in Int
    /\ t \in Nat \ {0} /\ durations \in Seq(Nat)

(* The loop over the devices starts behind a list, from no negative number *)
(* when one is given, and what is not in the list is behind its end.       *)
StageInv ==
    /\ stage = "options" => pc = "platforms"
    /\ stage \in Started => pc = "done" /\ devs # Null
    /\ stage = "enumerate" /\ given => device_id >= -1
    /\ stage \in Started /\ given => device_id >= 0
    /\ stage = "crash" /\ given /\ platforms /\ Counted => device_id = num_devices

(* The objects held, while the program runs: the ones of the test at hand  *)
(* that it gives back go with it, the device's context and queue with the  *)
(* device.                                                                 *)
HeldInv ==
    /\ stage \in {"options", "enumerate", "elsewhere"} => held = {}
    /\ stage = "launch" => Len(durations) <= Launches
    /\ stage \in {"device", "test", "launch", "end"} =>
         \A h \in held :
           \/ h[1] \in {"context", "queue"} /\ stage \in {"test", "launch"}
                /\ h = <<h[1], device_id>>
           \/ h[1] \in {"buffer", "mem_args"}
           \/ h[1] = "event" /\ h[4] < Launches
           \/ stage = "launch" /\ h \in Released

MainInv == EnumInv /\ MainTypeInv /\ StageInv /\ HeldInv
-----------------------------------------------------------------------------
(* Arithmetic modulo the width of the counter.                             *)

\* Quotient and remainder are those.
LEMMA Remainder ==
    ASSUME NEW M \in Nat \ {0}, NEW q \in Int, NEW r \in 0..(M - 1)
    PROVE  ((M * q) + r) % M = r
OBVIOUS

\* A multiple does not matter.
LEMMA ModMultiple ==
    ASSUME NEW M \in Nat \ {0}, NEW q \in Int, NEW r \in Int
    PROVE  ((M * q) + r) % M = r % M
<1>1. PICK k \in Int, s \in 0..(M - 1) : r = (M * k) + s /\ s = r % M
  <2>1. r = (M * (r \div M)) + (r % M)
      OBVIOUS
  <2>2. r % M \in 0..(M - 1) /\ (r \div M) \in Int
      OBVIOUS
  <2> QED BY <2>1, <2>2
<1>2. (M * q) + r = (M * (q + k)) + s
    BY <1>1
<1>3. q + k \in Int
    OBVIOUS
<1>4. ((M * (q + k)) + s) % M = s
    BY <1>3, Remainder
<1> QED BY <1>1, <1>2, <1>4

\* Nor does reducing one addend first.
LEMMA ModAdd ==
    ASSUME NEW M \in Nat \ {0}, NEW a \in Int, NEW n \in Int
    PROVE  ((a % M) + n) % M = (a + n) % M
<1>1. a = (M * (a \div M)) + (a % M)
    OBVIOUS
<1>2. a % M \in Int /\ (a \div M) \in Int
    OBVIOUS
<1>3. a + n = (M * (a \div M)) + ((a % M) + n)
    BY <1>1, <1>2
<1>4. (a % M) + n \in Int
    BY <1>2
<1>5. ((M * (a \div M)) + ((a % M) + n)) % M = ((a % M) + n) % M
    BY ModMultiple, <1>2, <1>4
<1> QED BY <1>3, <1>5

\* What the width is, and what a remainder of it is.
LEMMA Width ==
    /\ UIntMod \in Nat \ {0} /\ MaxCount \in Nat
    /\ \A n \in Int : n % UIntMod \in UInt
    /\ \A n \in UInt : n % UIntMod = n
<1>1. MaxPlatforms * MaxDevices \in Nat
    BY EnumAssumption
<1>2. UIntMod \in Nat \ {0} /\ MaxCount \in Nat
    BY <1>1, EnumAssumption DEF MaxCount
<1> QED BY <1>2 DEF UInt
-----------------------------------------------------------------------------
(* How many devices some platforms have.                                   *)

\* Platforms up to the n-th with at most m devices each.
CountsWithin(P, count, n, m) ==
    /\ n \in Nat /\ m \in Nat
    /\ P \subseteq 1..n
    /\ \A p \in P : count[p] \in 0..m

\* One platform has its count of them.
LEMMA RowSize ==
    ASSUME NEW p, NEW n \in Nat
    PROVE  IsFiniteSet(Row(p, n)) /\ Cardinality(Row(p, n)) = n
<1> DEFINE f == [d \in 1..n |-> Device(p, d)]
<1>1. f \in Bijection(1..n, Row(p, n))
  <2>1. f \in [1..n -> Row(p, n)]
      BY DEF Row
  <2>2. \A a, b \in 1..n : f[a] = f[b] => a = b
      BY DEF Device
  <2>3. \A y \in Row(p, n) : \E a \in 1..n : f[a] = y
    <3> SUFFICES ASSUME NEW y \in Row(p, n) PROVE \E a \in 1..n : f[a] = y
        OBVIOUS
    <3>1. PICK a \in 1..n : y = Device(p, a)
        BY DEF Row
    <3>2. f[a] = y
        BY <3>1
    <3> QED BY <3>2
  <2> QED BY <2>1, <2>2, <2>3 DEF Bijection, Injection, IsInjective, Surjection
<1>2. ExistsBijection(1..n, Row(p, n))
    BY <1>1 DEF ExistsBijection
<1>3. IsFiniteSet(1..n) /\ Cardinality(1..n) = n
    BY FS_Interval
<1> QED BY <1>2, <1>3, FS_Bijection

\* Some platforms have finitely many, no more than there is room for.
LEMMA Finite ==
    ASSUME NEW n, NEW m, NEW P, NEW count, CountsWithin(P, count, n, m)
    PROVE  /\ IsFiniteSet(DevicesOf(P, count))
           /\ Cardinality(DevicesOf(P, count)) \in Nat
           /\ Cardinality(DevicesOf(P, count)) \in 0..(n * m)
<1> USE DEF CountsWithin
<1>1. DevicesOf(P, count) \subseteq (1..n) \X (1..m)
    BY DEF DevicesOf, Row, Device
<1>2. \A k \in Nat : IsFiniteSet(1..k) /\ Cardinality(1..k) = k
    BY FS_Interval
<1>3. IsFiniteSet((1..n) \X (1..m)) /\ Cardinality((1..n) \X (1..m)) = n * m
  <2>1. IsFiniteSet(1..n) /\ IsFiniteSet(1..m)
      BY <1>2
  <2>2. /\ IsFiniteSet((1..n) \X (1..m))
        /\ Cardinality((1..n) \X (1..m)) = Cardinality(1..n) * Cardinality(1..m)
      BY <2>1, FS_Product
  <2> QED BY <1>2, <2>2
<1>4. /\ IsFiniteSet(DevicesOf(P, count))
      /\ Cardinality(DevicesOf(P, count)) <= Cardinality((1..n) \X (1..m))
    BY <1>1, <1>3, FS_Subset
<1>5. Cardinality(DevicesOf(P, count)) \in Nat
    BY <1>4, FS_CardinalityType
<1>6. n * m \in Nat
    OBVIOUS
<1> QED BY <1>3, <1>4, <1>5, <1>6

\* Some devices of another platform add to them.
LEMMA AddRow ==
    ASSUME NEW n, NEW m, NEW P, NEW count, CountsWithin(P, count, n, m),
           NEW q, q \notin P, NEW k \in Nat
    PROVE  Cardinality(DevicesOf(P, count) \cup Row(q, k))
             = Cardinality(DevicesOf(P, count)) + k
<1>1. DevicesOf(P, count) \cap Row(q, k) = {}
    BY DEF DevicesOf, Row, Device
<1>2. IsFiniteSet(DevicesOf(P, count)) /\ Cardinality(DevicesOf(P, count)) \in Nat
    BY Finite
<1>3. IsFiniteSet(Row(q, k)) /\ Cardinality(Row(q, k)) = k
    BY RowSize
<1>4. Cardinality(DevicesOf(P, count) \cup Row(q, k))
        = Cardinality(DevicesOf(P, count)) + Cardinality(Row(q, k))
            - Cardinality(DevicesOf(P, count) \cap Row(q, k))
    BY <1>2, <1>3, FS_Union
<1>5. Cardinality(DevicesOf(P, count) \cap Row(q, k)) = 0
    BY <1>1, FS_EmptySet
<1> QED BY <1>2, <1>3, <1>4, <1>5

\* Another platform adds its count.
LEMMA AddPlatform ==
    ASSUME NEW n, NEW m, NEW P, NEW count, CountsWithin(P, count, n, m),
           NEW q, q \notin P, count[q] \in Nat
    PROVE  /\ DevicesOf(P \cup {q}, count) = DevicesOf(P, count) \cup Row(q, count[q])
           /\ Cardinality(DevicesOf(P \cup {q}, count))
                = Cardinality(DevicesOf(P, count)) + count[q]
<1>1. DevicesOf(P \cup {q}, count) = DevicesOf(P, count) \cup Row(q, count[q])
    BY DEF DevicesOf
<1>2. Cardinality(DevicesOf(P, count) \cup Row(q, count[q]))
        = Cardinality(DevicesOf(P, count)) + count[q]
    BY AddRow
<1> QED BY <1>1, <1>2

\* Only the counts of the platforms matter.
LEMMA SameCounts ==
    ASSUME NEW P, NEW f, NEW g, \A p \in P : f[p] = g[p]
    PROVE  DevicesOf(P, f) = DevicesOf(P, g)
BY DEF DevicesOf

\* No more platforms have no more devices.
LEMMA FewerPlatforms ==
    ASSUME NEW n, NEW m, NEW P, NEW count, CountsWithin(P, count, n, m), NEW Q \in SUBSET P
    PROVE  Cardinality(DevicesOf(Q, count)) <= Cardinality(DevicesOf(P, count))
<1>1. DevicesOf(Q, count) \subseteq DevicesOf(P, count)
    BY DEF DevicesOf
<1>2. IsFiniteSet(DevicesOf(P, count))
    BY Finite
<1> QED BY <1>1, <1>2, FS_Subset

\* A system is a sequence of numbers of devices.
LEMMA SystemType ==
    ASSUME present \in Systems
    PROVE  /\ present \in Seq(0..MaxDevices) /\ Len(present) \in 0..MaxPlatforms
           /\ DOMAIN present = 1..Len(present)
           /\ \A p \in 1..Len(present) : present[p] \in 0..MaxDevices
<1>1. PICK n \in 0..MaxPlatforms : present \in [1..n -> 0..MaxDevices]
    BY DEF Systems
<1>2. present \in Seq(0..MaxDevices) /\ Len(present) = n
    BY <1>1, EnumAssumption, SeqDef
<1> QED BY <1>1, <1>2

\* What is delivered are the devices of some platforms.
LEMMA DeliveredAre == Delivered = DevicesOf(filled, present)
BY DEF Delivered, DevicesOf, Row

\* The devices of a set before one of them.
BeforeIn(S, x) == {y \in S : y[1] < x[1] \/ (y[1] = x[1] /\ y[2] < x[2])}

\* A device has fewer before it than there are, and a platform behind all of
\* them has all of them before its own.
LEMMA Places ==
    ASSUME NEW n, NEW m, NEW P, NEW count, CountsWithin(P, count, n, m),
           NEW q \in Nat, \A p \in P : p < q, count[q] \in Nat
    PROVE  /\ \A x \in DevicesOf(P, count) :
                /\ BeforeIn(DevicesOf(P \cup {q}, count), x)
                     = BeforeIn(DevicesOf(P, count), x)
                /\ Cardinality(BeforeIn(DevicesOf(P, count), x))
                     \in 0..(Cardinality(DevicesOf(P, count)) - 1)
           /\ \A d \in 1..count[q] :
                Cardinality(BeforeIn(DevicesOf(P \cup {q}, count), Device(q, d)))
                  = Cardinality(DevicesOf(P, count)) + d - 1
<1> DEFINE S == DevicesOf(P, count)
           T == DevicesOf(P \cup {q}, count)
<1>1. q \notin P /\ P \subseteq Nat
    BY DEF CountsWithin
<1>2. T = S \cup Row(q, count[q])
    BY <1>1, AddPlatform
<1>3. \A x \in S : \E p \in P : \E d \in 1..count[p] : x = <<p, d>>
    BY DEF DevicesOf, Row, Device
<1>4. \A x \in S : x[1] \in P /\ x[2] \in Nat
    BY <1>3 DEF CountsWithin
<1>5. \A k \in Nat : \A y \in Row(q, k) : y[1] = q /\ y[2] \in 1..k /\ y = <<q, y[2]>>
    BY DEF Row, Device
<1>6. ASSUME NEW x \in S
      PROVE  BeforeIn(T, x) = BeforeIn(S, x)
             /\ Cardinality(BeforeIn(S, x)) \in 0..(Cardinality(S) - 1)
  <2>1. \A y \in Row(q, count[q]) : ~(y[1] < x[1]) /\ y[1] # x[1]
    <3>1. x[1] < q /\ x[1] \in Nat
        BY <1>1, <1>4
    <3> QED BY <1>5, <3>1
  <2>2. BeforeIn(T, x) = BeforeIn(S, x)
      BY <1>2, <2>1 DEF BeforeIn
  <2>3. BeforeIn(S, x) \subseteq S /\ x \notin BeforeIn(S, x)
    <3>1. x[1] \in Nat /\ x[2] \in Nat
        BY <1>1, <1>4
    <3>2. ~(x[1] < x[1]) /\ ~(x[2] < x[2])
        BY <3>1
    <3> QED BY <3>2 DEF BeforeIn
  <2>4. IsFiniteSet(S) /\ Cardinality(S) \in Nat
      BY Finite
  <2>5. /\ IsFiniteSet(BeforeIn(S, x))
        /\ Cardinality(BeforeIn(S, x)) <= Cardinality(S)
        /\ Cardinality(BeforeIn(S, x)) # Cardinality(S)
    <3>1. BeforeIn(S, x) \in SUBSET S /\ BeforeIn(S, x) # S
        BY <2>3
    <3> QED BY <2>4, <3>1, FS_Subset
  <2>6. Cardinality(BeforeIn(S, x)) \in Nat
      BY <2>5, FS_CardinalityType
  <2> QED BY <2>2, <2>4, <2>5, <2>6
<1>7. ASSUME NEW d \in 1..count[q]
      PROVE  Cardinality(BeforeIn(T, Device(q, d))) = Cardinality(S) + d - 1
  <2>1. d - 1 \in Nat
      OBVIOUS
  <2>2. BeforeIn(T, Device(q, d)) = S \cup Row(q, d - 1)
    <3> DEFINE x == Device(q, d)
    <3>1. x[1] = q /\ x[2] = d
        BY DEF Device
    <3>2. \A y \in S : y \in T /\ y[1] < x[1]
        BY <1>2, <1>4, <3>1
    <3>3. \A y \in Row(q, d - 1) : y \in Row(q, count[q])
        BY DEF Row
    <3>4. \A y \in Row(q, d - 1) : y \in T /\ y[1] = x[1] /\ y[2] < x[2]
      <4> SUFFICES ASSUME NEW y \in Row(q, d - 1)
                   PROVE  y \in T /\ y[1] = x[1] /\ y[2] < x[2]
          OBVIOUS
      <4>1. y[1] = q /\ y[2] \in 1..(d - 1)
          BY <1>5, <2>1
      <4>2. y[2] < d
          BY <4>1
      <4>3. y \in T
          BY <1>2, <3>3
      <4> QED BY <3>1, <4>1, <4>2, <4>3
    <3>5. \A y \in T : y \notin S => y[1] = q /\ y[2] \in 1..count[q] /\ y = <<q, y[2]>>
        BY <1>2, <1>5
    <3>6. \A y \in BeforeIn(T, x) : y \in S \/ y \in Row(q, d - 1)
      <4> SUFFICES ASSUME NEW y \in BeforeIn(T, x), y \notin S
                   PROVE  y \in Row(q, d - 1)
          OBVIOUS
      <4>1. y \in T /\ (y[1] < x[1] \/ (y[1] = x[1] /\ y[2] < x[2]))
          BY DEF BeforeIn
      <4>2. y[1] = q /\ y[2] \in 1..count[q] /\ y = <<q, y[2]>>
          BY <3>5, <4>1
      <4>3. y[2] < d
          BY <3>1, <4>1, <4>2
      <4>4. y[2] \in 1..(d - 1)
          BY <4>2, <4>3
      <4> QED BY <4>2, <4>4 DEF Row, Device
    <3> HIDE DEF x
    <3>7. S \cup Row(q, d - 1) \subseteq BeforeIn(T, x)
        BY <3>2, <3>4 DEF BeforeIn
    <3>8. BeforeIn(T, x) = S \cup Row(q, d - 1)
        BY <3>6, <3>7
    <3> QED BY <3>8 DEF x
  <2>3. Cardinality(S \cup Row(q, d - 1)) = Cardinality(S) + (d - 1)
      BY <1>1, <2>1, AddRow
  <2>4. Cardinality(S) \in Nat
      BY Finite
  <2> QED BY <2>2, <2>3, <2>4
<1> QED BY <1>6, <1>7
-----------------------------------------------------------------------------
(* The enumeration.                                                        *)

\* Of no platform there are no devices.
LEMMA NoDevices ==
    ASSUME NEW count
    PROVE  DevicesOf({}, count) = {} /\ Cardinality(DevicesOf({}, count)) = 0
<1>1. DevicesOf({}, count) = {}
    BY DEF DevicesOf
<1> QED BY <1>1, FS_EmptySet

\* The platforms counted are within bounds.
LEMMA CountsType ==
    ASSUME EnumTypeInv, NEW P \in SUBSET (1..Len(num_devs))
    PROVE  CountsWithin(P, num_devs, Len(num_devs), MaxCount)
<1>1. MaxCount \in Nat
    BY Width
<1>2. num_devs \in Seq(0..MaxCount) /\ Len(num_devs) \in Nat
    BY LenProperties DEF EnumTypeInv
<1>3. \A p \in 1..Len(num_devs) : num_devs[p] \in 0..MaxCount
    BY <1>2, ElementOfSeq
<1> QED BY <1>1, <1>2, <1>3 DEF CountsWithin

\* The enumeration starts with nothing counted.
LEMMA EnumInit ==
    ASSUME Init
    PROVE  EnumInv
<1> USE DEF Init
<1>1. EnumTypeInv
  <2>1. num_devs \in Seq(0..MaxCount)
      BY EmptySeq
  <2>2. 0 \in UInt
      BY Width DEF UInt
  <2>3. platforms \in BOOLEAN
      BY Zenon
  <2>4. present \in Systems /\ pc = "platforms" /\ num_platforms \in 0..MaxPlatforms
        /\ i \in Nat \ {0} /\ num_devices \in UInt
      BY <2>2
  <2> HIDE DEF Init
  <2> QED BY <2>1, <2>3, <2>4 DEF EnumTypeInv
<1>2. PlatformsInv /\ CountInv /\ FillInv /\ ListInv /\ StaysInBounds
    BY DEF PlatformsInv, CountInv, FillInv, ListInv, StaysInBounds, Enumerated
<1> QED BY <1>1, <1>2 DEF EnumInv

\* The first call lists all platforms, or none.
LEMMA GetPlatformsStep ==
    ASSUME EnumInv, GetPlatforms
    PROVE  EnumInv'
<1> USE DEF EnumInv, GetPlatforms
<1>1. Len(present) \in 0..MaxPlatforms
    BY SystemType DEF EnumTypeInv
<1>2. EnumTypeInv'
    BY <1>1 DEF EnumTypeInv, Enumerated
<1>3. PlatformsInv' /\ CountInv' /\ FillInv' /\ ListInv' /\ StaysInBounds'
    BY DEF PlatformsInv, CountInv, FillInv, ListInv, StaysInBounds, Enumerated
<1> QED BY <1>2, <1>3

\* A count without a list is the only way into the wild at once.
LEMMA MallocCountersStep ==
    ASSUME EnumInv, MallocCounters
    PROVE  EnumInv'
<1> USE DEF EnumInv, MallocCounters
<1>1. EnumTypeInv'
  <2>1. 0 \in UInt
      BY Width DEF UInt
  <2> QED BY <2>1 DEF EnumTypeInv, Enumerated
<1>2. PlatformsInv'
  <2>1. Len(present) \in Nat /\ num_platforms \in Nat
      BY SystemType, EnumAssumption DEF EnumTypeInv
  <2> QED BY <2>1 DEF PlatformsInv, Enumerated, EnumTypeInv
<1>3. CountInv'
  <2>1. num_devs = << >> /\ counted = {} /\ filled = {} /\ offset = 0
      BY DEF CountInv, Enumerated
  <2>2. CountedUpTo(0)' = 0
    <3>1. CountedUpTo(0)' = Cardinality(DevicesOf({}, num_devs)) % UIntMod
        BY DEF CountedUpTo
    <3>2. 0 \in UInt
        BY Width DEF UInt
    <3> QED BY <3>1, <3>2, NoDevices, Width
  <2>3. num_platforms \in Nat
      BY EnumAssumption DEF EnumTypeInv
  <2> QED BY <2>1, <2>2, <2>3 DEF CountInv, Enumerated
<1>4. FillInv' /\ ListInv' /\ StaysInBounds'
    BY DEF FillInv, ListInv, StaysInBounds, Enumerated
<1> QED BY <1>1, <1>2, <1>3, <1>4

\* One more count is one more addend.
LEMMA CountStep ==
    ASSUME EnumInv, Count
    PROVE  EnumInv'
<1> USE DEF EnumInv
<1>0. PICK succeeds \in BOOLEAN : \E n \in CountOf(i, succeeds) :
        /\ pc = "count" /\ i <= num_platforms
        /\ succeeds => present[i] > 0
        /\ counted' = IF succeeds THEN counted \cup {i} ELSE counted
        /\ num_devs' = Append(num_devs, n)
        /\ num_devices' = (num_devices + n) % UIntMod
        /\ i' = i + 1
        /\ UNCHANGED <<present, pc, platforms, num_platforms, filled, devs, offset>>
    BY DEF Count
<1>1. PICK n \in CountOf(i, succeeds) :
        /\ pc = "count" /\ i <= num_platforms
        /\ succeeds => present[i] > 0
        /\ counted' = IF succeeds THEN counted \cup {i} ELSE counted
        /\ num_devs' = Append(num_devs, n)
        /\ num_devices' = (num_devices + n) % UIntMod
        /\ i' = i + 1
        /\ UNCHANGED <<present, pc, platforms, num_platforms, filled, devs, offset>>
    BY <1>0
<1>2. /\ Len(num_devs) = i - 1 /\ num_devices = CountedUpTo(i - 1)
      /\ i \in Nat \ {0} /\ num_devs \in Seq(0..MaxCount) /\ num_platforms \in Nat
      /\ i \in 1..Len(present) /\ present[i] \in 0..MaxDevices
  <2>1. i \in 1..Len(present)
    <3>1. Len(present) \in Nat
        BY SystemType, EnumAssumption DEF EnumTypeInv
    <3>2. i \in Nat \ {0} /\ i <= num_platforms /\ num_platforms <= Len(present)
        BY <1>1 DEF PlatformsInv, EnumTypeInv
    <3>3. num_platforms \in Nat
        BY EnumAssumption DEF EnumTypeInv
    <3> QED BY <3>1, <3>2, <3>3
  <2> QED BY <1>1, <2>1, SystemType, EnumAssumption DEF CountInv, EnumTypeInv
<1>3. n \in 0..MaxCount /\ (succeeds => n = present[i])
  <2>1. UIntMod \in Nat \ {0} /\ MaxDevices \in Nat
      BY Width, EnumAssumption
  <2>2. CASE succeeds
      BY <1>1, <1>2, <2>1, <2>2 DEF CountOf, MaxCount
  <2>3. CASE ~succeeds
      BY <1>1, <2>1, <2>3 DEF CountOf, UInt, MaxCount
  <2> QED BY <2>2, <2>3
<1>4. /\ num_devs' \in Seq(0..MaxCount) /\ Len(num_devs') = i
      /\ num_devs'[i] = n
      /\ \A p \in 1..(i - 1) : num_devs'[p] = num_devs[p]
  <2>1. /\ Append(num_devs, n) \in Seq(0..MaxCount)
        /\ Len(Append(num_devs, n)) = Len(num_devs) + 1
        /\ \A p \in 1..(Len(num_devs) + 1) : Append(num_devs, n)[p]
              = IF p <= Len(num_devs) THEN num_devs[p] ELSE n
      BY <1>2, <1>3, AppendProperties
  <2> QED BY <1>1, <1>2, <2>1
<1>5. EnumTypeInv'
  <2>1. num_devices' \in UInt
    <3>1. num_devices + n \in Int
        BY <1>3, Width DEF EnumTypeInv, UInt
    <3> QED BY <1>1, <3>1, Width
  <2> QED BY <1>1, <1>2, <1>4, <2>1 DEF EnumTypeInv
<1>6. PlatformsInv'
    BY <1>1 DEF PlatformsInv
<1>7. num_devices' = Cardinality(DevicesOf(1..i, num_devs')) % UIntMod
  <2> DEFINE C == Cardinality(DevicesOf(1..(i - 1), num_devs))
  <2>1. DevicesOf(1..(i - 1), num_devs) = DevicesOf(1..(i - 1), num_devs')
      BY <1>4, SameCounts
  <2>2. CountsWithin(1..(i - 1), num_devs', i, MaxCount)
    <3>1. \A p \in 1..Len(num_devs') : num_devs'[p] \in 0..MaxCount
        BY <1>4, ElementOfSeq
    <3>2. i \in Nat /\ MaxCount \in Nat /\ 1..(i - 1) \subseteq 1..i
        BY <1>2, Width
    <3> QED BY <1>4, <3>1, <3>2 DEF CountsWithin
  <2>3. i \notin 1..(i - 1) /\ num_devs'[i] \in Nat /\ (1..(i - 1)) \cup {i} = 1..i
      BY <1>2, <1>3, <1>4
  <2> HIDE DEF C
  <2>4. Cardinality(DevicesOf((1..(i - 1)) \cup {i}, num_devs'))
          = Cardinality(DevicesOf(1..(i - 1), num_devs')) + num_devs'[i]
    <3> DEFINE P == 1..(i - 1)
    <3>1. CountsWithin(P, num_devs', i, MaxCount) /\ i \notin P /\ num_devs'[i] \in Nat
        BY <2>2, <2>3
    <3> HIDE DEF P
    <3>2. Cardinality(DevicesOf(P \cup {i}, num_devs'))
            = Cardinality(DevicesOf(P, num_devs')) + num_devs'[i]
        BY <3>1, AddPlatform
    <3> QED BY <3>2 DEF P
  <2>5. Cardinality(DevicesOf(1..i, num_devs')) = C + n
      BY <1>4, <2>1, <2>3, <2>4 DEF C
  <2>6. C \in Int /\ n \in Int
      BY <1>3, <2>1, <2>2, Finite, Width DEF C
  <2>7. ((C % UIntMod) + n) % UIntMod = (C + n) % UIntMod
      BY <2>6, ModAdd, Width
  <2>8. num_devices = C % UIntMod
      BY <1>2 DEF CountedUpTo, C
  <2> QED BY <1>1, <2>5, <2>7, <2>8
<1>8. CountInv'
  <2>1. (CountedUpTo(i - 1))' = Cardinality(DevicesOf(1..(i' - 1), num_devs')) % UIntMod
      BY DEF CountedUpTo
  <2>2. i' - 1 = i /\ i' <= num_platforms' + 1 /\ i' \in Nat
      BY <1>1, <1>2
  <2>3. num_devices' = (CountedUpTo(i - 1))'
      BY <1>7, <2>1, <2>2
  <2>4. counted' \subseteq 1..Len(num_devs')
      BY <1>1, <1>2, <1>4 DEF CountInv
  <2>5. \A p \in counted' : num_devs'[p] = present'[p] /\ present'[p] > 0
    <3> SUFFICES ASSUME NEW p \in counted'
                 PROVE  num_devs'[p] = present[p] /\ present[p] > 0
        BY <1>1
    <3>1. CASE p \in counted
      <4>1. p \in 1..(i - 1)
          BY <1>2, <3>1 DEF CountInv
      <4> QED BY <1>4, <3>1, <4>1 DEF CountInv
    <3>2. CASE p = i /\ succeeds
        BY <1>1, <1>3, <1>4, <3>2
    <3> QED BY <1>1, <3>1, <3>2
  <2> QED BY <1>1, <1>4, <2>2, <2>3, <2>4, <2>5 DEF CountInv, Enumerated
<1>9. FillInv' /\ ListInv' /\ StaysInBounds'
    BY <1>1 DEF FillInv, ListInv, StaysInBounds, Enumerated
<1> QED BY <1>5, <1>6, <1>8, <1>9

\* The array has the length that was counted.
LEMMA AllocateStep ==
    ASSUME EnumInv, Allocate
    PROVE  EnumInv'
<1> USE DEF EnumInv
<1>1. /\ pc = "count" /\ i > num_platforms /\ i' = 1 /\ pc' = "fill"
      /\ devs' = [k \in 0..(num_devices - 1) |-> Garbage] \/ devs' = Null
      /\ UNCHANGED <<present, platforms, num_platforms, num_devs, counted,
                     filled, num_devices, offset>>
    BY DEF Allocate
<1>2. /\ num_platforms \in Nat /\ i = num_platforms + 1
      /\ filled = {} /\ offset = 0
      /\ Len(num_devs) = num_platforms
      /\ num_devices = CountedUpTo(num_platforms)
  <2>1. num_platforms \in Nat /\ i \in Nat
      BY EnumAssumption DEF EnumTypeInv
  <2>2. i <= num_platforms + 1 /\ Len(num_devs) = i - 1 /\ num_devices = CountedUpTo(i - 1)
        /\ filled = {} /\ offset = 0
      BY <1>1 DEF CountInv, Enumerated
  <2>3. i = num_platforms + 1
      BY <1>1, <2>1, <2>2
  <2> QED BY <2>1, <2>2, <2>3
<1>3. EnumTypeInv' /\ PlatformsInv' /\ CountInv' /\ StaysInBounds'
  <2>1. EnumTypeInv'
      BY <1>1 DEF EnumTypeInv, Enumerated
  <2>2. PlatformsInv'
      BY <1>1 DEF PlatformsInv, Enumerated
  <2>3. CountInv'
      BY <1>1, <1>2 DEF CountInv, Enumerated
  <2> QED BY <1>1, <2>1, <2>2, <2>3 DEF StaysInBounds
<1>4. FillInv'
  <2>1. LeftOver' = CountedUpTo(num_platforms)
    <3>1. LeftOver' = Cardinality(DevicesOf(filled' \cup (i'..num_platforms'), num_devs')) % UIntMod
        BY DEF LeftOver
    <3>2. filled' \cup (i'..num_platforms') = 1..num_platforms
        BY <1>1, <1>2
    <3> QED BY <1>1, <3>1, <3>2 DEF CountedUpTo
  <2>2. (CountedUpTo(num_platforms))' = CountedUpTo(num_platforms)
      BY <1>1 DEF CountedUpTo
  <2>3. devs' # Null => DOMAIN devs' = 0..(num_devices - 1)
      BY <1>1
  <2> QED BY <1>1, <1>2, <2>1, <2>2, <2>3 DEF FillInv
<1>5. ListInv'
  <2>1. filled' = {} /\ offset' = 0
      BY <1>1, <1>2
  <2>2. Delivered' = DevicesOf(filled', present')
      BY DEF Delivered, DevicesOf, Row
  <2>3. Delivered' = {} /\ Cardinality(Delivered') = 0
      BY <2>1, <2>2, NoDevices
  <2>4. 0..(offset' - 1) = {}
      BY <2>1
  <2> QED BY <2>1, <2>3, <2>4 DEF ListInv
<1> QED BY <1>3, <1>4, <1>5

\* What a platform that fails was counted for is taken off.
LEMMA FillFailureStep ==
    ASSUME EnumInv, FillFailure
    PROVE  EnumInv'
<1> USE DEF EnumInv
<1>1. /\ pc = "fill" /\ i <= num_platforms /\ i' = i + 1
      /\ num_devices' = (num_devices - num_devs[i]) % UIntMod
      /\ UNCHANGED <<present, pc, platforms, num_platforms, num_devs, counted,
                     filled, devs, offset>>
    BY DEF FillFailure
<1>2. /\ num_platforms \in Nat /\ i \in Nat \ {0} /\ Len(num_devs) = num_platforms
      /\ num_devs[i] \in Nat
      /\ filled \subseteq 1..(i - 1)
      /\ num_devices = LeftOver
  <2>1. num_platforms \in Nat /\ i \in Nat \ {0} /\ num_devs \in Seq(0..MaxCount)
      BY EnumAssumption DEF EnumTypeInv
  <2>2. Len(num_devs) = num_platforms
      BY <1>1 DEF CountInv, Enumerated
  <2>3. num_devs[i] \in Nat
    <3>1. i \in 1..Len(num_devs)
        BY <1>1, <2>1, <2>2
    <3>2. num_devs \in Seq(Nat)
        BY <2>1, Width, SeqDef
    <3> QED BY <3>1, <3>2, ElementOfSeq
  <2>4. filled \subseteq 1..(i - 1) /\ num_devices = LeftOver
      BY <1>1 DEF FillInv, Enumerated
  <2> QED BY <2>1, <2>2, <2>3, <2>4
<1>3. num_devices' = LeftOver'
  <2> DEFINE P == filled \cup ((i + 1)..num_platforms)
             C == Cardinality(DevicesOf(P, num_devs))
  <2>1. i \notin P /\ P \cup {i} = filled \cup (i..num_platforms) /\ P \in SUBSET (1..num_platforms)
      BY <1>1, <1>2
  <2>2. LeftOver' = C % UIntMod
    <3>1. LeftOver' = Cardinality(DevicesOf(filled' \cup (i'..num_platforms'), num_devs')) % UIntMod
        BY DEF LeftOver
    <3> QED BY <1>1, <3>1
  <2>3. LeftOver = Cardinality(DevicesOf(P \cup {i}, num_devs)) % UIntMod
      BY <2>1 DEF LeftOver
  <2> HIDE DEF P
  <2>4. CountsWithin(P, num_devs, Len(num_devs), MaxCount)
      BY <1>2, <2>1, CountsType
  <2>5. num_devs[i] \in Nat
      BY <1>2
  <2>6. Cardinality(DevicesOf(P \cup {i}, num_devs)) = C + num_devs[i] /\ C \in Nat
      BY <2>1, <2>4, <2>5, AddPlatform, Finite
  <2> HIDE DEF C
  <2>7. num_devices = (C + num_devs[i]) % UIntMod
      BY <1>2, <2>3, <2>6
  <2>8. (((C + num_devs[i]) % UIntMod) + (0 - num_devs[i])) % UIntMod
          = ((C + num_devs[i]) + (0 - num_devs[i])) % UIntMod
    <3>1. C + num_devs[i] \in Int /\ 0 - num_devs[i] \in Int /\ UIntMod \in Nat \ {0}
        BY <2>5, <2>6, Width
    <3> QED BY <3>1, ModAdd
  <2>9. /\ (C + num_devs[i]) + (0 - num_devs[i]) = C
        /\ num_devices + (0 - num_devs[i]) = num_devices - num_devs[i]
    <3>1. num_devices \in Int
        BY Width DEF EnumTypeInv, UInt
    <3> QED BY <2>5, <2>6, <3>1
  <2> QED BY <1>1, <2>2, <2>7, <2>8, <2>9
<1>4. EnumTypeInv' /\ PlatformsInv' /\ CountInv' /\ StaysInBounds'
  <2>1. num_devices' \in UInt
    <3>1. num_devices \in Int
        BY Width DEF EnumTypeInv, UInt
    <3>2. num_devices - num_devs[i] \in Int
        BY <1>2, <3>1
    <3> QED BY <1>1, <3>2, Width
  <2>2. EnumTypeInv'
      BY <1>1, <1>2, <2>1 DEF EnumTypeInv
  <2>3. PlatformsInv'
      BY <1>1 DEF PlatformsInv, Enumerated
  <2>4. CountInv'
      BY <1>1, <1>2 DEF CountInv, Enumerated
  <2> QED BY <1>1, <2>2, <2>3, <2>4 DEF StaysInBounds
<1>5. FillInv'
  <2>1. (CountedUpTo(num_platforms))' = CountedUpTo(num_platforms)
      BY <1>1 DEF CountedUpTo
  <2>2. i' <= num_platforms' + 1 /\ filled' \subseteq 1..(i' - 1)
      BY <1>1, <1>2
  <2>3. /\ \A p \in filled' : present'[p] > 0
        /\ devs' = Null => filled' = {}
        /\ devs' # Null => DOMAIN devs' = 0..(CountedUpTo(num_platforms) - 1)
      BY <1>1 DEF FillInv, Enumerated
  <2> QED BY <1>1, <1>3, <2>1, <2>2, <2>3 DEF FillInv
<1>6. ListInv'
  <2>1. Delivered' = Delivered /\ Counted' = Counted
      BY <1>1 DEF Delivered, Counted
  <2>2. \A x : DeliveredBefore(x)' = DeliveredBefore(x)
      BY <2>1 DEF DeliveredBefore
  <2> QED BY <1>1, <2>1, <2>2 DEF ListInv, Enumerated
<1> QED BY <1>3, <1>4, <1>5, <1>6

\* Nothing is changed at the end.
LEMMA ReturnStep ==
    ASSUME EnumInv, Return
    PROVE  EnumInv'
<1> USE DEF EnumInv
<1>1. /\ pc = "fill" /\ i > num_platforms /\ pc' = "done"
      /\ UNCHANGED <<present, platforms, num_platforms, i, num_devs, counted, filled,
                     num_devices, devs, offset>>
    BY DEF Return
<1>2. EnumTypeInv' /\ PlatformsInv' /\ CountInv' /\ StaysInBounds'
    BY <1>1 DEF EnumTypeInv, PlatformsInv, CountInv, StaysInBounds, Enumerated
<1>3. FillInv'
  <2>1. LeftOver' = LeftOver
      BY <1>1 DEF LeftOver
  <2>2. (CountedUpTo(num_platforms))' = CountedUpTo(num_platforms)
      BY <1>1 DEF CountedUpTo
  <2>3. i \in Nat /\ num_platforms \in Nat
      BY EnumAssumption DEF EnumTypeInv
  <2> QED BY <1>1, <2>1, <2>2, <2>3 DEF FillInv, Enumerated
<1>4. ListInv'
  <2>1. Delivered' = Delivered /\ Counted' = Counted
      BY <1>1 DEF Delivered, Counted
  <2>2. \A x : DeliveredBefore(x)' = DeliveredBefore(x)
      BY <2>1 DEF DeliveredBefore
  <2> QED BY <1>1, <2>1, <2>2 DEF ListInv, Enumerated
<1> QED BY <1>2, <1>3, <1>4

\* The counter is wide enough for all devices.
LEMMA SystemFits ==
    ASSUME present \in Systems, NEW P \in SUBSET (1..Len(present))
    PROVE  /\ CountsWithin(P, present, MaxPlatforms, MaxDevices)
           /\ Cardinality(DevicesOf(P, present)) \in UInt
           /\ Cardinality(DevicesOf(P, present)) % UIntMod = Cardinality(DevicesOf(P, present))
<1>1. CountsWithin(P, present, MaxPlatforms, MaxDevices)
  <2>1. P \subseteq 1..MaxPlatforms
      BY SystemType, EnumAssumption
  <2>2. \A p \in P : present[p] \in 0..MaxDevices
      BY SystemType
  <2> QED BY <2>1, <2>2, EnumAssumption DEF CountsWithin
<1>2. Cardinality(DevicesOf(P, present)) \in 0..(MaxPlatforms * MaxDevices)
    BY <1>1, Finite
<1>3. MaxPlatforms * MaxDevices \in Nat /\ MaxPlatforms * MaxDevices < UIntMod /\ UIntMod \in Nat
    BY EnumAssumption
<1>4. Cardinality(DevicesOf(P, present)) \in UInt
    BY <1>2, <1>3 DEF UInt
<1> QED BY <1>1, <1>4, Width

\* Before a platform delivers: where it is, and what is behind its counter
\* when that is right.
LEMMA Delivering ==
    ASSUME EnumInv, pc = "fill", i <= num_platforms, ~MustFail
    PROVE  /\ i \in 1..Len(present) /\ i \in 1..num_platforms /\ num_platforms \in Nat
           /\ Len(present) \in Nat /\ present[i] \in Nat \ {0}
           /\ num_platforms <= Len(present)
           /\ platforms /\ num_platforms = Len(present)
           /\ num_devs[i] \in Nat
           /\ filled \subseteq 1..(i - 1)
           /\ devs # Null /\ DOMAIN devs = 0..(CountedUpTo(num_platforms) - 1)
           /\ Counted => num_devs[i] = present[i]
<1> USE DEF EnumInv
<1>1. num_platforms \in Nat /\ i \in Nat \ {0} /\ num_devs \in Seq(0..MaxCount)
      /\ present \in Systems
    BY EnumAssumption DEF EnumTypeInv
<1>2. Len(present) \in Nat /\ DOMAIN present = 1..Len(present)
    BY <1>1, SystemType, EnumAssumption
<1>3. num_platforms <= Len(present) /\ Len(num_devs) = num_platforms
    BY DEF PlatformsInv, CountInv, Enumerated
<1>4. i \in 1..Len(present) /\ i \in 1..num_platforms /\ i \in 1..Len(num_devs)
    BY <1>1, <1>2, <1>3
<1>5. present[i] \in Nat \ {0} /\ devs # Null
    BY <1>1, <1>4, SystemType, EnumAssumption DEF MustFail
<1>6. num_devs[i] \in Nat
  <2>1. num_devs \in Seq(Nat)
      BY <1>1, Width, SeqDef
  <2> QED BY <1>4, <2>1, ElementOfSeq
<1>7. platforms /\ num_platforms = Len(present)
  <2>1. platforms
      BY <1>1, <1>4 DEF PlatformsInv, Enumerated
  <2> QED BY <2>1 DEF PlatformsInv
<1>8. filled \subseteq 1..(i - 1) /\ DOMAIN devs = 0..(CountedUpTo(num_platforms) - 1)
    BY <1>5 DEF FillInv, Enumerated
<1>9. Counted => num_devs[i] = present[i]
    BY <1>2, <1>4, <1>5 DEF CountInv, Counted
<1> QED BY <1>1, <1>2, <1>3, <1>4, <1>5, <1>6, <1>7, <1>8, <1>9

\* What the devices delivered become with those of the next platform.
LEMMA DeliveredGrow ==
    ASSUME EnumInv, pc = "fill", i <= num_platforms, ~MustFail,
           filled' = filled \cup {i}, present' = present
    PROVE  /\ Delivered' = Delivered \cup Row(i, present[i])
           /\ Cardinality(Delivered) \in Nat
           /\ Cardinality(Delivered') = Cardinality(Delivered) + present[i]
           /\ Cardinality(Delivered') \in UInt
           /\ \A x \in Delivered :
                /\ DeliveredBefore(x)' = DeliveredBefore(x)
                /\ Cardinality(DeliveredBefore(x)) \in 0..(Cardinality(Delivered) - 1)
           /\ \A d \in 1..present[i] : \A x \in {Device(i, d)} :
                Cardinality(DeliveredBefore(x)') = Cardinality(Delivered) + d - 1
<1>1. /\ i \in 1..Len(present) /\ present[i] \in Nat /\ Len(present) \in Nat
      /\ filled \subseteq 1..(i - 1) /\ present \in Systems
    BY Delivering DEF EnumInv, EnumTypeInv
<1>2. /\ filled \in SUBSET (1..Len(present)) /\ filled' \in SUBSET (1..Len(present))
      /\ i \notin filled /\ \A p \in filled : p < i
    BY <1>1
<1>3. CountsWithin(filled, present, MaxPlatforms, MaxDevices)
    BY <1>1, <1>2, SystemFits
<1>4. Delivered = DevicesOf(filled, present) /\ Delivered' = DevicesOf(filled', present)
  <2>1. Delivered' = DevicesOf(filled', present')
      BY DEF Delivered, DevicesOf, Row
  <2> QED BY <2>1, DeliveredAre
<1>5. /\ DevicesOf(filled \cup {i}, present) = Delivered \cup Row(i, present[i])
      /\ Cardinality(DevicesOf(filled \cup {i}, present)) = Cardinality(Delivered) + present[i]
    BY <1>1, <1>2, <1>3, <1>4, AddPlatform
<1>6. Cardinality(Delivered') \in UInt
    BY <1>1, <1>2, <1>4, SystemFits
<1>7. Cardinality(Delivered) \in Nat
    BY <1>3, <1>4, Finite
<1>8. /\ \A x : DeliveredBefore(x) = BeforeIn(Delivered, x)
      /\ \A x : DeliveredBefore(x)' = BeforeIn(Delivered', x)
    BY DEF DeliveredBefore, BeforeIn
<1>9. /\ \A x \in Delivered :
           /\ BeforeIn(Delivered', x) = BeforeIn(Delivered, x)
           /\ Cardinality(BeforeIn(Delivered, x)) \in 0..(Cardinality(Delivered) - 1)
      /\ \A d \in 1..present[i] :
           Cardinality(BeforeIn(Delivered', Device(i, d))) = Cardinality(Delivered) + d - 1
  <2> DEFINE P == filled
             q == i
             f == present
  <2>1. CountsWithin(P, f, MaxPlatforms, MaxDevices) /\ q \in Nat /\ f[q] \in Nat
        /\ \A p \in P : p < q
      BY <1>1, <1>2, <1>3
  <2>2. Delivered = DevicesOf(P, f) /\ Delivered' = DevicesOf(P \cup {q}, f)
      BY <1>4
  <2> HIDE DEF P, q, f
  <2>3. /\ \A x \in DevicesOf(P, f) :
             /\ BeforeIn(DevicesOf(P \cup {q}, f), x) = BeforeIn(DevicesOf(P, f), x)
             /\ Cardinality(BeforeIn(DevicesOf(P, f), x))
                  \in 0..(Cardinality(DevicesOf(P, f)) - 1)
        /\ \A d \in 1..f[q] :
             Cardinality(BeforeIn(DevicesOf(P \cup {q}, f), Device(q, d)))
               = Cardinality(DevicesOf(P, f)) + d - 1
      BY ONLY <2>1, Places
  <2>4. /\ \A x \in Delivered :
             /\ BeforeIn(Delivered', x) = BeforeIn(Delivered, x)
             /\ Cardinality(BeforeIn(Delivered, x)) \in 0..(Cardinality(Delivered) - 1)
        /\ \A d \in 1..f[q] :
             Cardinality(BeforeIn(Delivered', Device(q, d))) = Cardinality(Delivered) + d - 1
      BY ONLY <2>2, <2>3
  <2> QED BY <2>4 DEF q, f
<1>10. ASSUME NEW x \in Delivered
       PROVE  /\ DeliveredBefore(x)' = DeliveredBefore(x)
              /\ Cardinality(DeliveredBefore(x)) \in 0..(Cardinality(Delivered) - 1)
    BY ONLY <1>8, <1>9, x \in Delivered
<1>11. ASSUME NEW d \in 1..present[i], NEW x \in {Device(i, d)}
       PROVE  Cardinality(DeliveredBefore(x)') = Cardinality(Delivered) + d - 1
    BY <1>8, <1>9
<1>12. /\ Delivered' = Delivered \cup Row(i, present[i])
       /\ Cardinality(Delivered) \in Nat
       /\ Cardinality(Delivered') = Cardinality(Delivered) + present[i]
       /\ Cardinality(Delivered') \in UInt
    BY <1>4, <1>5, <1>6, <1>7
<1> QED BY <1>10, <1>11, <1>12

\* What is delivered goes behind what was before, and inside of the array
\* unless a count failed.
LEMMA FillSuccessStep ==
    ASSUME EnumInv, FillSuccess
    PROVE  EnumInv'
<1> DEFINE wanted == IF num_devs[i] < present[i] THEN num_devs[i] ELSE present[i]
           part  == offset..(offset + wanted - 1)
<1>1. /\ pc = "fill" /\ i <= num_platforms /\ ~MustFail /\ i' = i + 1
      /\ offset' = (offset + num_devs[i]) % UIntMod
      /\ filled' = filled \cup {i}
      /\ UNCHANGED <<present, platforms, num_platforms, num_devs, counted, num_devices>>
      /\ pc' \in {"fill", "wild"}
      /\ pc' = "fill" =>
           /\ part \subseteq DOMAIN devs
           /\ devs' = [k \in DOMAIN devs |->
                         IF k \in part THEN Device(i, k - offset + 1) ELSE devs[k]]
      /\ pc' = "wild" => ~(part \subseteq DOMAIN devs)
    BY DEF FillSuccess
<1>2. /\ i \in 1..Len(present) /\ i \in 1..num_platforms /\ num_platforms \in Nat
      /\ Len(present) \in Nat /\ present[i] \in Nat \ {0}
      /\ platforms /\ num_platforms = Len(present)
      /\ num_devs[i] \in Nat
      /\ filled \subseteq 1..(i - 1)
      /\ devs # Null /\ DOMAIN devs = 0..(CountedUpTo(num_platforms) - 1)
      /\ Counted => num_devs[i] = present[i]
    BY <1>1, Delivering
<1>3. EnumTypeInv' /\ PlatformsInv' /\ CountInv'
  <2>1. EnumTypeInv'
      BY <1>1, <1>2 DEF EnumInv, EnumTypeInv, Enumerated
  <2>2. PlatformsInv'
      BY <1>1, <1>2 DEF PlatformsInv
  <2>3. CountInv'
      BY <1>1 DEF EnumInv, CountInv, Enumerated
  <2> QED BY <2>1, <2>2, <2>3
<1>4. FillInv'
  <2> SUFFICES ASSUME pc' = "fill"
               PROVE  FillInv'
      BY <1>1 DEF FillInv, Enumerated
  <2>1. LeftOver' = LeftOver
    <3>1. LeftOver' = Cardinality(DevicesOf(filled' \cup (i'..num_platforms'), num_devs')) % UIntMod
        BY DEF LeftOver
    <3>2. filled' \cup (i'..num_platforms') = filled \cup (i..num_platforms)
        BY <1>1, <1>2
    <3> QED BY <1>1, <3>1, <3>2 DEF LeftOver
  <2>2. (CountedUpTo(num_platforms))' = CountedUpTo(num_platforms)
      BY <1>1 DEF CountedUpTo
  <2>3. DOMAIN devs' = DOMAIN devs
      BY <1>1
  <2>4. devs' # Null
    <3>1. CountedUpTo(num_platforms) \in Int
      <4> DEFINE C == Cardinality(DevicesOf(1..num_platforms, num_devs))
      <4>1. EnumTypeInv /\ Len(num_devs) = num_platforms
          BY <1>1 DEF EnumInv, CountInv, Enumerated
      <4>2. CountsWithin(1..num_platforms, num_devs, Len(num_devs), MaxCount)
          BY <4>1, CountsType
      <4>3. C \in Nat
          BY <4>2, Finite
      <4> HIDE DEF C
      <4>4. C % UIntMod \in Int
          BY <4>3, Width DEF UInt
      <4> QED BY <4>4 DEF CountedUpTo, C
    <3>2. \A c \in Int : 1 \in 0..(c - 1) => 0 \in 0..(c - 1)
        OBVIOUS
    <3>3. 1 \in DOMAIN devs' => 0 \in DOMAIN devs'
        BY <1>2, <2>3, <3>1, <3>2
    <3>4. 1 \in DOMAIN Null /\ 0 \notin DOMAIN Null
        BY DEF Null
    <3> QED BY <3>3, <3>4
  <2>5. i' <= num_platforms' + 1 /\ filled' \subseteq 1..(i' - 1)
      BY <1>1, <1>2
  <2>6. (\A p \in filled' : present'[p] > 0) /\ num_devices' = LeftOver'
      BY <1>1, <1>2, <2>1 DEF EnumInv, FillInv, Enumerated
  <2> QED BY <1>1, <1>2, <2>2, <2>3, <2>4, <2>5, <2>6 DEF FillInv
<1>5. /\ Delivered' = Delivered \cup Row(i, present[i])
      /\ Cardinality(Delivered) \in Nat
      /\ Cardinality(Delivered') = Cardinality(Delivered) + present[i]
      /\ Cardinality(Delivered') \in UInt
      /\ \A x \in Delivered :
           /\ DeliveredBefore(x)' = DeliveredBefore(x)
           /\ Cardinality(DeliveredBefore(x)) \in 0..(Cardinality(Delivered) - 1)
      /\ \A d \in 1..present[i] : \A x \in {Device(i, d)} :
           Cardinality(DeliveredBefore(x)') = Cardinality(Delivered) + d - 1
    BY <1>1, DeliveredGrow
<1>6. Counted => /\ offset = Cardinality(Delivered) /\ wanted = present[i]
                 /\ offset' = Cardinality(Delivered')
                 /\ part = offset..(offset + present[i] - 1)
  <2> SUFFICES ASSUME Counted
               PROVE  /\ offset = Cardinality(Delivered) /\ wanted = present[i]
                      /\ offset' = Cardinality(Delivered')
      OBVIOUS
  <2>1. offset = Cardinality(Delivered)
      BY <1>1 DEF EnumInv, ListInv, Enumerated
  <2>2. wanted = present[i]
      BY <1>2
  <2>3. offset' = Cardinality(Delivered') % UIntMod
      BY <1>1, <1>2, <1>5, <2>1
  <2> QED BY <1>5, <2>1, <2>2, <2>3, Width
<1>7. ListInv'
  <2> SUFFICES ASSUME pc' = "fill", Counted
               PROVE  /\ offset' = Cardinality(Delivered')
                      /\ \A k \in 0..(offset' - 1) : k \in DOMAIN devs' /\ devs'[k] # Garbage
                      /\ \A x \in Delivered' : devs'[Cardinality(DeliveredBefore(x)')] = x
    <3>1. Counted' = Counted
        BY <1>1 DEF Counted
    <3> QED BY <1>1, <3>1 DEF ListInv, Enumerated
  <2>1. /\ offset = Cardinality(Delivered) /\ offset \in Nat
        /\ offset' = Cardinality(Delivered') /\ offset' = offset + present[i]
        /\ part = offset..(offset' - 1)
    <3>1. /\ offset = Cardinality(Delivered) /\ offset' = Cardinality(Delivered')
          /\ part = offset..(offset + present[i] - 1)
        BY <1>6
    <3>2. offset' = offset + present[i] /\ offset \in Nat
        BY <1>5, <3>1
    <3>3. present[i] \in Nat
        BY <1>2
    <3> HIDE DEF part, wanted
    <3> QED BY <3>1, <3>2, <3>3
  <2> HIDE DEF part, wanted
  <2>2. /\ DOMAIN devs' = DOMAIN devs /\ part \subseteq DOMAIN devs
        /\ \A k \in part : devs'[k] = Device(i, k - offset + 1)
        /\ \A k \in DOMAIN devs \ part : devs'[k] = devs[k]
      BY <1>1
  <2>3. /\ \A k \in 0..(offset - 1) : k \in DOMAIN devs /\ devs[k] # Garbage
        /\ \A x \in Delivered : devs[Cardinality(DeliveredBefore(x))] = x
      BY <1>1 DEF EnumInv, ListInv, Enumerated
  <2>4. \A k \in 0..(offset - 1) : k \in DOMAIN devs' /\ devs'[k] = devs[k]
      BY <2>1, <2>2, <2>3
  <2>5. \A k \in 0..(offset' - 1) : k \in DOMAIN devs' /\ devs'[k] # Garbage
    <3> SUFFICES ASSUME NEW k \in 0..(offset' - 1)
                 PROVE  k \in DOMAIN devs' /\ devs'[k] # Garbage
        OBVIOUS
    <3>1. CASE k \in 0..(offset - 1)
        BY <2>3, <2>4, <3>1
    <3>2. CASE k \in part
      <4>1. Device(i, k - offset + 1) # Garbage
          BY <1>2 DEF Device, Garbage
      <4> QED BY <2>2, <3>2, <4>1
    <3> QED BY <1>2, <2>1, <3>1, <3>2
  <2>6. ASSUME NEW x \in Delivered
        PROVE  devs'[Cardinality(DeliveredBefore(x)')] = x
    <3>1. /\ DeliveredBefore(x)' = DeliveredBefore(x)
          /\ Cardinality(DeliveredBefore(x)) \in 0..(offset - 1)
        BY <1>5, <2>1
    <3> QED BY <2>3, <2>4, <3>1
  <2>7. ASSUME NEW x \in Row(i, present[i])
        PROVE  devs'[Cardinality(DeliveredBefore(x)')] = x
    <3>1. PICK d \in 1..present[i] : x = Device(i, d)
        BY DEF Row
    <3>2. Cardinality(DeliveredBefore(x)') = offset + d - 1
        BY <1>5, <2>1, <3>1
    <3>3. offset + d - 1 \in part /\ (offset + d - 1) - offset + 1 = d
        BY <1>2, <2>1, SMTT(30)
    <3> QED BY <2>2, <3>1, <3>2, <3>3
  <2> QED BY <1>5, <2>1, <2>5, <2>6, <2>7
<1>8. StaysInBounds'
  <2> SUFFICES ASSUME counted = DOMAIN present
               PROVE  part \subseteq DOMAIN devs
      BY <1>1 DEF StaysInBounds
  <2>1. present \in Systems /\ DOMAIN present = 1..Len(present)
      BY SystemType DEF EnumInv, EnumTypeInv
  <2>2. Counted
      BY DEF Counted
  <2>3. \A p \in 1..num_platforms : num_devs[p] = present[p]
      BY <1>2, <2>1 DEF EnumInv, CountInv
  <2>4. DOMAIN devs = 0..(Cardinality(DevicesOf(1..num_platforms, present)) - 1)
    <3>1. DevicesOf(1..num_platforms, num_devs) = DevicesOf(1..num_platforms, present)
        BY <2>3, SameCounts
    <3>2. Cardinality(DevicesOf(1..num_platforms, present)) % UIntMod
            = Cardinality(DevicesOf(1..num_platforms, present))
        BY <1>2, <2>1, SystemFits
    <3> QED BY <1>2, <3>1, <3>2 DEF CountedUpTo
  <2>5. Cardinality(Delivered') <= Cardinality(DevicesOf(1..num_platforms, present))
    <3> DEFINE P == 1..num_platforms
               Q == filled \cup {i}
    <3>1. Q \in SUBSET P
        BY <1>2
    <3>2. CountsWithin(P, present, MaxPlatforms, MaxDevices)
        BY <1>2, <2>1, SystemFits
    <3>3. Delivered' = DevicesOf(Q, present)
      <4>1. Delivered' = DevicesOf(filled', present')
          BY DEF Delivered, DevicesOf, Row
      <4> QED BY <1>1, <4>1
    <3> HIDE DEF P, Q
    <3>4. Cardinality(DevicesOf(Q, present)) <= Cardinality(DevicesOf(P, present))
        BY <3>1, <3>2, FewerPlatforms
    <3> QED BY <3>3, <3>4 DEF P
  <2>6. Cardinality(DevicesOf(1..num_platforms, present)) \in Nat
    <3>1. Cardinality(DevicesOf(1..num_platforms, present)) \in UInt
        BY <1>2, <2>1, SystemFits
    <3> QED BY <3>1, Width DEF UInt
  <2>7. /\ offset \in Nat /\ part = offset..(offset + present[i] - 1)
        /\ offset + present[i] <= Cardinality(DevicesOf(1..num_platforms, present))
      BY <1>5, <1>6, <2>2, <2>5
  <2>8. present[i] \in Nat
      BY <1>2
  <2> HIDE DEF part, wanted
  <2> QED BY <2>4, <2>6, <2>7, <2>8
<1> QED BY <1>3, <1>4, <1>7, <1>8 DEF EnumInv

\* Nothing else changes what the invariant is about.
LEMMA QuietStep ==
    ASSUME EnumInv, Quiet
    PROVE  EnumInv'
<1> USE DEF EnumInv, Quiet
<1>1. EnumTypeInv' /\ PlatformsInv' /\ StaysInBounds'
    BY DEF EnumTypeInv, PlatformsInv, StaysInBounds, Enumerated
<1>2. CountInv'
  <2>1. (CountedUpTo(i - 1))' = CountedUpTo(i - 1)
      BY DEF CountedUpTo
  <2> QED BY <2>1 DEF CountInv, Enumerated
<1>3. FillInv'
  <2>1. LeftOver' = LeftOver /\ (CountedUpTo(num_platforms))' = CountedUpTo(num_platforms)
      BY DEF LeftOver, CountedUpTo
  <2> QED BY <2>1 DEF FillInv, Enumerated
<1>4. ListInv'
  <2>1. Delivered' = Delivered /\ Counted' = Counted
      BY DEF Delivered, Counted
  <2>2. \A x : DeliveredBefore(x)' = DeliveredBefore(x)
      BY <2>1 DEF DeliveredBefore
  <2> QED BY <2>1, <2>2 DEF ListInv, Enumerated
<1> QED BY <1>1, <1>2, <1>3, <1>4

\* Every step of the enumeration preserves its invariant.
LEMMA EnumStep ==
    ASSUME EnumInv,
           \/ GetPlatforms \/ MallocCounters \/ Count \/ Allocate
           \/ FillFailure \/ FillSuccess \/ Return
    PROVE  EnumInv'
BY GetPlatformsStep, MallocCountersStep, CountStep, AllocateStep, FillFailureStep,
   FillSuccessStep, ReturnStep

\* In the end num_devices is what was delivered, when the counts succeeded.
LEMMA ListComplete ==
    ASSUME EnumInv, pc = "done", Counted
    PROVE  num_devices = Cardinality(Delivered) /\ num_devices = offset
<1> USE DEF EnumInv
<1>1. /\ present \in Systems /\ num_platforms \in Nat
      /\ Len(present) \in Nat /\ DOMAIN present = 1..Len(present)
      /\ num_platforms <= Len(present)
  <2>1. present \in Systems /\ num_platforms \in Nat
      BY EnumAssumption DEF EnumTypeInv
  <2>2. Len(present) \in Nat /\ DOMAIN present = 1..Len(present)
      BY <2>1, SystemType, EnumAssumption
  <2>3. num_platforms <= Len(present)
      BY DEF PlatformsInv
  <2> QED BY <2>1, <2>2, <2>3
<1>2. /\ i = num_platforms + 1 /\ filled \subseteq 1..(i - 1)
      /\ \A p \in filled : present[p] > 0
      /\ num_devices = LeftOver
    BY DEF FillInv, Enumerated
<1>3. filled \in SUBSET (1..Len(present)) /\ filled \cup (i..num_platforms) = filled
    BY <1>1, <1>2
<1>4. \A p \in filled : num_devs[p] = present[p]
    BY <1>1, <1>2, <1>3 DEF CountInv, Counted
<1>5. DevicesOf(filled, num_devs) = DevicesOf(filled, present)
    BY <1>4, SameCounts
<1>6. num_devices = Cardinality(DevicesOf(filled, present)) % UIntMod
    BY <1>2, <1>3, <1>5 DEF LeftOver
<1>7. num_devices = Cardinality(Delivered)
    BY <1>1, <1>3, <1>6, SystemFits, DeliveredAre
<1> QED BY <1>7 DEF ListInv, Enumerated

\* So every number below it is that of a device.
LEMMA BelowIsListed ==
    ASSUME EnumInv, pc = "done", Counted, NEW id \in Nat, id < num_devices
    PROVE  Listed(id)
<1>1. num_devices = offset /\ num_devices \in Nat
    BY ListComplete, Width DEF EnumInv, EnumTypeInv, UInt
<1>2. id \in 0..(offset - 1)
    BY <1>1
<1> QED BY <1>2 DEF EnumInv, ListInv, Enumerated, Listed

\* A device number that is not below the length as an int is refused, or is
\* the first one behind the list.
LEMMA NotListed ==
    ASSUME EnumInv, pc = "done", Counted, NEW id \in Nat,
           ~InvalidId(id), ~Listed(id)
    PROVE  id = num_devices
<1>1. num_devices \in Nat /\ UIntMod \in Nat /\ num_devices < UIntMod
    BY Width DEF EnumInv, EnumTypeInv, UInt
<1>2. id <= AsInt(num_devices) /\ AsInt(num_devices) \in Int
  <2>1. AsInt(num_devices) \in Int
      BY <1>1 DEF AsInt
  <2> QED BY <2>1 DEF InvalidId
<1>3. AsInt(num_devices) <= num_devices
    BY <1>1 DEF AsInt
<1>4. ~(id < num_devices)
    BY BelowIsListed
<1> QED BY <1>1, <1>2, <1>3, <1>4
-----------------------------------------------------------------------------
(* The program.                                                            *)

\* It starts with nothing held.
LEMMA MainInit ==
    ASSUME OverheadsInit
    PROVE  MainInv
<1>1. EnumInv
    BY EnumInit DEF OverheadsInit
<1>2. /\ given \in BOOLEAN /\ device_id = 0 /\ t = 1 /\ durations = << >> /\ held = {}
      /\ stage \in {"options", "elsewhere"} /\ pc = "platforms"
  <2>1. given \in BOOLEAN
      BY Zenon DEF OverheadsInit, HostInit
  <2> QED BY <2>1 DEF OverheadsInit, HostInit, Init
<1>3. MainTypeInv
    BY <1>2, EmptySeq DEF MainTypeInv
<1>4. StageInv /\ HeldInv
    BY <1>2 DEF StageInv, HeldInv, Started
<1> QED BY <1>1, <1>3, <1>4 DEF MainInv

\* The enumeration leaves main alone.
LEMMA EnumerateStep ==
    ASSUME MainInv, Enumerate
    PROVE  MainInv'
<1>1. stage \in {"enumerate", "elsewhere"} /\ UNCHANGED main
    BY DEF Enumerate
<1>2. EnumInv'
    BY EnumStep DEF Enumerate, MainInv
<1>3. MainTypeInv'
    BY <1>1 DEF MainInv, MainTypeInv, main
<1>4. StageInv' /\ HeldInv'
    BY <1>1 DEF MainInv, StageInv, HeldInv, Started, main
<1> QED BY <1>2, <1>3, <1>4 DEF MainInv

\* Only a number from -1 on is gone on with.
LEMMA OptionsStep ==
    ASSUME MainInv, Options
    PROVE  MainInv'
<1>1. /\ stage = "options" /\ given' \in BOOLEAN /\ device_id' \in (-2)..MaxId
      /\ stage' = IF given' /\ device_id' < -1 THEN "exit" ELSE "enumerate"
      /\ UNCHANGED <<enumeration, t, durations, held>>
    BY DEF Options
<1>2. device_id' \in Int
    BY <1>1, OverheadsAssumption
<1>3. EnumInv'
    BY <1>1, QuietStep DEF MainInv, Quiet, enumeration, vars
<1>4. MainTypeInv'
    BY <1>1, <1>2 DEF MainInv, MainTypeInv
<1>5. StageInv'
    BY <1>1, <1>2 DEF StageInv, Started
<1>6. HeldInv'
    BY <1>1 DEF MainInv, HeldInv
<1> QED BY <1>3, <1>4, <1>5, <1>6 DEF MainInv

\* The loop starts with a list, at 0 when all devices are asked for.
LEMMA LoopRangeStep ==
    ASSUME MainInv, LoopRange
    PROVE  MainInv'
<1>1. /\ stage = "enumerate" /\ pc = "done"
      /\ stage' = IF devs = Null THEN "exit" ELSE "device"
      /\ device_id' = IF device_id = -1 THEN 0 ELSE device_id
      /\ UNCHANGED <<enumeration, given, t, durations, held>>
    BY DEF LoopRange
<1>2. EnumInv' /\ pc' = "done" /\ devs' = devs
    BY <1>1, QuietStep DEF MainInv, Quiet, enumeration, vars
<1>3. device_id \in Int /\ (given => device_id >= -1)
    BY <1>1 DEF MainInv, MainTypeInv, StageInv
<1>4. MainTypeInv'
    BY <1>1, <1>3 DEF MainInv, MainTypeInv, Started
<1>5. StageInv'
    BY <1>1, <1>2, <1>3 DEF StageInv, Started
<1>6. HeldInv'
    BY <1>1 DEF MainInv, HeldInv
<1> QED BY <1>2, <1>4, <1>5, <1>6 DEF MainInv

\* A context and a queue are opened, or the loop is left.
LEMMA OpenDeviceStep ==
    ASSUME MainInv, OpenDevice
    PROVE  MainInv'
<1>1. /\ stage = "device" /\ stage' \in {"exit", "crash", "test"}
      /\ stage' = "crash" => ~InvalidId(device_id) /\ ~Listed(device_id)
      /\ stage' = "test" =>
           held' = held \cup {<<"context", device_id>>, <<"queue", device_id>>}
      /\ t' = 1 /\ Quiet /\ UNCHANGED <<given, device_id, durations>>
    BY DEF OpenDevice
<1>2. EnumInv' /\ pc' = pc /\ devs' = devs /\ num_devices' = num_devices
      /\ Counted' = Counted
    BY <1>1, QuietStep DEF MainInv, Quiet, Counted
<1>3. MainTypeInv'
    BY <1>1 DEF MainInv, MainTypeInv, Started
<1>4. StageInv'
  <2>1. /\ pc = "done" /\ devs # Null /\ device_id \in Int
        /\ given => device_id >= 0
      BY <1>1 DEF MainInv, MainTypeInv, StageInv, Started
  <2>2. stage' = "crash" /\ given /\ Counted => device_id = num_devices
      BY <1>1, <2>1, NotListed DEF MainInv
  <2> QED BY <1>1, <1>2, <2>1, <2>2 DEF StageInv, Started
<1>5. HeldInv'
  <2> SUFFICES ASSUME stage' = "test", NEW h \in held'
               PROVE  \/ h[1] \in {"context", "queue"} /\ h = <<h[1], device_id>>
                      \/ h[1] \in {"buffer", "mem_args"}
                      \/ h[1] = "event" /\ h[4] < Launches
      BY <1>1 DEF HeldInv
  <2>1. CASE h \in held
      BY <1>1, <2>1 DEF MainInv, HeldInv
  <2>2. CASE h \in {<<"context", device_id>>, <<"queue", device_id>>}
      BY <2>2
  <2> QED BY <1>1, <2>1, <2>2
<1> QED BY <1>2, <1>3, <1>4, <1>5 DEF MainInv

\* They are closed before the next device's turn.
LEMMA CloseDeviceStep ==
    ASSUME MainInv, CloseDevice
    PROVE  MainInv'
<1>1. /\ stage = "test" /\ stage' = "device" /\ device_id' = device_id + 1
      /\ held' = held \ {<<"context", device_id>>, <<"queue", device_id>>}
      /\ UNCHANGED <<enumeration, given, t, durations>>
    BY DEF CloseDevice
<1>2. EnumInv' /\ pc' = pc /\ devs' = devs
    BY <1>1, QuietStep DEF MainInv, Quiet, enumeration, vars
<1>3. device_id \in Int
    BY DEF MainInv, MainTypeInv
<1>4. MainTypeInv'
    BY <1>1, <1>3 DEF MainInv, MainTypeInv, Started
<1>5. StageInv'
    BY <1>1, <1>2, <1>3 DEF MainInv, StageInv, Started
<1>6. HeldInv'
    BY <1>1 DEF MainInv, HeldInv
<1> QED BY <1>2, <1>4, <1>5, <1>6 DEF MainInv

\* The end changes only the stage.
LEMMA ExitStep ==
    ASSUME MainInv, Exit
    PROVE  MainInv'
<1>1. /\ stage = "device" /\ stage' = "end"
      /\ UNCHANGED <<enumeration, given, device_id, t, durations, held>>
    BY DEF Exit
<1>2. EnumInv' /\ pc' = pc /\ devs' = devs
    BY <1>1, QuietStep DEF MainInv, Quiet, enumeration, vars
<1>3. MainTypeInv' /\ StageInv'
    BY <1>1, <1>2 DEF MainInv, MainTypeInv, StageInv, Started
<1>4. HeldInv'
    BY <1>1 DEF MainInv, HeldInv
<1> QED BY <1>2, <1>3, <1>4 DEF MainInv

\* A test acquires buffers with their array, and what it gives back itself.
LEMMA PrepareStep ==
    ASSUME MainInv, Prepare
    PROVE  MainInv'
<1>1. /\ stage = "test" /\ stage' \in {"launch", "exit"}
      /\ stage' = "launch" =>
           held' = held \cup Own("program", 1) \cup Own("kernel", 1)
                     \cup Own("tmp_args", 1) \cup Own("mem_args", 1)
                     \cup Own("buffer", Tests[t].args)
      /\ durations' = << >> /\ Quiet /\ UNCHANGED <<given, device_id, t>>
    BY DEF Prepare, Failure
<1>2. EnumInv' /\ pc' = pc /\ devs' = devs
    BY <1>1, QuietStep DEF MainInv, Quiet
<1>3. MainTypeInv'
    BY <1>1, EmptySeq DEF MainInv, MainTypeInv, Started
<1>4. StageInv'
    BY <1>1, <1>2 DEF MainInv, StageInv, Started
<1>5. HeldInv'
  <2> SUFFICES ASSUME stage' = "launch"
               PROVE  HeldInv'
      BY <1>1 DEF HeldInv
  <2>1. Len(durations') <= Launches
      BY <1>1, EmptySeq, OverheadsAssumption
  <2>2. Released' = Released
      BY <1>1 DEF Released, Own
  <2>3. ASSUME NEW h \in held'
        PROVE  \/ h[1] \in {"context", "queue"} /\ h = <<h[1], device_id>>
               \/ h[1] \in {"buffer", "mem_args"}
               \/ h[1] = "event" /\ h[4] < Launches
               \/ h \in Released
    <3>1. CASE h \in held
        BY <1>1, <3>1 DEF MainInv, HeldInv
    <3>2. CASE h \in Own("program", 1) \cup Own("kernel", 1) \cup Own("tmp_args", 1)
        BY <3>2 DEF Released
    <3>3. CASE h \in Own("mem_args", 1) \cup Own("buffer", Tests[t].args)
        BY <3>3 DEF Own
    <3> QED BY <1>1, <3>1, <3>2, <3>3
  <2> QED BY <1>1, <2>1, <2>2, <2>3 DEF HeldInv
<1> QED BY <1>2, <1>3, <1>4, <1>5 DEF MainInv

\* A launch leaves its event.
LEMMA LaunchStep ==
    ASSUME MainInv, Launch
    PROVE  MainInv'
<1> DEFINE event == <<"event", device_id, t, Len(durations) + 1>>
<1>1. /\ stage = "launch" /\ Len(durations) < Launches /\ stage' \in {"launch", "exit"}
      /\ \/ durations' = durations
         \/ \E d \in Times \cup {0} : durations' = Append(durations, d)
      /\ stage' = "launch" => /\ held' = held \cup {event}
                              /\ \E d \in Times \cup {0} : durations' = Append(durations, d)
      /\ Quiet /\ UNCHANGED <<given, device_id, t>>
    BY DEF Launch, Failure
<1>2. EnumInv' /\ pc' = pc /\ devs' = devs
    BY <1>1, QuietStep DEF MainInv, Quiet
<1>3. durations \in Seq(Nat) /\ Len(durations) \in Nat /\ Launches \in Nat /\ Launches > 0
    BY LenProperties, OverheadsAssumption DEF MainInv, MainTypeInv
<1>4. \A d \in Times \cup {0} : /\ Append(durations, d) \in Seq(Nat)
                                 /\ Len(Append(durations, d)) = Len(durations) + 1
    BY <1>3, AppendProperties, OverheadsAssumption
<1>5. MainTypeInv'
    BY <1>1, <1>3, <1>4 DEF MainInv, MainTypeInv, Started
<1>6. StageInv'
    BY <1>1, <1>2 DEF MainInv, StageInv, Started
<1>7. HeldInv'
  <2> SUFFICES ASSUME stage' = "launch"
               PROVE  HeldInv'
      BY <1>1 DEF HeldInv
  <2>1. Len(durations') <= Launches
      BY <1>1, <1>3, <1>4
  <2>2. Released' = Released
      BY <1>1 DEF Released, Own
  <2>3. (event[1] = "event" /\ event[4] < Launches) \/ event \in Released
    <3>1. CASE Len(durations) + 1 < Launches
        BY <3>1
    <3>2. CASE Len(durations) + 1 = Launches
      <4>1. event \in Own("event", Launches)
          BY <1>3, <3>2 DEF Own
      <4>2. event \notin Own("event", Launches - 1)
          BY <1>3, <3>2 DEF Own
      <4> QED BY <4>1, <4>2 DEF Released
    <3> QED BY <1>1, <1>3, <3>1, <3>2
  <2> HIDE DEF event
  <2>4. ASSUME NEW h \in held'
        PROVE  \/ h[1] \in {"context", "queue"} /\ h = <<h[1], device_id>>
               \/ h[1] \in {"buffer", "mem_args"}
               \/ h[1] = "event" /\ h[4] < Launches
               \/ h \in Released
    <3>1. CASE h \in held
        BY <1>1, <3>1 DEF MainInv, HeldInv
    <3> QED BY <1>1, <2>3, <3>1
  <2> QED BY <1>1, <2>1, <2>2, <2>4 DEF HeldInv
<1> QED BY <1>2, <1>5, <1>6, <1>7 DEF MainInv

\* After the line all of the test that is not a buffer or an event is gone.
LEMMA ReportStep ==
    ASSUME MainInv, Report
    PROVE  MainInv'
<1>1. /\ stage = "launch" /\ stage' = "test" /\ t' = t + 1
      /\ held' = held \ Released
      /\ UNCHANGED <<enumeration, given, device_id, durations>>
    BY DEF Report
<1>2. EnumInv' /\ pc' = pc /\ devs' = devs
    BY <1>1, QuietStep DEF MainInv, Quiet, enumeration, vars
<1>3. MainTypeInv'
    BY <1>1 DEF MainInv, MainTypeInv, Started
<1>4. StageInv'
    BY <1>1, <1>2 DEF MainInv, StageInv, Started
<1>5. HeldInv'
    BY <1>1 DEF MainInv, HeldInv
<1> QED BY <1>2, <1>3, <1>4, <1>5 DEF MainInv

\* Every step preserves the invariant.
LEMMA MainStep == MainInv /\ [OverheadsNext]_all => MainInv'
<1> SUFFICES ASSUME MainInv, [OverheadsNext]_all PROVE MainInv'
    OBVIOUS
<1>1. CASE UNCHANGED all
  <2>1. /\ Quiet
        /\ UNCHANGED <<stage, given, device_id, t, durations, held>>
      BY <1>1 DEF all, enumeration, vars, main, Quiet
  <2>2. EnumInv' /\ pc' = pc /\ devs' = devs /\ num_devices' = num_devices
        /\ platforms' = platforms /\ Counted' = Counted
      BY <2>1, QuietStep DEF MainInv, Quiet, Counted
  <2>3. MainTypeInv' /\ StageInv'
      BY <2>1, <2>2 DEF MainInv, MainTypeInv, StageInv
  <2>4. HeldInv'
    <3>1. Released' = Released
        BY <2>1 DEF Released, Own
    <3> QED BY <2>1, <3>1 DEF MainInv, HeldInv
  <2> QED BY <2>2, <2>3, <2>4 DEF MainInv
<1> QED BY <1>1, OptionsStep, EnumerateStep, LoopRangeStep, OpenDeviceStep,
           CloseDeviceStep, ExitStep, PrepareStep, LaunchStep, ReportStep
        DEF OverheadsNext

\* The invariant holds.
LEMMA Invariance == OverheadsSpec => []MainInv
BY MainInit, MainStep, PTL DEF OverheadsSpec
-----------------------------------------------------------------------------
(* The kernel's statements.                                                *)

\* A set of numbers has a least one.
LEMMA LeastNat ==
    ASSUME NEW T \in SUBSET Nat, T # {}
    PROVE  \E x \in T : \A y \in T : x <= y
<1> DEFINE R == OpToRel(<, Nat)
<1>1. IsWellFoundedOn(R, Nat)
    BY NatLessThanWellFounded
<1>2. PICK x \in T : \A y \in T : ~(<<y, x>> \in R)
  <2> HIDE DEF R
  <2> QED BY <1>1, WFMin
<1>3. \A y \in T : ~(y < x)
    BY <1>2 DEF OpToRel
<1> QED BY <1>3

\* What the first sequences of S are together, for each of their numbers.
Grown(f, S, m) ==
    f = [n \in 1..m |-> IF n = 1 THEN S[n] ELSE f[n - 1] \o S[n]]

\* There is such a function, for every number.
LEMMA GrownExists ==
    ASSUME NEW S, NEW q \in Nat
    PROVE  \E f : Grown(f, S, q)
<1> DEFINE T == {p \in Nat : ~\E f : Grown(f, S, p)}
<1> SUFFICES ASSUME T # {} PROVE FALSE
    OBVIOUS
<1>1. PICK p \in T : \A y \in T : p <= y
    BY LeastNat
<1>2. CASE p = 0
  <2> DEFINE h == [n \in 1..0 |-> S[n]]
  <2>1. h = [n \in 1..0 |-> IF n = 1 THEN S[n] ELSE h[n - 1] \o S[n]]
      OBVIOUS
  <2> QED BY <1>2, <2>1 DEF Grown
<1>3. CASE p # 0
  <2>1. p \in Nat /\ p - 1 \in Nat /\ p - 1 \notin T
      BY <1>1, <1>3
  <2>2. PICK g : Grown(g, S, p - 1)
      BY <2>1
  <2>3. \A n \in 1..(p - 1) : g[n] = IF n = 1 THEN S[n] ELSE g[n - 1] \o S[n]
      BY <2>2 DEF Grown
  <2> DEFINE last == IF p = 1 THEN S[p] ELSE g[p - 1] \o S[p]
             h == [n \in 1..p |-> IF n < p THEN g[n] ELSE last]
  <2>4. \A n \in 1..(p - 1) : h[n] = g[n]
      BY <2>1
  <2>5. h[p] = last
      BY <1>3, <2>1
  <2>6. h = [n \in 1..p |-> h[n]]
      OBVIOUS
  <2> HIDE DEF h
  <2>7. \A n \in 1..p : h[n] = IF n = 1 THEN S[n] ELSE h[n - 1] \o S[n]
    <3> TAKE n \in 1..p
    <3>1. CASE n < p
      <4>1. n \in 1..(p - 1) /\ (n # 1 => n - 1 \in 1..(p - 1))
          BY <2>1, <3>1
      <4> QED BY <2>3, <2>4, <4>1
    <3>2. CASE n = p
      <4>1. p # 1 => p - 1 \in 1..(p - 1)
          BY <1>3, <2>1
      <4> QED BY <2>4, <2>5, <3>2, <4>1
    <3> QED BY <2>1, <3>1, <3>2
  <2>8. h = [n \in 1..p |-> IF n = 1 THEN S[n] ELSE h[n - 1] \o S[n]]
      BY <2>6, <2>7, Zenon
  <2> QED BY <2>8 DEF Grown
<1> QED BY <1>2, <1>3

\* FlattenSeq puts the sequences together from the first to the last.
LEMMA FlattenIs ==
    ASSUME NEW S, Len(S) \in Nat \ {0}
    PROVE  \E f : Grown(f, S, Len(S)) /\ FlattenSeq(S) = f[Len(S)]
<1> DEFINE f == CHOOSE g : Grown(g, S, Len(S))
<1>1. Grown(f, S, Len(S))
    BY GrownExists, Zenon
<1>2. FlattenSeq(S) = f[Len(S)]
    BY DEF FlattenSeq, Grown
<1> QED BY <1>1, <1>2

\* A part of the kernel with that many statements: the heads of ifs are not
\* at its beginning, no two of them follow each other, and there is one at
\* its end only if it is open.
Plain(s) == {n \in 1..Len(s) : s[n] # "if"}
WellFormed(s, statements, open) ==
    /\ s \in Seq({"store", "load", "if"}) /\ Len(s) \in Nat /\ Len(s) >= 1
    /\ s[1] # "if"
    /\ \A n \in 1..Len(s) :
         s[n] = "if" => IF n < Len(s) THEN s[n + 1] # "if" ELSE open
    /\ Cardinality(Plain(s)) = statements

Opened(n, lines) == n % 3 = 0 /\ n < lines - 2

\* What is written for one n is a store, a load and an if if it is opened.
LEMMA StatementsAre ==
    ASSUME NEW n \in Nat, NEW lines \in Nat
    PROVE  LET u == Statements(n, lines)
           IN  /\ u \in Seq({"store", "load", "if"})
               /\ Len(u) = IF Opened(n, lines) THEN 3 ELSE 2
               /\ u[1] = "store" /\ u[2] = "load"
               /\ Len(u) = 3 => u[3] = "if"
<1> DEFINE C == {"store", "load", "if"}
           a == <<"store", "load">>
           b == IF Opened(n, lines) THEN <<"if">> ELSE << >>
           u == a \o b
<1>1. a \in Seq(C) /\ Len(a) = 2 /\ a[1] = "store" /\ a[2] = "load"
    OBVIOUS
<1>2. /\ b \in Seq(C) /\ Len(b) = IF Opened(n, lines) THEN 1 ELSE 0
      /\ Len(b) = 1 => b[1] = "if"
  <2>1. CASE Opened(n, lines)
    <3>1. b = <<"if">> /\ <<"if">> \in Seq(C)
        BY <2>1
    <3> QED BY <2>1, <3>1
  <2>2. CASE ~Opened(n, lines)
    <3>1. b = << >> /\ << >> \in Seq(C)
        BY <2>2
    <3> QED BY <2>2, <3>1
  <2> QED BY <2>1, <2>2
<1>3. Len(b) = 1 => b[1] = "if"
    BY <1>2
<1>4. Statements(n, lines) = u
    BY DEF Statements, Opened
<1> HIDE DEF C, a, b
<1>5. /\ u \in Seq(C) /\ Len(u) = 2 + Len(b)
      /\ \A k \in 1..(2 + Len(b)) : u[k] = IF k <= 2 THEN a[k] ELSE b[k - 2]
  <2>1. a \in Seq(C) /\ b \in Seq(C) /\ Len(a) = 2
      BY <1>1, <1>2
  <2>2. /\ u \in Seq(C) /\ Len(u) = Len(a) + Len(b)
        /\ \A k \in 1..(Len(a) + Len(b)) :
             u[k] = IF k <= Len(a) THEN a[k] ELSE b[k - Len(a)]
      BY <2>1, ConcatProperties, Zenon
  <2> QED BY <2>1, <2>2
<1> HIDE DEF u
<1>6. u[1] = "store" /\ u[2] = "load"
    BY <1>1, <1>2, <1>5
<1>7. Len(b) = 1 => u[3] = "if"
    BY <1>3, <1>5
<1>8. /\ Len(u) = IF Opened(n, lines) THEN 3 ELSE 2
      /\ Len(u) = 3 => u[3] = "if"
    BY <1>2, <1>5, <1>7
<1> QED BY <1>4, <1>5, <1>6, <1>8 DEF C

\* A set of two numbers.
LEMMA TwoMore ==
    ASSUME NEW M, IsFiniteSet(M), NEW a, NEW b, a \notin M, b \notin M, a # b
    PROVE  Cardinality(M \cup {a, b}) = Cardinality(M) + 2
<1>1. /\ IsFiniteSet(M \cup {a}) /\ Cardinality(M \cup {a}) = Cardinality(M) + 1
    BY FS_AddElement
<1>2. Cardinality((M \cup {a}) \cup {b}) = Cardinality(M \cup {a}) + 1
    BY <1>1, FS_AddElement
<1>3. (M \cup {a}) \cup {b} = M \cup {a, b}
    OBVIOUS
<1>4. Cardinality(M) \in Nat
    BY FS_CardinalityType
<1> QED BY <1>1, <1>2, <1>3, <1>4

\* One round of the loop of gen_kernel makes a well-formed part.
LEMMA OneRound ==
    ASSUME NEW n \in Nat, NEW lines \in Nat
    PROVE  WellFormed(Statements(n, lines), 2, Opened(n, lines))
<1> DEFINE u == Statements(n, lines)
<1>1. /\ u \in Seq({"store", "load", "if"})
      /\ Len(u) = IF Opened(n, lines) THEN 3 ELSE 2
      /\ u[1] = "store" /\ u[2] = "load"
      /\ Len(u) = 3 => u[3] = "if"
    BY StatementsAre
<1> HIDE DEF u
<1>2. Plain(u) = {} \cup {1, 2}
    BY <1>1 DEF Plain
<1>3. Cardinality({} \cup {1, 2}) = 2
    BY FS_EmptySet, TwoMore
<1>4. \A k \in 1..Len(u) :
        u[k] = "if" => IF k < Len(u) THEN u[k + 1] # "if" ELSE Opened(n, lines)
    BY <1>1
<1> QED BY <1>1, <1>2, <1>3, <1>4 DEF WellFormed, u

\* A further round keeps it well-formed.
LEMMA OneMoreRound ==
    ASSUME NEW s, NEW c \in Nat, NEW open, WellFormed(s, c, open),
           NEW n \in Nat, NEW lines \in Nat
    PROVE  WellFormed(s \o Statements(n, lines), c + 2, Opened(n, lines))
<1> DEFINE u == Statements(n, lines)
           w == s \o u
           N == Len(s)
           C == {"store", "load", "if"}
<1>1. /\ u \in Seq(C) /\ Len(u) = IF Opened(n, lines) THEN 3 ELSE 2
      /\ u[1] = "store" /\ u[2] = "load"
      /\ Len(u) = 3 => u[3] = "if"
    BY StatementsAre, ZenonT(40)
<1>2. /\ s \in Seq(C) /\ N \in Nat /\ N >= 1 /\ s[1] # "if"
      /\ \A k \in 1..N : s[k] = "if" => IF k < N THEN s[k + 1] # "if" ELSE open
      /\ Cardinality(Plain(s)) = c
    BY DEF WellFormed
<1> HIDE DEF u, C
<1>3. /\ w \in Seq(C) /\ Len(w) = N + Len(u)
      /\ \A k \in 1..(N + Len(u)) : w[k] = IF k <= N THEN s[k] ELSE u[k - N]
    BY <1>1, <1>2, ConcatProperties
<1> HIDE DEF w, N
<1>4. /\ \A k \in 1..N : w[k] = s[k]
      /\ w[N + 1] = "store" /\ w[N + 2] = "load"
      /\ Len(u) = 3 => w[N + 3] = "if"
  <2>1. \A k \in 1..N : k \in 1..(N + Len(u)) /\ k <= N
      BY <1>1, <1>2
  <2>2. \A c1 \in 1..Len(u) : w[N + c1] = u[c1]
    <3> SUFFICES ASSUME NEW c1 \in 1..Len(u) PROVE w[N + c1] = u[c1]
        OBVIOUS
    <3>1. N + c1 \in 1..(N + Len(u)) /\ ~(N + c1 <= N) /\ (N + c1) - N = c1
        BY <1>1, <1>2
    <3> QED BY <1>3, <3>1
  <2>3. 1 \in 1..Len(u) /\ 2 \in 1..Len(u) /\ (Len(u) = 3 => 3 \in 1..Len(u))
      BY <1>1
  <2> QED BY <1>1, <1>3, <2>1, <2>2, <2>3
<1>5. \A k \in 1..Len(w) : k \in 1..N \/ k = N + 1 \/ k = N + 2 \/ (k = N + 3 /\ Len(u) = 3)
    BY <1>1, <1>2, <1>3
<1>6. \A k \in 1..Len(w) :
        w[k] = "if" => IF k < Len(w) THEN w[k + 1] # "if" ELSE Opened(n, lines)
  <2> SUFFICES ASSUME NEW k \in 1..Len(w), w[k] = "if"
               PROVE  IF k < Len(w) THEN w[k + 1] # "if" ELSE Opened(n, lines)
      OBVIOUS
  <2>1. CASE k \in 1..N
    <3>1. k < Len(w)
        BY <1>1, <1>2, <1>3, <2>1
    <3>2. CASE k < N
      <4>1. k + 1 \in 1..N
          BY <1>2, <2>1, <3>2
      <4> QED BY <1>2, <1>4, <2>1, <3>1, <3>2, <4>1
    <3>3. CASE k = N
        BY <1>4, <3>1, <3>3
    <3> QED BY <1>2, <2>1, <3>2, <3>3
  <2>2. CASE k = N + 1 \/ k = N + 2
      BY <1>4, <2>2
  <2>3. CASE k = N + 3 /\ Len(u) = 3
      BY <1>1, <1>2, <1>3, <2>3
  <2> QED BY <1>5, <2>1, <2>2, <2>3
<1>7. Plain(w) = Plain(s) \cup {N + 1, N + 2}
  <2>1. \A k \in Plain(w) : k \in Plain(s) \cup {N + 1, N + 2}
      BY <1>4, <1>5 DEF Plain, N
  <2>2. \A k \in 1..N : k \in 1..Len(w)
      BY <1>1, <1>2, <1>3
  <2>3. N + 1 \in 1..Len(w) /\ N + 2 \in 1..Len(w)
      BY <1>1, <1>2, <1>3
  <2>4. \A k \in Plain(s) \cup {N + 1, N + 2} : k \in Plain(w)
      BY <1>4, <2>2, <2>3 DEF Plain, N
  <2> QED BY <2>1, <2>4
<1>8. IsFiniteSet(Plain(s)) /\ N + 1 \notin Plain(s) /\ N + 2 \notin Plain(s)
  <2>1. Plain(s) \subseteq 1..N /\ IsFiniteSet(1..N)
      BY <1>2, FS_Interval DEF Plain, N
  <2>2. IsFiniteSet(Plain(s))
      BY <2>1, FS_Subset
  <2>3. N + 1 \notin 1..N /\ N + 2 \notin 1..N
      BY <1>2
  <2> QED BY <2>1, <2>2, <2>3
<1>9. Cardinality(Plain(w)) = c + 2
  <2>1. N + 1 # N + 2
      BY <1>2
  <2>2. Cardinality(Plain(s) \cup {N + 1, N + 2}) = Cardinality(Plain(s)) + 2
      BY <1>8, <2>1, TwoMore
  <2> QED BY <1>2, <1>7, <2>2
<1>10. Len(w) \in Nat /\ Len(w) >= 1 /\ w[1] # "if"
    BY <1>1, <1>2, <1>3, <1>4
<1> QED BY <1>3, <1>6, <1>9, <1>10 DEF WellFormed, w, u, C

\* All rounds together make a kernel of as many statements as lines are asked
\* for, which does not end with the head of an if.
LEMMA BodyWellFormed ==
    ASSUME NEW lines \in Nat \ {0}, lines % 2 = 0
    PROVE  WellFormed(Body(lines), lines, FALSE)
<1>1. PICK m \in Nat \ {0} : lines = 2 * m /\ (lines + 1) \div 2 = m
  <2>1. lines \div 2 \in Nat \ {0} /\ lines = 2 * (lines \div 2)
      OBVIOUS
  <2>2. (lines + 1) \div 2 = lines \div 2
      BY <2>1
  <2> QED BY <2>1, <2>2
<1> DEFINE S == [n \in 1..m |-> Statements(2 * (n - 1), lines)]
<1>2. Body(lines) = FlattenSeq(S) /\ Len(S) = m
    BY <1>1 DEF Body
<1>3. \A n \in 1..m : S[n] = Statements(2 * (n - 1), lines) /\ 2 * (n - 1) \in Nat
    OBVIOUS
<1> HIDE DEF S
<1>4. PICK f : Grown(f, S, m) /\ FlattenSeq(S) = f[m]
    BY <1>2, FlattenIs
<1>5. \A n \in 1..m : f[n] = IF n = 1 THEN S[n] ELSE f[n - 1] \o S[n]
    BY <1>4 DEF Grown
<1> DEFINE Good(n) == WellFormed(f[n], 2 * n, Opened(2 * (n - 1), lines))
           T == {n \in 1..m : ~Good(n)}
<1>6. \A n \in 1..m : Good(n)
  <2> SUFFICES ASSUME T # {} PROVE FALSE
      OBVIOUS
  <2>1. T \in SUBSET Nat
      OBVIOUS
  <2>2. PICK n \in T : \A y \in T : n <= y
      BY <2>1, LeastNat
  <2>3. n \in 1..m /\ ~Good(n)
      OBVIOUS
  <2> HIDE DEF Good
  <2>4. CASE n = 1
    <3>1. f[1] = Statements(0, lines) /\ 2 * (1 - 1) = 0 /\ 2 * 1 = 2
        BY <1>3, <1>5, <2>3, <2>4
    <3>2. WellFormed(f[1], 2, Opened(0, lines))
        BY <3>1, OneRound
    <3> QED BY <2>3, <2>4, <3>1, <3>2 DEF Good
  <2>5. CASE n # 1
    <3>1. n - 1 \in 1..m /\ n - 1 \notin T
        BY <2>2, <2>3, <2>5
    <3>2. Good(n - 1)
        BY <3>1
    <3>3. f[n] = f[n - 1] \o Statements(2 * (n - 1), lines)
        BY <1>3, <1>5, <2>3, <2>5
    <3>4. /\ 2 * (n - 1) \in Nat /\ 2 * n = (2 * (n - 1)) + 2
        BY <2>3, <3>1
    <3>5. WellFormed(f[n - 1], 2 * (n - 1), Opened(2 * ((n - 1) - 1), lines))
        BY <3>2 DEF Good
    <3>6. WellFormed(f[n - 1] \o Statements(2 * (n - 1), lines),
                     (2 * (n - 1)) + 2, Opened(2 * (n - 1), lines))
        BY <3>4, <3>5, OneMoreRound
    <3> QED BY <2>3, <3>3, <3>4, <3>6 DEF Good
  <2> QED BY <2>4, <2>5
<1>7. Good(m)
    BY <1>6
<1>8. ~Opened(2 * (m - 1), lines)
    BY <1>1 DEF Opened
<1> HIDE DEF Good
<1>9. WellFormed(f[m], lines, Opened(2 * (m - 1), lines))
    BY <1>1, <1>7 DEF Good
<1> QED BY <1>2, <1>4, <1>8, <1>9 DEF WellFormed

\* While a test's launches are made its kernel is the one generated for it.
BodyInv ==
    stage = "launch" => t \in DOMAIN Tests /\ body = Body(Tests[t].lines)

\* Every step keeps that.
LEMMA BodyStep ==
    MainInv /\ BodyInv /\ [OverheadsNext]_all => BodyInv'
<1> SUFFICES ASSUME MainInv, BodyInv, [OverheadsNext]_all PROVE BodyInv'
    OBVIOUS
<1> USE DEF BodyInv
<1>1. CASE Prepare
  <2>1. /\ stage = "test" /\ t <= Len(Tests) /\ t' = t
        /\ body' = Body(Tests[t].lines)
      BY <1>1 DEF Prepare
  <2>2. t \in Nat \ {0}
      BY DEF MainInv, MainTypeInv
  <2>3. DOMAIN Tests = 1..Len(Tests) /\ Len(Tests) \in Nat
      BY OverheadsAssumption, LenProperties
  <2>4. t \in DOMAIN Tests
      BY <2>1, <2>2, <2>3
  <2> QED BY <2>1, <2>4
<1>2. CASE Launch
    BY <1>2 DEF Launch
<1>3. CASE UNCHANGED all
    BY <1>3 DEF all, main
<1>4. CASE Enumerate
    BY <1>4 DEF Enumerate, main
<1>5. CASE Options
    BY <1>5 DEF Options
<1>6. CASE LoopRange
    BY <1>6 DEF LoopRange
<1>7. CASE OpenDevice
    BY <1>7 DEF OpenDevice
<1>8. CASE CloseDevice
    BY <1>8 DEF CloseDevice
<1>9. CASE Exit
    BY <1>9 DEF Exit
<1>10. CASE Report
    BY <1>10 DEF Report
<1> QED BY <1>1, <1>2, <1>3, <1>4, <1>5, <1>6, <1>7, <1>8, <1>9, <1>10
        DEF OverheadsNext
-----------------------------------------------------------------------------
(* The lines of the table.                                                 *)

\* The first device of the loop, how many there are, and the place behind
\* which the lines of device d are.
First  == IF asked = -1 THEN 0 ELSE asked
Number == IF asked = -1 THEN AsInt(num_devices) ELSE 1
Size   == Len(Tests) + 1
At(d)  == (d - First) * Size

Running == {"device", "test", "launch", "end"}

(* The devices before device_id are reported, and of its own tests those   *)
(* before t are.                                                           *)
TableInv ==
    /\ table \in Seq(Range(table)) /\ asked \in Int
    /\ stage \in {"options", "enumerate"} => table = << >>
    /\ stage = "enumerate" => device_id = asked
    /\ stage \in Running =>
         /\ upper_id = First + Number /\ First <= device_id
         /\ device_id <= upper_id \/ device_id = First
         /\ \A d \in First..(device_id - 1) : IsReport(At(d), d)
    /\ stage \in {"device", "end"} => Len(table) = At(device_id)
    /\ stage = "end" => device_id >= upper_id
    /\ stage \in {"test", "launch"} =>
         /\ device_id < upper_id /\ t <= Size /\ (stage = "launch" => t < Size)
         /\ Len(table) = At(device_id) + (t - 1)
         /\ \A n \in 1..(t - 1) :
              LET l == table[At(device_id) + n]
              IN  l.kind = "line" /\ l.device = device_id /\ l.test = n
         /\ sum = Sums(table, At(device_id))[t - 1]

(* The durations are those of the launches, and lines are medians.         *)
MedianInv ==
    /\ stage = "launch" =>
         /\ durations \in Seq(Times \cup {0})
         /\ ~spoilt => durations \in Seq(Times)
    /\ \A n \in 1..Len(table) :
         table[n].kind = "line" /\ ~table[n].spoilt => IsMedian(table[n])
-----------------------------------------------------------------------------
(* Sorting.                                                                *)

\* How many of the first m times of s are d.
Hits(s, m, d)  == {k \in 1..m : s[k] = d}
Tally(s, m, d) == Cardinality(Hits(s, m, d))

\* The tally of one more time.
LEMMA TallyStep ==
    ASSUME NEW s, NEW m \in Nat, NEW d
    PROVE  /\ IsFiniteSet(Hits(s, m, d)) /\ Tally(s, m, d) \in Nat
           /\ Tally(s, 0, d) = 0
           /\ s[m + 1] = d => /\ Hits(s, m + 1, d) = Hits(s, m, d) \cup {m + 1}
                              /\ Tally(s, m + 1, d) = Tally(s, m, d) + 1
           /\ s[m + 1] # d => /\ Hits(s, m + 1, d) = Hits(s, m, d)
                              /\ Tally(s, m + 1, d) = Tally(s, m, d)
<1>1. IsFiniteSet(1..m) /\ Hits(s, m, d) \in SUBSET (1..m)
    BY FS_Interval DEF Hits
<1>2. IsFiniteSet(Hits(s, m, d))
    BY <1>1, FS_Subset
<1>3. Tally(s, m, d) \in Nat
    BY <1>2, FS_CardinalityType DEF Tally
<1>4. Hits(s, 0, d) = {}
    BY DEF Hits
<1>5. Tally(s, 0, d) = 0
    BY <1>4, FS_EmptySet DEF Tally
<1>6. \A k : k \in 1..(m + 1) <=> k \in 1..m \/ k = m + 1
    OBVIOUS
<1>7. ASSUME s[m + 1] = d
      PROVE  /\ Hits(s, m + 1, d) = Hits(s, m, d) \cup {m + 1}
             /\ Tally(s, m + 1, d) = Tally(s, m, d) + 1
  <2>1. Hits(s, m + 1, d) = Hits(s, m, d) \cup {m + 1}
      BY <1>6, <1>7, Zenon DEF Hits
  <2>2. m + 1 \notin Hits(s, m, d)
      BY DEF Hits
  <2> QED BY <1>2, <2>1, <2>2, FS_AddElement DEF Tally
<1>8. ASSUME s[m + 1] # d
      PROVE  Hits(s, m + 1, d) = Hits(s, m, d)
    BY <1>6, <1>8, Zenon DEF Hits
<1> QED BY <1>2, <1>3, <1>5, <1>7, <1>8 DEF Tally

\* A sequence of times, the longest first.
Falling(u, m) == u \in [1..m -> Nat] /\ \A a, b \in 1..m : a < b => u[a] >= u[b]

\* It has the times of v and x.
HasAlso(u, v, m, x) ==
    \A d \in Nat : Tally(u, m + 1, d) = Tally(v, m, d) + (IF x = d THEN 1 ELSE 0)

\* A further time has its place in it.
LEMMA Inserted ==
    ASSUME NEW m \in Nat, NEW v, Falling(v, m), NEW x \in Nat
    PROVE  \E u : Falling(u, m + 1) /\ HasAlso(u, v, m, x)
<1>1. PICK p \in 1..(m + 1) : /\ \A k \in 1..m : k < p => v[k] >= x
                              /\ \A k \in 1..m : k >= p => v[k] < x
  <2> DEFINE T == {k \in 1..(m + 1) : k = m + 1 \/ v[k] < x}
  <2>1. T \in SUBSET Nat /\ m + 1 \in T
      OBVIOUS
  <2>2. PICK p \in T : \A y \in T : p <= y
      BY <2>1, LeastNat
  <2>3. p \in 1..(m + 1) /\ (p = m + 1 \/ v[p] < x)
      BY <2>2
  <2>4. ASSUME NEW k \in 1..m, k < p
        PROVE  v[k] >= x
    <3>1. k \notin T /\ k \in 1..(m + 1) /\ v[k] \in Nat
        BY <2>2, <2>3, <2>4 DEF Falling
    <3> QED BY <3>1
  <2>5. ASSUME NEW k \in 1..m, k >= p
        PROVE  v[k] < x
    <3>1. p \in 1..m /\ v[p] < x
        BY <2>3, <2>5
    <3>2. v[p] >= v[k] /\ v[p] \in Nat /\ v[k] \in Nat
        BY <2>5, <3>1 DEF Falling
    <3> QED BY <3>1, <3>2
  <2> HIDE DEF T
  <2> QED BY <2>3, <2>4, <2>5
<1> DEFINE u == [k \in 1..(m + 1) |->
                  IF k < p THEN v[k] ELSE IF k = p THEN x ELSE v[k - 1]]
<1>2. /\ \A k \in 1..(m + 1) : k < p => u[k] = v[k] /\ k \in 1..m
      /\ u[p] = x
      /\ \A k \in 1..(m + 1) : k > p => u[k] = v[k - 1] /\ k - 1 \in 1..m
    OBVIOUS
<1>3. \A k \in 1..m : v[k] \in Nat
    BY DEF Falling
<1>4. u \in [1..(m + 1) -> Nat]
    BY <1>3
<1> HIDE DEF u
<1>5. ASSUME NEW a \in 1..(m + 1), NEW b \in 1..(m + 1), a < b
      PROVE  u[a] >= u[b]
  <2>1. CASE b < p
      BY <1>2, <1>5, <2>1 DEF Falling
  <2>2. CASE b = p
      BY <1>1, <1>2, <1>5, <2>2
  <2>3. CASE b > p /\ a < p
    <3>1. u[a] = v[a] /\ u[b] = v[b - 1] /\ a \in 1..m /\ b - 1 \in 1..m
        BY <1>2, <2>3
    <3>2. v[a] >= x /\ v[b - 1] < x /\ v[a] \in Nat /\ v[b - 1] \in Nat
        BY <1>1, <1>3, <2>3, <3>1
    <3> QED BY <3>1, <3>2
  <2>4. CASE b > p /\ a = p
    <3>1. u[b] = v[b - 1] /\ b - 1 \in 1..m /\ b - 1 >= p
        BY <1>2, <2>4
    <3>2. v[b - 1] < x /\ v[b - 1] \in Nat
        BY <1>1, <1>3, <3>1
    <3> QED BY <1>2, <2>4, <3>1, <3>2
  <2>5. CASE b > p /\ a > p
    <3>1. /\ u[a] = v[a - 1] /\ u[b] = v[b - 1]
          /\ a - 1 \in 1..m /\ b - 1 \in 1..m /\ a - 1 < b - 1
        BY <1>2, <1>5, <2>5
    <3> QED BY <3>1 DEF Falling
  <2> QED BY <2>1, <2>2, <2>3, <2>4, <2>5
<1>6. ASSUME NEW d \in Nat
      PROVE  Tally(u, m + 1, d) = Tally(v, m, d) + (IF x = d THEN 1 ELSE 0)
  <2> DEFINE one == IF x = d THEN 1 ELSE 0
             Good(j) == Tally(u, j, d) = IF j < p THEN Tally(v, j, d)
                                                  ELSE Tally(v, j - 1, d) + one
             T == {j \in 0..(m + 1) : ~Good(j)}
  <2>1. \A j \in 0..(m + 1) : Good(j)
    <3> SUFFICES ASSUME T # {} PROVE FALSE
        OBVIOUS
    <3>0. T \in SUBSET Nat
        BY SMT
    <3>1. PICK j \in T : \A y \in T : j <= y
      <4> HIDE DEF T
      <4> QED BY <3>0, LeastNat
    <3>2. CASE j = 0
      <4>1. Tally(u, 0, d) = 0 /\ Tally(v, 0, d) = 0
          BY TallyStep, ZenonT(40)
      <4> QED BY <3>2, <4>1
    <3>3. CASE j # 0
      <4>1. j - 1 \in Nat /\ j - 1 \in 0..(m + 1) /\ j \in 1..(m + 1) /\ Good(j - 1)
          BY <3>1, <3>3
      <4> DEFINE i0 == j - 1
      <4>2. i0 + 1 = j /\ i0 \in Nat
          BY <4>1
      <4> HIDE DEF i0
      <4>3. Tally(u, j, d) = Tally(u, i0, d) + (IF u[j] = d THEN 1 ELSE 0)
        <5>1. Tally(u, i0, d) \in Nat
            BY <4>2, TallyStep
        <5>2. u[i0 + 1] = d => Tally(u, i0 + 1, d) = Tally(u, i0, d) + 1
            BY <4>2, TallyStep
        <5>3. u[i0 + 1] # d => Tally(u, i0 + 1, d) = Tally(u, i0, d)
            BY <4>2, TallyStep
        <5> QED BY <4>2, <5>1, <5>2, <5>3
      <4>4. CASE j < p
        <5>1. u[j] = v[j]
            BY <1>2, <4>1, <4>4
        <5>2. Tally(v, j, d) = Tally(v, i0, d) + (IF v[j] = d THEN 1 ELSE 0)
          <6>1. Tally(v, i0, d) \in Nat
              BY <4>2, TallyStep
          <6>2. v[i0 + 1] = d => Tally(v, i0 + 1, d) = Tally(v, i0, d) + 1
              BY <4>2, TallyStep
          <6>3. v[i0 + 1] # d => Tally(v, i0 + 1, d) = Tally(v, i0, d)
              BY <4>2, TallyStep
          <6> QED BY <4>2, <6>1, <6>2, <6>3
        <5>3. Tally(u, i0, d) = Tally(v, i0, d)
            BY <4>1, <4>4 DEF i0
        <5>4. Good(j)
            BY <4>3, <4>4, <5>1, <5>2, <5>3
        <5> QED BY <3>1, <5>4
      <4>5. CASE j = p
        <5>1. Tally(u, i0, d) = Tally(v, i0, d)
            BY <4>1, <4>5 DEF i0
        <5>2. Good(j)
            BY <1>2, <4>3, <4>5, <5>1 DEF i0
        <5> QED BY <3>1, <5>2
      <4>6. CASE j > p
        <5>1. u[j] = v[i0] /\ i0 \in 1..m
            BY <1>2, <4>1, <4>6 DEF i0
        <5> DEFINE h == i0 - 1
        <5>2. h + 1 = i0 /\ h \in Nat
            BY <5>1
        <5>3. Tally(u, i0, d) = Tally(v, h, d) + one
            BY <4>1, <4>6 DEF i0
        <5> HIDE DEF h
        <5>4. Tally(v, i0, d) = Tally(v, h, d) + (IF v[i0] = d THEN 1 ELSE 0)
          <6>1. Tally(v, h, d) \in Nat
              BY <5>2, TallyStep
          <6>2. v[h + 1] = d => Tally(v, h + 1, d) = Tally(v, h, d) + 1
              BY <5>2, TallyStep
          <6>3. v[h + 1] # d => Tally(v, h + 1, d) = Tally(v, h, d)
              BY <5>2, TallyStep
          <6> QED BY <5>2, <6>1, <6>2, <6>3
        <5>5. Tally(v, h, d) \in Nat
            BY <5>2, TallyStep
        <5>6. Good(j)
            BY <4>3, <4>6, <5>1, <5>3, <5>4, <5>5 DEF i0
        <5> QED BY <3>1, <5>6
      <4> QED BY <4>1, <4>4, <4>5, <4>6
    <3> QED BY <3>1, <3>2, <3>3
  <2>2. m + 1 \in 0..(m + 1) /\ ~(m + 1 < p) /\ (m + 1) - 1 = m
      OBVIOUS
  <2> QED BY <2>1, <2>2
<1> QED BY <1>4, <1>5, <1>6 DEF Falling, HasAlso

\* Every sequence of times can be sorted.
LEMMA CanBeSorted ==
    ASSUME NEW L \in Nat, NEW s \in [1..L -> Nat]
    PROVE  \E u : Falling(u, L) /\ \A d \in Nat : Tally(u, L, d) = Tally(s, L, d)
<1> DEFINE Good(m) == \E u : /\ Falling(u, m)
                             /\ \A d \in Nat : Tally(u, m, d) = Tally(s, m, d)
           T == {m \in 0..L : ~Good(m)}
<1>1. \A m \in 0..L : Good(m)
  <2> SUFFICES ASSUME T # {} PROVE FALSE
      OBVIOUS
  <2>0. T \in SUBSET Nat
      BY SMT
  <2>1. PICK m \in T : \A y \in T : m <= y
    <3> HIDE DEF T
    <3> QED BY <2>0, LeastNat
  <2>2. m \in 0..L /\ ~Good(m)
      BY <2>1
  <2>3. CASE m = 0
    <3> DEFINE u == [k \in 1..0 |-> 0]
    <3>1. Falling(u, 0)
        BY DEF Falling
    <3>2. \A d \in Nat : Tally(u, 0, d) = 0 /\ Tally(s, 0, d) = 0
        BY TallyStep
    <3> HIDE DEF u
    <3> QED BY <2>2, <2>3, <3>1, <3>2
  <2>4. CASE m # 0
    <3> DEFINE p == m - 1
    <3>1. p \in 0..L /\ p \in Nat /\ p + 1 = m /\ p \notin T
        BY <2>1, <2>2, <2>4
    <3>2. s[m] \in Nat
        BY <2>2, <2>4
    <3> HIDE DEF p
    <3>3. Good(p)
        BY <3>1
    <3> HIDE DEF T
    <3>4. PICK v : Falling(v, p) /\ \A d \in Nat : Tally(v, p, d) = Tally(s, p, d)
        BY <3>3
    <3>5. PICK u : /\ Falling(u, p + 1)
                   /\ \A d \in Nat : Tally(u, p + 1, d)
                        = Tally(v, p, d) + (IF s[m] = d THEN 1 ELSE 0)
      <4> DEFINE x == s[m]
      <4>1. p \in Nat /\ x \in Nat /\ Falling(v, p)
          BY <3>1, <3>2, <3>4
      <4> HIDE DEF x
      <4>2. \E u : Falling(u, p + 1) /\ HasAlso(u, v, p, x)
          BY <4>1, Inserted
      <4> QED BY <4>2 DEF HasAlso, x
    <3>6. ASSUME NEW d \in Nat
          PROVE  Tally(u, m, d) = Tally(s, m, d)
      <4>1. Tally(u, m, d) = Tally(s, p, d) + (IF s[m] = d THEN 1 ELSE 0)
          BY <3>1, <3>4, <3>5
      <4>2. Tally(s, p, d) \in Nat
          BY <3>1, TallyStep
      <4>3. s[p + 1] = d => Tally(s, p + 1, d) = Tally(s, p, d) + 1
          BY <3>1, TallyStep
      <4>4. s[p + 1] # d => Tally(s, p + 1, d) = Tally(s, p, d)
          BY <3>1, TallyStep
      <4> QED BY <3>1, <4>1, <4>2, <4>3, <4>4
    <3>7. Good(m)
        BY <3>1, <3>5, <3>6
    <3> QED BY <2>2, <3>7
  <2> QED BY <2>3, <2>4
<1>2. L \in 0..L
    OBVIOUS
<1> QED BY <1>1, <1>2

\* A time of which there is a number is one of the sequence.
LEMMA TallyHit ==
    ASSUME NEW s, NEW m \in Nat, NEW d
    PROVE  Tally(s, m, d) > 0 <=> \E k \in 1..m : s[k] = d
<1>1. IsFiniteSet(Hits(s, m, d)) /\ Tally(s, m, d) \in Nat
    BY TallyStep
<1>2. Tally(s, m, d) = 0 <=> Hits(s, m, d) = {}
    BY <1>1, FS_EmptySet DEF Tally
<1>3. Tally(s, m, d) > 0 <=> Hits(s, m, d) # {}
    BY <1>1, <1>2
<1> QED BY <1>3 DEF Hits

\* What Sorted chooses is sorted, and of the same times.
LEMMA SortedIs ==
    ASSUME NEW L \in Nat, NEW s \in [1..L -> Nat]
    PROVE  /\ Falling(Sorted(s), L)
           /\ \A d \in Nat : Tally(Sorted(s), L, d) = Tally(s, L, d)
<1> DEFINE IsOf(u) == /\ u \in [DOMAIN s -> Range(s)]
                      /\ \A a, b \in DOMAIN s : a < b => u[a] >= u[b]
                      /\ \A d \in Range(s) :
                           Cardinality(Occurs(u, d)) = Cardinality(Occurs(s, d))
<1>1. DOMAIN s = 1..L /\ Range(s) \subseteq Nat
    BY DEF Range
<1>2. ASSUME NEW u \in [1..L -> Nat], NEW d
      PROVE  Occurs(u, d) = Hits(u, L, d)
    BY DEF Occurs, Hits
<1>3. PICK v : Falling(v, L) /\ \A d \in Nat : Tally(v, L, d) = Tally(s, L, d)
    BY CanBeSorted
<1>4. v \in [1..L -> Range(s)]
  <2>1. v \in [1..L -> Nat]
      BY <1>3 DEF Falling
  <2>2. ASSUME NEW k \in 1..L
        PROVE  v[k] \in Range(s)
    <3>1. Tally(v, L, v[k]) > 0 /\ v[k] \in Nat
        BY <2>1, TallyHit
    <3>2. Tally(s, L, v[k]) > 0
        BY <1>3, <3>1
    <3>3. PICK j \in 1..L : s[j] = v[k]
        BY <3>2, TallyHit
    <3> QED BY <3>3 DEF Range
  <2> QED BY <2>1, <2>2
<1>5. IsOf(v)
  <2>1. \A a, b \in DOMAIN s : a < b => v[a] >= v[b]
      BY <1>1, <1>3 DEF Falling
  <2>2. \A d \in Range(s) : Cardinality(Occurs(v, d)) = Cardinality(Occurs(s, d))
      BY <1>1, <1>2, <1>3 DEF Tally, Falling
  <2> QED BY <1>1, <1>4, <2>1, <2>2
<1>6. Sorted(s) = CHOOSE u : IsOf(u)
    BY DEF Sorted
<1>7. IsOf(Sorted(s))
  <2> HIDE DEF IsOf
  <2> QED BY <1>5, <1>6
<1> DEFINE u == Sorted(s)
<1>8. u \in [1..L -> Nat] /\ u \in [1..L -> Range(s)]
    BY <1>1, <1>7
<1>9. Falling(u, L)
    BY <1>1, <1>7, <1>8 DEF Falling
<1>10. ASSUME NEW d \in Nat
       PROVE  Tally(u, L, d) = Tally(s, L, d)
  <2> HIDE DEF u
  <2>1. CASE d \in Range(s)
      BY <1>2, <1>7, <1>8, <2>1 DEF Tally, u
  <2>2. CASE d \notin Range(s)
    <3>1. ~(\E k \in 1..L : u[k] = d) /\ ~(\E k \in 1..L : s[k] = d)
        BY <1>8, <2>2 DEF Range
    <3>2. Tally(u, L, d) \in Nat /\ Tally(s, L, d) \in Nat
        BY TallyStep
    <3>3. ~(Tally(u, L, d) > 0) /\ ~(Tally(s, L, d) > 0)
        BY <3>1, TallyHit
    <3> QED BY <3>2, <3>3
  <2> QED BY <2>1, <2>2
<1> QED BY <1>9, <1>10
-----------------------------------------------------------------------------
(* The median.                                                             *)

\* The launches of a bag of times that took one of S.
Those(bag, S) == UNION {{d} \X (1..bag[d]) : d \in S}

\* The first m times of u as such pairs, and as places.
Pairs(u, m, S)  == UNION {{d} \X (1..Tally(u, m, d)) : d \in S}
HitPlaces(u, m, S) == {k \in 1..m : u[k] \in S}

\* There are as many pairs as places.
LEMMA PairsStep ==
    ASSUME NEW u, NEW m \in Nat, NEW S,
           IsFiniteSet(Pairs(u, m, S)), IsFiniteSet(HitPlaces(u, m, S)),
           Cardinality(Pairs(u, m, S)) = Cardinality(HitPlaces(u, m, S))
    PROVE  /\ IsFiniteSet(Pairs(u, m + 1, S)) /\ IsFiniteSet(HitPlaces(u, m + 1, S))
           /\ Cardinality(Pairs(u, m + 1, S)) = Cardinality(HitPlaces(u, m + 1, S))
<1> DEFINE x == u[m + 1]
           c == Tally(u, m, x)
<1>1. \A k : k \in 1..(m + 1) <=> k \in 1..m \/ k = m + 1
    OBVIOUS
<1>2. \A d : d # x => Tally(u, m + 1, d) = Tally(u, m, d)
    BY TallyStep
<1>3. c \in Nat /\ Tally(u, m + 1, x) = c + 1
    BY TallyStep
<1> HIDE DEF x, c
<1>4. CASE x \notin S
  <2>1. HitPlaces(u, m + 1, S) = HitPlaces(u, m, S)
      BY <1>1, <1>4, Zenon DEF HitPlaces, x
  <2>2. \A d \in S : Tally(u, m + 1, d) = Tally(u, m, d)
      BY <1>2, <1>4
  <2>3. Pairs(u, m + 1, S) = Pairs(u, m, S)
      BY <2>2 DEF Pairs
  <2> QED BY <2>1, <2>3
<1>5. CASE x \in S
  <2>1. HitPlaces(u, m + 1, S) = HitPlaces(u, m, S) \cup {m + 1}
      BY <1>1, <1>5, Zenon DEF HitPlaces, x
  <2>2. m + 1 \notin HitPlaces(u, m, S)
      BY DEF HitPlaces
  <2>3. Pairs(u, m + 1, S) = Pairs(u, m, S) \cup {<<x, c + 1>>}
    <3>1. ASSUME NEW e \in Pairs(u, m + 1, S)
          PROVE  e \in Pairs(u, m, S) \cup {<<x, c + 1>>}
      <4>1. PICK d \in S : e \in {d} \X (1..Tally(u, m + 1, d))
          BY <3>1 DEF Pairs
      <4>2. CASE d # x
        <5>1. e \in {d} \X (1..Tally(u, m, d))
            BY <1>2, <4>1, <4>2
        <5> QED BY <5>1 DEF Pairs
      <4>3. CASE d = x
        <5>1. PICK k \in 1..(c + 1) : e = <<x, k>>
            BY <1>3, <4>1, <4>3
        <5>2. CASE k = c + 1
            BY <5>1, <5>2
        <5>3. CASE k # c + 1
          <6>1. k \in 1..c
              BY <1>3, <5>3
          <6>2. e \in {x} \X (1..Tally(u, m, x))
              BY <5>1, <6>1 DEF c
          <6> QED BY <1>5, <6>2 DEF Pairs
        <5> QED BY <5>2, <5>3
      <4> QED BY <4>2, <4>3
    <3>2. ASSUME NEW e \in Pairs(u, m, S)
          PROVE  e \in Pairs(u, m + 1, S)
      <4>1. PICK d \in S : e \in {d} \X (1..Tally(u, m, d))
          BY <3>2 DEF Pairs
      <4>2. 1..Tally(u, m, d) \subseteq 1..Tally(u, m + 1, d)
        <5>1. CASE d # x
            BY <1>2, <5>1
        <5>2. CASE d = x
          <6>1. 1..c \subseteq 1..(c + 1)
              BY <1>3
          <6> QED BY <1>3, <5>2, <6>1 DEF c
        <5> QED BY <5>1, <5>2
      <4>3. e \in {d} \X (1..Tally(u, m + 1, d))
          BY <4>1, <4>2
      <4> QED BY <4>3 DEF Pairs
    <3>3. <<x, c + 1>> \in Pairs(u, m + 1, S)
      <4>1. c + 1 \in 1..Tally(u, m + 1, x)
          BY <1>3
      <4>2. <<x, c + 1>> \in {x} \X (1..Tally(u, m + 1, x))
          BY <4>1
      <4> QED BY <1>5, <4>2 DEF Pairs
    <3> QED BY <3>1, <3>2, <3>3
  <2>4. <<x, c + 1>> \notin Pairs(u, m, S)
    <3> SUFFICES ASSUME <<x, c + 1>> \in Pairs(u, m, S) PROVE FALSE
        OBVIOUS
    <3>1. PICK d \in S : <<x, c + 1>> \in {d} \X (1..Tally(u, m, d))
        BY DEF Pairs
    <3>2. d = x /\ c + 1 \in 1..c
        BY <3>1 DEF c
    <3> QED BY <1>3, <3>2
  <2>5. /\ IsFiniteSet(Pairs(u, m + 1, S))
        /\ Cardinality(Pairs(u, m + 1, S)) = Cardinality(Pairs(u, m, S)) + 1
      BY <2>3, <2>4, FS_AddElement
  <2>6. /\ IsFiniteSet(HitPlaces(u, m + 1, S))
        /\ Cardinality(HitPlaces(u, m + 1, S)) = Cardinality(HitPlaces(u, m, S)) + 1
      BY <2>1, <2>2, FS_AddElement
  <2> QED BY <2>5, <2>6
<1> QED BY <1>4, <1>5

\* So it is for all of them.
LEMMA PairsAreCounted ==
    ASSUME NEW u, NEW L \in Nat, NEW S
    PROVE  /\ IsFiniteSet(HitPlaces(u, L, S))
           /\ Cardinality(Pairs(u, L, S)) = Cardinality(HitPlaces(u, L, S))
<1> DEFINE Good(m) == /\ IsFiniteSet(Pairs(u, m, S)) /\ IsFiniteSet(HitPlaces(u, m, S))
                      /\ Cardinality(Pairs(u, m, S)) = Cardinality(HitPlaces(u, m, S))
           T == {m \in Nat : ~Good(m)}
<1>1. ASSUME T # {} PROVE FALSE
  <2>1. PICK m \in T : \A y \in T : m <= y
      BY <1>1, LeastNat
  <2>2. m \in Nat /\ ~Good(m)
      BY <2>1
  <2>3. CASE m = 0
    <3>1. HitPlaces(u, 0, S) = {}
        BY DEF HitPlaces
    <3>2. \A d \in S : Tally(u, 0, d) = 0
        BY TallyStep
    <3>3. Pairs(u, 0, S) = {}
      <4>1. \A d \in S : {d} \X (1..Tally(u, 0, d)) = {}
        <5> TAKE d \in S
        <5>1. 1..Tally(u, 0, d) = {}
            BY <3>2
        <5> QED BY <5>1
      <4> QED BY <4>1 DEF Pairs
    <3>4. Good(0)
        BY <3>1, <3>3, FS_EmptySet
    <3> QED BY <2>2, <2>3, <3>4
  <2>4. CASE m # 0
    <3> DEFINE p == m - 1
    <3>1. p \in Nat /\ p + 1 = m /\ p \notin T
        BY <2>1, <2>2, <2>4
    <3> HIDE DEF p
    <3>2. Good(p)
        BY <3>1
    <3>3. Good(p + 1)
        BY <3>1, <3>2, PairsStep
    <3> QED BY <2>2, <3>1, <3>3
  <2> QED BY <2>3, <2>4
<1> QED BY <1>1

\* What a test prints is the median of its launches.
LEMMA MedianIs ==
    ASSUME NEW s \in [1..Launches -> Times], NEW l,
           l.duration = Sorted(s)[Launches \div 2],
           l.delta = Sorted(s)[1] - Sorted(s)[Launches],
           l.launches = Often(s)
    PROVE  IsMedian(l)
<1> DEFINE u == Sorted(s)
           L == Launches
           h == Launches \div 2
           Long == {d \in Times : d >= l.duration}
           Short == {d \in Times : d <= l.duration}
<1>1. /\ L \in Nat /\ h \in Nat \ {0} /\ L = 2 * h /\ Times \subseteq Nat
      /\ 1 \in 1..L /\ L \in 1..L /\ h \in 1..L
    BY OverheadsAssumption
<1>2. s \in [1..L -> Nat]
    BY <1>1
<1>3. Falling(u, L) /\ \A d \in Nat : Tally(u, L, d) = Tally(s, L, d)
    BY <1>1, <1>2, SortedIs
<1>4. ASSUME NEW d \in Times
      PROVE  l.launches[d] = Tally(u, L, d)
  <2>1. Occurs(s, d) = Hits(s, L, d) /\ d \in Nat
      BY <1>1 DEF Occurs, Hits
  <2>2. l.launches[d] = Tally(s, L, d)
      BY <2>1 DEF Often, Tally
  <2> QED BY <1>3, <2>1, <2>2
<1>5. \A k \in 1..L : u[k] \in Nat
    BY <1>3 DEF Falling
<1>6. \A k \in 1..L : u[k] \in Times
  <2> TAKE k \in 1..L
  <2>1. Tally(u, L, u[k]) > 0
      BY <1>1, TallyHit
  <2>2. Tally(s, L, u[k]) > 0
      BY <1>3, <1>5, <2>1
  <2>3. PICK j \in 1..L : s[j] = u[k]
      BY <1>1, <2>2, TallyHit
  <2> QED BY <2>3
<1>7. l.duration = u[h] /\ l.delta = u[1] - u[L]
    OBVIOUS
<1> HIDE DEF u, h, L
<1>8. ASSUME NEW S \in SUBSET Times
      PROVE  Cardinality(Those(l.launches, S)) = Cardinality(HitPlaces(u, L, S))
  <2>1. Those(l.launches, S) = Pairs(u, L, S)
      BY <1>4 DEF Those, Pairs
  <2> QED BY <1>1, <2>1, PairsAreCounted
<1>9. 2 * Cardinality(Those(l.launches, Long)) >= L
  <2>1. \A k \in 1..h : k \in 1..L /\ u[k] >= u[h]
    <3> TAKE k \in 1..h
    <3>1. k \in 1..L /\ (k = h \/ k < h)
        BY <1>1
    <3> QED BY <1>1, <1>3, <1>5, <3>1 DEF Falling
  <2>2. 1..h \in SUBSET HitPlaces(u, L, Long)
      BY <1>6, <1>7, <2>1 DEF HitPlaces
  <2>3. IsFiniteSet(HitPlaces(u, L, Long))
      BY <1>1, PairsAreCounted
  <2>4. Cardinality(1..h) <= Cardinality(HitPlaces(u, L, Long))
      BY <2>2, <2>3, FS_Subset
  <2>5. Cardinality(1..h) = h
    <3>1. 1 \in Int /\ h \in Int /\ ~(1 > h)
        BY <1>1
    <3> QED BY <3>1, FS_Interval
  <2>6. Cardinality(HitPlaces(u, L, Long)) \in Nat
      BY <2>3, FS_CardinalityType
  <2>7. Cardinality(Those(l.launches, Long)) = Cardinality(HitPlaces(u, L, Long))
      BY <1>8
  <2> QED BY <1>1, <2>4, <2>5, <2>6, <2>7
<1>10. 2 * Cardinality(Those(l.launches, Short)) > L
  <2>1. \A k \in h..L : k \in 1..L /\ u[k] <= u[h]
    <3> TAKE k \in h..L
    <3>1. k \in 1..L /\ (k = h \/ h < k)
        BY <1>1
    <3> QED BY <1>1, <1>3, <1>5, <3>1 DEF Falling
  <2>2. h..L \in SUBSET HitPlaces(u, L, Short)
      BY <1>6, <1>7, <2>1 DEF HitPlaces
  <2>3. IsFiniteSet(HitPlaces(u, L, Short))
      BY <1>1, PairsAreCounted
  <2>4. Cardinality(h..L) <= Cardinality(HitPlaces(u, L, Short))
      BY <2>2, <2>3, FS_Subset
  <2>5. Cardinality(h..L) = h + 1
    <3>1. L \in Int /\ h \in Int /\ ~(h > L) /\ L - h + 1 = h + 1
        BY <1>1
    <3> QED BY <3>1, FS_Interval
  <2>6. Cardinality(HitPlaces(u, L, Short)) \in Nat
      BY <2>3, FS_CardinalityType
  <2>7. Cardinality(Those(l.launches, Short)) = Cardinality(HitPlaces(u, L, Short))
      BY <1>8
  <2> QED BY <1>1, <2>4, <2>5, <2>6, <2>7
<1> DEFINE Measured == {d \in Times : l.launches[d] > 0}
<1>11. \A d : d \in Measured <=> \E k \in 1..L : u[k] = d
  <2> TAKE d
  <2>1. CASE d \in Times
      BY <1>1, <1>4, <2>1, TallyHit
  <2>2. CASE d \notin Times
      BY <1>6, <2>2
  <2> QED BY <2>1, <2>2
<1> HIDE DEF Measured
<1>12. \A k \in 1..L : u[1] >= u[k] /\ u[k] >= u[L]
  <2> TAKE k \in 1..L
  <2>1. k = 1 \/ 1 < k
      BY <1>1
  <2>2. k = L \/ k < L
      BY <1>1
  <2> QED BY <1>1, <1>3, <1>5, <2>1, <2>2 DEF Falling
<1>13. \E a, b \in Measured : l.delta = a - b
    BY <1>1, <1>7, <1>11
<1>14. \A a, b \in Measured : a - b <= l.delta
  <2> TAKE a, b \in Measured
  <2>1. PICK i1 \in 1..L, i2 \in 1..L : u[i1] = a /\ u[i2] = b
      BY <1>11
  <2>2. u[1] \in Nat /\ u[L] \in Nat /\ a \in Nat /\ b \in Nat /\ u[1] >= a /\ b >= u[L]
      BY <1>1, <1>5, <1>12, <2>1
  <2> QED BY <1>7, <2>2
<1> QED BY <1>9, <1>10, <1>13, <1>14 DEF IsMedian, Those, Measured, L
-----------------------------------------------------------------------------
(* The table grows.                                                        *)

\* A line more at the end.
LEMMA LineMore ==
    ASSUME NEW tab, tab \in Seq(Range(tab)), NEW e
    PROVE  LET new == Append(tab, e)
           IN  /\ new \in Seq(Range(new)) /\ Len(tab) \in Nat
               /\ Len(new) = Len(tab) + 1 /\ new[Len(tab) + 1] = e
               /\ \A n \in 1..Len(tab) : new[n] = tab[n]
<1> DEFINE X == Range(tab) \cup {e}
           new == Append(tab, e)
           N == Len(tab)
<1>1. N \in Nat /\ DOMAIN tab = 1..N /\ tab \in [1..N -> Range(tab)]
    BY LenProperties
<1>2. tab \in [1..N -> X]
    BY <1>1
<1>3. tab \in Seq(X)
    BY <1>1, <1>2, SeqDef
<1>4. e \in X
    OBVIOUS
<1> HIDE DEF X
<1>5. /\ new \in Seq(X) /\ Len(new) = N + 1
      /\ \A n \in 1..N : new[n] = tab[n]
      /\ new[N + 1] = e
    BY <1>3, <1>4, AppendProperties
<1> HIDE DEF new
<1>6. DOMAIN new = 1..(N + 1) /\ new \in [1..(N + 1) -> X]
    BY <1>5, LenProperties
<1>7. new \in [1..(N + 1) -> Range(new)]
  <2>1. new = [n \in 1..(N + 1) |-> new[n]]
      BY <1>6
  <2>2. \A n \in 1..(N + 1) : new[n] \in Range(new)
      BY <1>6 DEF Range
  <2> QED BY <2>1, <2>2
<1>8. new \in Seq(Range(new))
  <2>1. N + 1 \in Nat
      BY <1>1
  <2> QED BY <1>7, <2>1, SeqDef
<1> QED BY <1>1, <1>5, <1>8 DEF new

\* Functions of sums, of which there is one.
IsSums(s, lines, p, m) ==
    s = [n \in 0..m |-> IF n = 0 THEN 0 ELSE s[n - 1] + lines[p + n].duration]

\* There is one for every number of lines.
LEMMA SumsExist ==
    ASSUME NEW lines, NEW p, NEW q \in Nat
    PROVE  \E s : IsSums(s, lines, p, q)
<1> DEFINE T == {m \in Nat : ~\E s : IsSums(s, lines, p, m)}
<1> SUFFICES ASSUME T # {} PROVE FALSE
    OBVIOUS
<1>1. PICK m \in T : \A y \in T : m <= y
    BY LeastNat
<1>2. CASE m = 0
  <2> DEFINE h == [n \in 0..0 |-> 0]
  <2>1. h = [n \in 0..0 |-> IF n = 0 THEN 0 ELSE h[n - 1] + lines[p + n].duration]
      OBVIOUS
  <2> QED BY <1>2, <2>1 DEF IsSums
<1>3. CASE m # 0
  <2>1. m \in Nat /\ m - 1 \in Nat /\ m - 1 \notin T
      BY <1>1, <1>3
  <2>2. PICK g : IsSums(g, lines, p, m - 1)
      BY <2>1
  <2>3. \A n \in 0..(m - 1) :
          g[n] = IF n = 0 THEN 0 ELSE g[n - 1] + lines[p + n].duration
      BY <2>2 DEF IsSums
  <2> DEFINE last == g[m - 1] + lines[p + m].duration
             h == [n \in 0..m |-> IF n < m THEN g[n] ELSE last]
  <2>4. \A n \in 0..(m - 1) : h[n] = g[n]
      BY <2>1
  <2>5. h[m] = last
      BY <2>1
  <2>6. h = [n \in 0..m |-> h[n]]
      OBVIOUS
  <2> HIDE DEF h
  <2>7. \A n \in 0..m : h[n] = IF n = 0 THEN 0 ELSE h[n - 1] + lines[p + n].duration
    <3> TAKE n \in 0..m
    <3>1. CASE n < m
      <4>1. n \in 0..(m - 1) /\ (n # 0 => n - 1 \in 0..(m - 1))
          BY <2>1, <3>1
      <4> QED BY <2>3, <2>4, <4>1
    <3>2. CASE n = m
      <4>1. m - 1 \in 0..(m - 1)
          BY <2>1
      <4> QED BY <1>3, <2>4, <2>5, <3>2, <4>1
    <3> QED BY <2>1, <3>1, <3>2
  <2>8. h = [n \in 0..m |-> IF n = 0 THEN 0 ELSE h[n - 1] + lines[p + n].duration]
      BY <2>6, <2>7, Zenon
  <2> QED BY <2>8 DEF IsSums
<1> QED BY <1>2, <1>3

\* How many tests there are.
LEMMA TestsType ==
    Len(Tests) \in Nat /\ Size \in Nat \ {0} /\ Size = Len(Tests) + 1
<1>1. Len(Tests) \in Nat
    BY OverheadsAssumption, LenProperties
<1> QED BY <1>1 DEF Size

\* What Sums is.
LEMMA SumsAre ==
    ASSUME NEW lines, NEW p
    PROVE  /\ Sums(lines, p)[0] = 0
           /\ \A n \in 1..Len(Tests) : Sums(lines, p)[n]
                = Sums(lines, p)[n - 1] + lines[p + n].duration
<1> DEFINE f == CHOOSE s : IsSums(s, lines, p, Len(Tests))
<1>0. Len(Tests) \in Nat
    BY TestsType
<1>1. IsSums(f, lines, p, Len(Tests))
    BY <1>0, SumsExist, Zenon
<1>2. Sums(lines, p) = f
    BY DEF Sums, IsSums
<1>3. \A n \in 0..Len(Tests) :
        f[n] = IF n = 0 THEN 0 ELSE f[n - 1] + lines[p + n].duration
    BY <1>1 DEF IsSums
<1> HIDE DEF f
<1> QED BY <1>0, <1>2, <1>3

\* The sums are those of the lines alone.
LEMMA SameSums ==
    ASSUME NEW a, NEW b, NEW p \in Nat, NEW m \in 0..Len(Tests),
           \A n \in 1..m : b[p + n] = a[p + n]
    PROVE  Sums(b, p)[m] = Sums(a, p)[m]
<1> DEFINE F == Sums(a, p)
           G == Sums(b, p)
           T == {n \in 0..m : G[n] # F[n]}
<1>0. Len(Tests) \in Nat
    BY TestsType
<1>1. F[0] = 0 /\ \A n \in 1..Len(Tests) : F[n] = F[n - 1] + a[p + n].duration
    BY SumsAre
<1>2. G[0] = 0 /\ \A n \in 1..Len(Tests) : G[n] = G[n - 1] + b[p + n].duration
    BY SumsAre
<1> HIDE DEF F, G
<1>3. ASSUME T # {} PROVE FALSE
  <2>0. T \in SUBSET Nat
      OBVIOUS
  <2>1. PICK n \in T : \A y \in T : n <= y
      BY <1>3, <2>0, LeastNat
  <2>2. n \in 0..m /\ G[n] # F[n]
      BY <2>1
  <2>3. n # 0
      BY <1>1, <1>2, <2>2
  <2>4. n \in 1..m /\ n \in 1..Len(Tests) /\ n - 1 \in 0..m /\ n - 1 \notin T
      BY <1>0, <2>1, <2>2, <2>3
  <2>5. G[n - 1] = F[n - 1]
      BY <2>4
  <2>6. b[p + n] = a[p + n]
      BY <2>4
  <2>7. F[n] = F[n - 1] + a[p + n].duration /\ G[n] = G[n - 1] + b[p + n].duration
      BY <1>1, <1>2, <2>4
  <2> QED BY <2>2, <2>5, <2>6, <2>7
<1>4. m \in 0..m
    BY <1>0
<1> QED BY <1>3, <1>4 DEF F, G

\* A report stays where it is when the table grows.
LEMMA ReportKept ==
    ASSUME NEW p \in Nat, NEW d, Len(table) \in Nat, p + Size <= Len(table),
           \A n \in 1..Len(table) : table'[n] = table[n],
           IsReport(p, d)
    PROVE  IsReport(p, d)'
<1>1. Len(Tests) \in Nat /\ Size = Len(Tests) + 1
    BY TestsType
<1>2. \A n \in 1..(Len(Tests) + 1) : p + n \in 1..Len(table)
    BY <1>1
<1>3. \A n \in 1..(Len(Tests) + 1) : table'[p + n] = table[p + n]
    BY <1>2
<1>4. Len(Tests) \in 0..Len(Tests) /\ \A n \in 1..Len(Tests) : n \in 1..(Len(Tests) + 1)
    BY <1>1
<1>5. Sums(table', p)[Len(Tests)] = Sums(table, p)[Len(Tests)]
    BY <1>3, <1>4, SameSums
<1>6. /\ \A n \in 1..Len(Tests) : /\ table[p + n].kind = "line"
                                  /\ table[p + n].device = d /\ table[p + n].test = n
      /\ table[p + Len(Tests) + 1].kind = "avg"
      /\ table[p + Len(Tests) + 1].device = d
      /\ table[p + Len(Tests) + 1].sum = Sums(table, p)[Len(Tests)]
    BY DEF IsReport
<1>7. table'[p + Len(Tests) + 1] = table[p + Len(Tests) + 1]
  <2>1. Len(Tests) + 1 \in 1..(Len(Tests) + 1)
      BY <1>1
  <2>2. p + (Len(Tests) + 1) = p + Len(Tests) + 1
      BY <1>1
  <2> QED BY <1>3, <2>1, <2>2
<1> QED BY <1>3, <1>4, <1>5, <1>6, <1>7 DEF IsReport

\* Where the reports are.
LEMMA Positions ==
    ASSUME NEW f \in Int, NEW e \in Int, f <= e, NEW S \in Nat \ {0}
    PROVE  /\ (e - f) * S \in Nat
           /\ ((e + 1) - f) * S = ((e - f) * S) + S
           /\ \A d \in f..(e - 1) : /\ (d - f) * S \in Nat
                                    /\ ((d - f) * S) + S <= (e - f) * S
<1>1. e - f \in Nat /\ (e + 1) - f = (e - f) + 1
    OBVIOUS
<1>2. \A x \in Nat : x * S \in Nat /\ (x + 1) * S = (x * S) + S
    OBVIOUS
<1>3. ASSUME NEW d \in f..(e - 1)
      PROVE  (d - f) * S \in Nat /\ ((d - f) * S) + S <= (e - f) * S
  <2>1. d - f \in Nat /\ e - (d + 1) \in Nat /\ e - f = ((d - f) + 1) + (e - (d + 1))
      OBVIOUS
  <2>2. \A x, y \in Nat : ((x + 1) + y) * S = (x * S) + S + (y * S) /\ y * S \in Nat
      OBVIOUS
  <2>3. (e - f) * S = ((d - f) * S) + S + ((e - (d + 1)) * S)
      BY <2>1, <2>2
  <2>4. (d - f) * S \in Nat /\ (e - (d + 1)) * S \in Nat
      BY <1>2, <2>1
  <2> QED BY <2>3, <2>4
<1> QED BY <1>1, <1>2, <1>3
-----------------------------------------------------------------------------
(* The lines through the steps of main.                                    *)

\* Durations are those of the test's launches, and the line their median.
LEMMA MedianStep ==
    MainInv /\ MedianInv /\ TableInv /\ [OverheadsNext]_all => MedianInv'
<1> SUFFICES ASSUME MainInv, MedianInv, TableInv, [OverheadsNext]_all
             PROVE  MedianInv'
    OBVIOUS
<1>0. table \in Seq(Range(table)) /\ Times \subseteq Nat /\ Launches \in Nat
    BY OverheadsAssumption DEF TableInv
<1> DEFINE Medians == \A n \in 1..Len(table) :
                        table[n].kind = "line" /\ ~table[n].spoilt
                          => IsMedian(table[n])
<1>1. Medians
    BY DEF MedianInv
<1>2. CASE UNCHANGED table /\ stage' # "launch"
    BY <1>2 DEF MedianInv
<1>3. CASE Prepare
  <2>1. durations' = << >> /\ UNCHANGED table
      BY <1>3 DEF Prepare
  <2>2. << >> \in Seq(Times \cup {0}) /\ << >> \in Seq(Times)
      BY EmptySeq
  <2> QED BY <1>1, <2>1, <2>2 DEF MedianInv
<1>4. CASE Launch
  <2>1. /\ stage = "launch" /\ UNCHANGED table
        /\ \/ stage' = "exit"
           \/ /\ spoilt' = spoilt
              /\ \E d \in Times : durations' = Append(durations, d)
           \/ /\ spoilt' = TRUE
              /\ \E d \in Times \cup {0} : durations' = Append(durations, d)
      BY <1>4 DEF Launch, Failure
  <2>2. durations \in Seq(Times \cup {0}) /\ (~spoilt => durations \in Seq(Times))
      BY <2>1 DEF MedianInv
  <2>3. \A d \in Times \cup {0} : Append(durations, d) \in Seq(Times \cup {0})
      BY <2>2, AppendProperties
  <2>4. ~spoilt => \A d \in Times : Append(durations, d) \in Seq(Times)
      BY <2>2, AppendProperties
  <2>5. Medians'
      BY <1>1, <2>1
  <2>6. ASSUME stage' = "launch"
        PROVE  /\ durations' \in Seq(Times \cup {0})
               /\ ~spoilt' => durations' \in Seq(Times)
    <3>1. CASE /\ spoilt' = spoilt
               /\ \E d \in Times : durations' = Append(durations, d)
        BY <2>3, <2>4, <3>1
    <3>2. CASE /\ spoilt' = TRUE
               /\ \E d \in Times \cup {0} : durations' = Append(durations, d)
        BY <2>3, <3>2
    <3> QED BY <2>1, <2>6, <3>1, <3>2
  <2> QED BY <2>5, <2>6 DEF MedianInv
<1>5. CASE CloseDevice
  <2> DEFINE e == [kind |-> "avg", device |-> device_id, sum |-> sum]
  <2>1. table' = Append(table, e) /\ stage' = "device" /\ e.kind = "avg"
      BY <1>5 DEF CloseDevice
  <2> HIDE DEF e
  <2>2. /\ Len(table) \in Nat /\ Len(table') = Len(table) + 1
        /\ table'[Len(table) + 1] = e
        /\ \A n \in 1..Len(table) : table'[n] = table[n]
      BY <1>0, <2>1, LineMore
  <2>3. \A n \in 1..(Len(table) + 1) : n \in 1..Len(table) \/ n = Len(table) + 1
      BY <2>2
  <2>4. Medians'
      BY <1>1, <2>1, <2>2, <2>3
  <2> QED BY <2>1, <2>4 DEF MedianInv
<1>6. CASE Report
  <2> DEFINE s == Sorted(durations)
             e == [kind |-> "line", device |-> device_id, test |-> t,
                   duration |-> s[Launches \div 2], delta |-> s[1] - s[Launches],
                   launches |-> Often(durations), spoilt |-> spoilt]
  <2>1. /\ table' = Append(table, e) /\ stage' = "test" /\ stage = "launch"
        /\ Len(durations) = Launches
      BY <1>6 DEF Report
  <2>2. /\ e.duration = Sorted(durations)[Launches \div 2]
        /\ e.delta = Sorted(durations)[1] - Sorted(durations)[Launches]
        /\ e.launches = Often(durations) /\ e.spoilt = spoilt
      OBVIOUS
  <2> HIDE DEF e, s
  <2>3. ASSUME ~e.spoilt PROVE IsMedian(e)
    <3>1. durations \in Seq(Times)
        BY <2>1, <2>2, <2>3 DEF MedianInv
    <3>2. durations \in [1..Launches -> Times]
        BY <2>1, <3>1, LenProperties
    <3> QED BY <2>2, <3>2, MedianIs
  <2>4. /\ Len(table) \in Nat /\ Len(table') = Len(table) + 1
        /\ table'[Len(table) + 1] = e
        /\ \A n \in 1..Len(table) : table'[n] = table[n]
      BY <1>0, <2>1, LineMore
  <2>5. \A n \in 1..(Len(table) + 1) : n \in 1..Len(table) \/ n = Len(table) + 1
      BY <2>4
  <2>6. Medians'
      BY <1>1, <2>3, <2>4, <2>5
  <2> QED BY <2>1, <2>6 DEF MedianInv
<1>7. CASE UNCHANGED all
    BY <1>7 DEF all, main, MedianInv
<1>8. CASE Enumerate
  <2>1. UNCHANGED table /\ stage' # "launch"
      BY <1>8 DEF Enumerate, main
  <2> QED BY <1>2, <2>1
<1>9. CASE Options
    BY <1>2, <1>9 DEF Options
<1>10. CASE LoopRange
    BY <1>2, <1>10 DEF LoopRange
<1>11. CASE OpenDevice
    BY <1>2, <1>11 DEF OpenDevice
<1>12. CASE Exit
    BY <1>2, <1>12 DEF Exit
<1> QED BY <1>3, <1>4, <1>5, <1>6, <1>7, <1>8, <1>9, <1>10, <1>11, <1>12
        DEF OverheadsNext

\* What the steps below need of the types.
LEMMA TableType ==
    ASSUME MainInv, TableInv
    PROVE  /\ device_id \in Int /\ t \in Nat \ {0} /\ asked \in Int
           /\ num_devices \in Nat /\ AsInt(num_devices) \in Int
           /\ First \in Int /\ Number \in Int
           /\ table \in Seq(Range(table)) /\ Len(table) \in Nat
<1>1. device_id \in Int /\ t \in Nat \ {0}
    BY DEF MainInv, MainTypeInv
<1>2. asked \in Int /\ table \in Seq(Range(table))
    BY DEF TableInv
<1>3. num_devices \in Nat
    BY DEF MainInv, EnumInv, EnumTypeInv, UInt
<1>4. UIntMod \in Nat
    BY Width
<1>5. AsInt(num_devices) \in Int
    BY <1>3, <1>4 DEF AsInt
<1>6. First \in Int /\ Number \in Int
    BY <1>2, <1>5 DEF First, Number
<1>7. Len(table) \in Nat
    BY <1>2, LenProperties
<1> QED BY <1>1, <1>2, <1>3, <1>5, <1>6, <1>7

\* A step that prints nothing leaves the reports where they are.
LEMMA SameReports ==
    ASSUME NEW d, UNCHANGED <<table, asked>>
    PROVE  First' = First /\ At(d)' = At(d) /\ (IsReport(At(d), d) => IsReport(At(d), d)')
<1>1. First' = First
    BY DEF First
<1>2. At(d)' = At(d)
    BY <1>1 DEF At
<1> QED BY <1>1, <1>2 DEF IsReport

\* The average of a device completes its report.
LEMMA CloseTable ==
    ASSUME MainInv, TableInv, CloseDevice
    PROVE  TableInv'
<1> DEFINE e == [kind |-> "avg", device |-> device_id, sum |-> sum]
           p == At(device_id)
           N == Len(Tests)
<1>1. /\ stage = "test" /\ t > N /\ stage' = "device" /\ device_id' = device_id + 1
      /\ table' = Append(table, e)
      /\ UNCHANGED <<asked, upper_id, num_devices>>
    BY DEF CloseDevice, enumeration, vars
<1>2. e.kind = "avg" /\ e.device = device_id /\ e.sum = sum
    OBVIOUS
<1> HIDE DEF e
<1>3. /\ device_id \in Int /\ t \in Nat \ {0} /\ First \in Int /\ asked \in Int
      /\ table \in Seq(Range(table)) /\ Len(table) \in Nat
      /\ N \in Nat /\ Size = N + 1 /\ Size \in Nat \ {0}
    BY TableType, TestsType
<1>4. /\ First <= device_id /\ device_id < upper_id /\ t <= Size
      /\ upper_id = First + Number
      /\ Len(table) = p + (t - 1)
      /\ \A n \in 1..(t - 1) :
           LET l == table[p + n]
           IN  l.kind = "line" /\ l.device = device_id /\ l.test = n
      /\ sum = Sums(table, p)[t - 1]
      /\ \A d \in First..(device_id - 1) : IsReport(At(d), d)
    BY <1>1 DEF TableInv, Running
<1>5. t - 1 = N
    BY <1>1, <1>3, <1>4
<1>6. /\ table' \in Seq(Range(table')) /\ Len(table') = Len(table) + 1
      /\ table'[Len(table) + 1] = e
      /\ \A n \in 1..Len(table) : table'[n] = table[n]
    BY <1>1, <1>3, LineMore
<1>7. First' = First /\ Number' = Number /\ \A d : At(d)' = At(d)
    BY <1>1 DEF First, Number, At
<1>8. /\ p \in Nat /\ At(device_id + 1) = p + Size
      /\ \A d \in First..(device_id - 1) : At(d) \in Nat /\ At(d) + Size <= p
    BY <1>3, <1>4, Positions, ZenonT(40) DEF At
<1> HIDE DEF p, N
<1>9. Len(table) = p + N /\ Len(table') = p + Size /\ p + N + 1 = Len(table) + 1
    BY <1>3, <1>4, <1>5, <1>6, <1>8, SMTT(30)
<1>10. \A n \in 1..N : p + n \in 1..Len(table)
    BY <1>3, <1>8, <1>9
<1>11. \A n \in 1..N : table'[p + n] = table[p + n]
    BY <1>6, <1>10
<1>12. N \in 0..Len(Tests)
    BY <1>3 DEF N
<1>13. Sums(table', p)[N] = Sums(table, p)[N]
    BY <1>8, <1>11, <1>12, SameSums
<1>14. /\ \A n \in 1..N : /\ table'[p + n].kind = "line"
                          /\ table'[p + n].device = device_id /\ table'[p + n].test = n
       /\ table'[p + N + 1].kind = "avg" /\ table'[p + N + 1].device = device_id
       /\ table'[p + N + 1].sum = Sums(table', p)[N]
    BY <1>2, <1>4, <1>5, <1>6, <1>9, <1>11, <1>13
<1>15. ASSUME NEW d \in First..device_id
       PROVE  IsReport(At(d), d)'
  <2>1. CASE d = device_id
    <3>1. At(d)' = p
        BY <1>7, <2>1 DEF p
    <3> QED BY <1>14, <2>1, <3>1 DEF IsReport, N
  <2>2. CASE d # device_id
    <3> DEFINE q == At(d)
    <3>1. d \in First..(device_id - 1)
        BY <1>3, <2>2
    <3>2. q \in Nat /\ q + Size <= Len(table) /\ IsReport(q, d)
        BY <1>3, <1>4, <1>8, <1>9, <3>1
    <3>3. PICK r \in Nat : r = q
        BY <3>2
    <3>4. IsReport(r, d)'
        BY <1>3, <1>6, <3>2, <3>3, ReportKept
    <3> QED BY <1>7, <3>3, <3>4 DEF IsReport
  <2> QED BY <2>1, <2>2
<1>16. At(device_id)' = p + Size
  <2>1. At(device_id)' = (device_id' - First') * Size
      BY DEF At, Size
  <2> QED BY <1>1, <1>7, <1>8, <2>1 DEF At
<1>17. First <= device_id + 1 /\ device_id + 1 <= upper_id
  <2>1. upper_id \in Int
      BY <1>3, <1>4, TableType
  <2> QED BY <1>3, <1>4, <2>1
<1>18. (device_id + 1) - 1 = device_id
    BY <1>3
<1> QED BY <1>1, <1>3, <1>4, <1>6, <1>7, <1>9, <1>15, <1>16, <1>17, <1>18
        DEF TableInv, Running

\* A line goes on with the device's report.
LEMMA ReportTable ==
    ASSUME MainInv, TableInv, Report
    PROVE  TableInv'
<1> DEFINE s == Sorted(durations)
           e == [kind |-> "line", device |-> device_id, test |-> t,
                 duration |-> s[Launches \div 2], delta |-> s[1] - s[Launches],
                 launches |-> Often(durations), spoilt |-> spoilt]
           p == At(device_id)
           N == Len(Tests)
<1>1. /\ stage = "launch" /\ stage' = "test" /\ t' = t + 1
      /\ table' = Append(table, e) /\ sum' = sum + e.duration
      /\ UNCHANGED <<asked, upper_id, num_devices, device_id>>
    BY DEF Report, enumeration, vars
<1>2. e.kind = "line" /\ e.device = device_id /\ e.test = t
    OBVIOUS
<1> HIDE DEF e, s
<1>3. /\ device_id \in Int /\ t \in Nat \ {0} /\ First \in Int /\ asked \in Int
      /\ table \in Seq(Range(table)) /\ Len(table) \in Nat
      /\ N \in Nat /\ Size = N + 1 /\ Size \in Nat \ {0}
    BY TableType, TestsType
<1>4. /\ First <= device_id /\ device_id < upper_id /\ t < Size
      /\ upper_id = First + Number
      /\ Len(table) = p + (t - 1)
      /\ \A n \in 1..(t - 1) :
           LET l == table[p + n]
           IN  l.kind = "line" /\ l.device = device_id /\ l.test = n
      /\ sum = Sums(table, p)[t - 1]
      /\ \A d \in First..(device_id - 1) : IsReport(At(d), d)
    BY <1>1 DEF TableInv, Running
<1>5. /\ table' \in Seq(Range(table')) /\ Len(table') = Len(table) + 1
      /\ table'[Len(table) + 1] = e
      /\ \A n \in 1..Len(table) : table'[n] = table[n]
    BY <1>1, <1>3, LineMore
<1>6. First' = First /\ Number' = Number /\ \A d : At(d)' = At(d)
    BY <1>1 DEF First, Number, At
<1>7. /\ p \in Nat
      /\ \A d \in First..(device_id - 1) : At(d) \in Nat /\ At(d) + Size <= p
    BY <1>3, <1>4, Positions DEF At
<1>8. At(device_id)' = p
    BY <1>1, <1>6 DEF At, Size
<1> HIDE DEF p, N
<1>9. /\ Len(table) + 1 = p + t /\ Len(table') = p + ((t + 1) - 1)
      /\ (t + 1) - 1 = t /\ t \in 1..Len(Tests) /\ t - 1 \in 0..Len(Tests)
      /\ p <= Len(table)
    BY <1>3, <1>4, <1>5, <1>7, SMTT(30) DEF N
<1>10. \A n \in 1..(t - 1) : p + n \in 1..Len(table)
    BY <1>3, <1>4, <1>7
<1>11. \A n \in 1..(t - 1) : table'[p + n] = table[p + n]
    BY <1>5, <1>10
<1>12. table'[p + t] = e
    BY <1>5, <1>9
<1>13. Sums(table', p)[t - 1] = Sums(table, p)[t - 1]
  <2> DEFINE m == t - 1
  <2>1. m \in 0..Len(Tests) /\ \A n \in 1..m : table'[p + n] = table[p + n]
      BY <1>9, <1>11
  <2> HIDE DEF m
  <2>2. Sums(table', p)[m] = Sums(table, p)[m]
      BY <1>7, <2>1, SameSums, ZenonT(40)
  <2> QED BY <2>2 DEF m
<1>14. sum' = Sums(table', p)[t]
  <2>1. Sums(table', p)[t] = Sums(table', p)[t - 1] + table'[p + t].duration
      BY <1>9, SumsAre
  <2> QED BY <1>1, <1>4, <1>12, <1>13, <2>1
<1>15. ASSUME NEW n \in 1..t
       PROVE  LET l == table'[p + n]
              IN  l.kind = "line" /\ l.device = device_id /\ l.test = n
  <2>1. n \in 1..(t - 1) \/ n = t
      BY <1>3
  <2> QED BY <1>2, <1>4, <1>11, <1>12, <2>1
<1>16. ASSUME NEW d \in First..(device_id - 1)
       PROVE  IsReport(At(d), d)'
  <2> DEFINE q == At(d)
  <2>1. q \in Nat /\ q + Size <= Len(table) /\ IsReport(q, d)
      BY <1>3, <1>4, <1>7, <1>9, SMTT(30)
  <2>2. PICK r \in Nat : r = q
      BY <2>1
  <2>3. IsReport(r, d)'
      BY <1>3, <1>5, <2>1, <2>2, ReportKept
  <2> QED BY <1>6, <2>2, <2>3 DEF IsReport
<1>17. t + 1 <= Size
    BY <1>3, <1>4
<1>18. device_id' <= upper_id' \/ device_id' = First'
    BY <1>1, <1>3, <1>4, TableType, SMTT(30)
<1> QED BY <1>1, <1>3, <1>4, <1>5, <1>6, <1>8, <1>9, <1>14, <1>15, <1>16, <1>17, <1>18
        DEF TableInv, Running

\* Every step keeps the table in order.
LEMMA TableStep ==
    MainInv /\ TableInv /\ [OverheadsNext]_all => TableInv'
<1> SUFFICES ASSUME MainInv, TableInv, [OverheadsNext]_all
             PROVE  TableInv'
    OBVIOUS
<1>0. /\ device_id \in Int /\ t \in Nat \ {0} /\ First \in Int /\ asked \in Int
      /\ Number \in Int
      /\ table \in Seq(Range(table)) /\ Len(table) \in Nat
      /\ Len(Tests) \in Nat /\ Size = Len(Tests) + 1 /\ Size \in Nat \ {0}
    BY TableType, TestsType
<1> DEFINE Same == UNCHANGED <<table, asked, upper_id, num_devices>>
<1>1. ASSUME Same
      PROVE  /\ First' = First /\ Number' = Number /\ \A d : At(d)' = At(d)
             /\ \A d : IsReport(At(d), d) => IsReport(At(d), d)'
  <2>1. First' = First /\ Number' = Number /\ \A d : At(d)' = At(d)
      BY <1>1 DEF First, Number, At
  <2>2. ASSUME NEW d, IsReport(At(d), d)
        PROVE  IsReport(At(d), d)'
      BY <1>1, <2>2, SameReports
  <2> QED BY <2>1, <2>2
<1>2. CASE Options
  <2>1. /\ stage = "options" /\ stage' \in {"exit", "enumerate"}
        /\ device_id' \in (-2)..MaxId /\ asked' = device_id' /\ table' = table
      BY <1>2 DEF Options
  <2>2. asked' \in Int
      BY <2>1, OverheadsAssumption
  <2> QED BY <1>0, <2>1, <2>2 DEF TableInv, Running
<1>3. CASE Enumerate
  <2>1. stage \in {"enumerate", "elsewhere"}
        /\ UNCHANGED <<stage, table, asked, device_id>>
      BY <1>3 DEF Enumerate, main
  <2> QED BY <1>0, <2>1 DEF TableInv, Running
<1>4. CASE LoopRange
  <2>1. /\ stage = "enumerate" /\ stage' \in {"exit", "device"}
        /\ table' = table /\ asked' = asked /\ num_devices' = num_devices
      BY <1>4 DEF LoopRange, enumeration, vars
  <2>2. table = << >> /\ device_id = asked
      BY <2>1 DEF TableInv
  <2>3. First' = First /\ Number' = Number
      BY <2>1 DEF First, Number
  <2>4. device_id' = First /\ upper_id' = First + Number
    <3>1. AsInt(num_devices) \in Int
        BY TableType
    <3> QED BY <1>0, <1>4, <2>2, <3>1 DEF LoopRange, First, Number
  <2>5. Len(table) = 0
      BY <2>2, EmptySeq
  <2>6. At(device_id)' = 0
    <3>1. At(device_id)' = (device_id' - First') * Size
        BY DEF At, Size
    <3>2. First - First = 0 /\ 0 * Size = 0
        BY <1>0
    <3> QED BY <2>3, <2>4, <3>1, <3>2
  <2>7. First..(First - 1) = {} /\ First <= First
      BY <1>0
  <2> QED BY <1>0, <2>1, <2>2, <2>3, <2>4, <2>5, <2>6, <2>7 DEF TableInv, Running
<1>5. CASE OpenDevice
  <2>1. /\ stage = "device" /\ device_id < upper_id
        /\ stage' \in {"exit", "crash", "test"} /\ t' = 1 /\ sum' = 0
        /\ Same /\ device_id' = device_id
      BY <1>5 DEF OpenDevice, Quiet
  <2>2. /\ upper_id = First + Number /\ First <= device_id
        /\ \A d \in First..(device_id - 1) : IsReport(At(d), d)
        /\ Len(table) = At(device_id)
      BY <2>1 DEF TableInv, Running
  <2>3. At(device_id)' = At(device_id)
      BY <1>1, <2>1 DEF At, Size
  <2>4. Sums(table, At(device_id))[0] = 0
      BY SumsAre
  <2>5. /\ 1 - 1 = 0 /\ 1..0 = {} /\ 1 <= Size
        /\ Len(table) + 0 = Len(table) /\ device_id <= upper_id
      BY <1>0, <2>1, <2>2
  <2>6. CASE stage' = "test"
    <3>1. /\ First' = First /\ Number' = Number
          /\ \A d \in First..(device_id - 1) : IsReport(At(d), d)'
        BY <1>1, <2>1, <2>2
    <3>2. table' \in Seq(Range(table')) /\ asked' \in Int
        BY <1>0, <2>1
    <3> QED BY <2>1, <2>2, <2>3, <2>4, <2>5, <2>6, <3>1, <3>2 DEF TableInv, Running
  <2>7. CASE stage' \in {"exit", "crash"}
      BY <1>0, <2>1, <2>7 DEF TableInv, Running
  <2> QED BY <2>1, <2>6, <2>7
<1>6. CASE CloseDevice BY <1>6, CloseTable
<1>7. CASE Exit
  <2>1. /\ stage = "device" /\ stage' = "end" /\ device_id >= upper_id
        /\ Same /\ device_id' = device_id
      BY <1>7 DEF Exit, enumeration, vars
  <2>2. At(device_id)' = At(device_id) /\ First' = First /\ Number' = Number
      BY <1>1, <2>1 DEF At, Size
  <2>3. /\ upper_id = First + Number /\ First <= device_id
        /\ device_id <= upper_id \/ device_id = First
        /\ \A d \in First..(device_id - 1) : IsReport(At(d), d)
        /\ Len(table) = At(device_id)
      BY <2>1 DEF TableInv, Running
  <2>4. \A d \in First..(device_id - 1) : IsReport(At(d), d)'
      BY <1>1, <2>1, <2>3
  <2>5. table' \in Seq(Range(table')) /\ asked' \in Int
      BY <1>0, <2>1
  <2> QED BY <2>1, <2>2, <2>3, <2>4, <2>5 DEF TableInv, Running
<1>8. ASSUME stage \in {"test", "launch"}, stage' \in {"launch", "exit"},
             stage' = "launch" => t < Size,
             Same, UNCHANGED <<device_id, t, sum>>
      PROVE  TableInv'
  <2>1. table' \in Seq(Range(table')) /\ asked' \in Int
      BY <1>0, <1>8
  <2>2. CASE stage' = "exit"
      BY <2>1, <2>2 DEF TableInv, Running
  <2>3. CASE stage' = "launch"
    <3>1. At(device_id)' = At(device_id) /\ First' = First /\ Number' = Number
        BY <1>1, <1>8 DEF At, Size
    <3>2. /\ upper_id = First + Number /\ First <= device_id
          /\ device_id <= upper_id \/ device_id = First
          /\ \A d \in First..(device_id - 1) : IsReport(At(d), d)
          /\ device_id < upper_id /\ t <= Size
          /\ Len(table) = At(device_id) + (t - 1)
          /\ \A n \in 1..(t - 1) :
               LET l == table[At(device_id) + n]
               IN  l.kind = "line" /\ l.device = device_id /\ l.test = n
          /\ sum = Sums(table, At(device_id))[t - 1]
        BY <1>8 DEF TableInv, Running
    <3>3. \A d \in First..(device_id - 1) : IsReport(At(d), d)'
        BY <1>1, <1>8, <3>2
    <3> QED BY <1>8, <2>1, <2>3, <3>1, <3>2, <3>3 DEF TableInv, Running
  <2> QED BY <1>8, <2>2, <2>3
<1>9. CASE Prepare
  <2>1. /\ stage = "test" /\ t <= Len(Tests) /\ stage' \in {"launch", "exit"}
        /\ Same /\ UNCHANGED <<device_id, t, sum>>
      BY <1>9 DEF Prepare, Failure, Quiet
  <2>2. t < Size
      BY <1>0, <2>1
  <2> HIDE DEF Same
  <2> QED BY <1>8, <2>1, <2>2
<1>10. CASE Launch
  <2>1. /\ stage = "launch" /\ stage' \in {"launch", "exit"}
        /\ Same /\ UNCHANGED <<device_id, t, sum>>
      BY <1>10 DEF Launch, Failure, Quiet
  <2>2. t < Size
      BY <2>1 DEF TableInv
  <2> HIDE DEF Same
  <2> QED BY <1>8, <2>1, <2>2
<1>11. CASE Report BY <1>11, ReportTable
<1>12. CASE UNCHANGED all
  <2>1. Same /\ UNCHANGED <<stage, device_id, t, sum>>
      BY <1>12 DEF all, main, enumeration, vars
  <2>2. At(device_id)' = At(device_id) /\ First' = First /\ Number' = Number
      BY <1>1, <2>1 DEF At, Size
  <2>3. \A d \in First..(device_id - 1) : stage \in Running => IsReport(At(d), d)'
    <3>1. stage \in Running => \A d \in First..(device_id - 1) : IsReport(At(d), d)
        BY DEF TableInv
    <3> QED BY <1>1, <2>1, <3>1
  <2>4. table' \in Seq(Range(table')) /\ asked' \in Int
      BY <1>0, <2>1
  <2> QED BY <2>1, <2>2, <2>3, <2>4 DEF TableInv
<1> QED BY <1>2, <1>3, <1>4, <1>5, <1>6, <1>7, <1>9, <1>10, <1>11, <1>12
        DEF OverheadsNext

\* At the end all reports are there.
LEMMA AllReported ==
    ASSUME MainInv, TableInv, stage = "end"
    PROVE  LET Asked == IF asked = -1 THEN 0..(AsInt(num_devices) - 1) ELSE {asked}
               size  == Len(Tests) + 1
           IN  /\ Len(table) = Cardinality(Asked) * size
               /\ \A d \in Asked : IsReport(IF asked = -1 THEN d * size ELSE 0, d)
<1>0. /\ device_id \in Int /\ First \in Int /\ asked \in Int /\ Number \in Int
      /\ AsInt(num_devices) \in Int
      /\ Size = Len(Tests) + 1 /\ Size \in Nat \ {0}
    BY TableType, TestsType
<1>1. /\ upper_id = First + Number /\ First <= device_id
      /\ device_id <= upper_id \/ device_id = First
      /\ \A d \in First..(device_id - 1) : IsReport(At(d), d)
      /\ Len(table) = (device_id - First) * Size
      /\ device_id >= upper_id
    BY DEF TableInv, Running, At
<1>2. CASE asked = -1
  <2> DEFINE M == AsInt(num_devices)
  <2>1. First = 0 /\ Number = M
      BY <1>2 DEF First, Number
  <2> HIDE DEF M
  <2>2. device_id = IF M < 0 THEN 0 ELSE M
      BY <1>0, <1>1, <2>1
  <2>3. Cardinality(0..(M - 1)) = device_id
    <3>1. M - 1 \in Int /\ 0 \in Int
        BY <1>0, <2>1
    <3>2. Cardinality(0..(M - 1)) = IF 0 > M - 1 THEN 0 ELSE (M - 1) - 0 + 1
        BY <3>1, FS_Interval
    <3> QED BY <1>0, <2>1, <2>2, <3>2
  <2>4. \A d \in 0..(M - 1) : d \in First..(device_id - 1) /\ At(d) = d * Size
    <3> TAKE d \in 0..(M - 1)
    <3>1. d \in First..(device_id - 1) /\ d - First = d
        BY <1>0, <2>1, <2>2
    <3> QED BY <3>1 DEF At
  <2>5. \A d \in 0..(M - 1) : IsReport(d * Size, d)
      BY <1>1, <2>4
  <2>6. Len(table) = Cardinality(0..(M - 1)) * Size
    <3>1. device_id - First = device_id
        BY <1>0, <2>1
    <3> QED BY <1>1, <2>3, <3>1
  <2> QED BY <1>0, <1>2, <2>5, <2>6 DEF M
<1>3. CASE asked # -1
  <2>1. First = asked /\ Number = 1
      BY <1>3 DEF First, Number
  <2>2. device_id = asked + 1 /\ device_id - First = 1 /\ 1 * Size = Size
      BY <1>0, <1>1, <2>1
  <2>3. Cardinality({asked}) = 1
    <3>1. asked..asked = {asked} /\ ~(asked > asked) /\ asked - asked + 1 = 1
        BY <1>0
    <3> QED BY <1>0, <3>1, FS_Interval
  <2>4. asked \in First..(device_id - 1) /\ At(asked) = 0
    <3>1. asked \in First..(device_id - 1) /\ asked - First = 0 /\ 0 * Size = 0
        BY <1>0, <2>1, <2>2
    <3> QED BY <3>1 DEF At
  <2>5. IsReport(0, asked)
      BY <1>1, <2>4
  <2> QED BY <1>0, <1>1, <1>3, <2>2, <2>3, <2>5
<1> QED BY <1>2, <1>3
-----------------------------------------------------------------------------
(* Theorems.                                                               *)

\* get_all_devices: when every count of a platform with devices succeeded,
\* the list is exactly that of the devices delivered, and num_devices its
\* length, for every system and whatever else fails.
THEOREM ListExact == OverheadsSpec => []ListIsExact
<1>1. MainInv => ListIsExact
    BY ListComplete DEF MainInv, EnumInv, ListInv, Enumerated, ListIsExact
<1> QED BY <1>1, Invariance, PTL

\* main and get_all_devices: memory outside of the lists is accessed only
\* without the list of platforms or after a count that failed, and a device
\* number given is used without a device only when it is one behind the last.
THEOREM NumbersInBounds == OverheadsSpec => []OneBehindAtMost
<1>1. MainInv => OneBehindAtMost
    BY DEF MainInv, EnumInv, StageInv, OneBehindAtMost
<1> QED BY <1>1, Invariance, PTL

\* run_kernel_benchmark: only buffers, their arrays and events but a test's
\* last pile up, for every list of tests and number of devices and launches.
THEOREM BuffersAndEventsPileUp == OverheadsSpec => []OnlyBuffersAndEventsPileUp
<1>1. MainInv => OnlyBuffersAndEventsPileUp
  <2> SUFFICES ASSUME MainInv, stage \in {"test", "device", "end"}, NEW h \in held
               PROVE  \/ h[1] \in {"context", "queue"} /\ stage = "test" /\ h[2] = device_id
                      \/ h[1] \in {"buffer", "mem_args"}
                      \/ h[1] = "event" /\ h[4] < Launches
      BY DEF OnlyBuffersAndEventsPileUp
  <2>1. \/ h[1] \in {"context", "queue"} /\ stage = "test" /\ h = <<h[1], device_id>>
        \/ h[1] \in {"buffer", "mem_args"}
        \/ h[1] = "event" /\ h[4] < Launches
      BY DEF MainInv, HeldInv
  <2> QED BY <2>1
<1> QED BY <1>1, Invariance, PTL

\* gen_kernel: for every list of tests with even numbers of lines, as those
\* of testdata_loc.h all are, each kernel launched has as many statements as
\* its test's line says, no if without a statement, and none under another.
THEOREM KernelsAreWellFormed == OverheadsSpec => []KernelIsWellFormed
<1>1. OverheadsInit => BodyInv
    BY DEF OverheadsInit, BodyInv
<1>2. MainInv /\ BodyInv => KernelIsWellFormed
  <2> SUFFICES ASSUME MainInv, BodyInv, stage = "launch"
               PROVE  /\ \A n \in 1..Len(body) :
                           body[n] = "if" => n < Len(body) /\ body[n + 1] # "if"
                      /\ Cardinality(Plain(body)) = Tests[t].lines
      BY DEF KernelIsWellFormed, Plain
  <2>1. t \in DOMAIN Tests /\ body = Body(Tests[t].lines)
      BY DEF BodyInv
  <2>2. Tests[t].lines \in Nat \ {0} /\ Tests[t].lines % 2 = 0
    <3>1. Tests[t] \in [args : Nat, lines : Nat]
      <4> DEFINE R == [args : Nat, lines : Nat]
      <4>1. Tests \in Seq(R)
          BY OverheadsAssumption
      <4> HIDE DEF R
      <4>2. Tests \in [1..Len(Tests) -> R] /\ DOMAIN Tests = 1..Len(Tests)
          BY <4>1, LenProperties
      <4> QED BY <2>1, <4>2 DEF R
    <3> QED BY <2>1, <3>1, OverheadsAssumption
  <2>3. WellFormed(body, Tests[t].lines, FALSE)
      BY <2>1, <2>2, BodyWellFormed
  <2> QED BY <2>3 DEF WellFormed
<1> QED BY <1>1, <1>2, BodyStep, Invariance, PTL DEF OverheadsSpec

\* main, run_kernel_benchmark: for every list of tests, even number of
\* launches, list of devices and number asked for, a line of which no wait or
\* query failed is the median of its launches; and at the end the table is
\* the reports of the devices asked for: a line of every test, in order, and
\* the sum of them.
THEOREM DevicesAreMeasured == OverheadsSpec => []EveryDeviceMeasured
<1> DEFINE Inv == MainInv /\ TableInv /\ MedianInv
<1>1. OverheadsInit => Inv
  <2> SUFFICES ASSUME OverheadsInit PROVE Inv
      OBVIOUS
  <2>1. MainInv
      BY MainInit
  <2>2. /\ asked = 0 /\ table = << >> /\ stage \in {"options", "elsewhere"}
      BY DEF OverheadsInit, HostInit
  <2>3. table \in Seq(Range(table)) /\ Len(table) = 0
      BY <2>2, EmptySeq
  <2>4. TableInv
      BY <2>2, <2>3 DEF TableInv, Running
  <2>5. MedianInv
      BY <2>2, <2>3 DEF MedianInv
  <2> QED BY <2>1, <2>4, <2>5
<1>2. Inv /\ [OverheadsNext]_all => Inv'
    BY MainStep, TableStep, MedianStep
<1>3. Inv => EveryDeviceMeasured
  <2> SUFFICES ASSUME Inv PROVE EveryDeviceMeasured
      OBVIOUS
  <2>1. \A n \in 1..Len(table) :
          table[n].kind = "line" /\ ~table[n].spoilt => IsMedian(table[n])
      BY DEF MedianInv
  <2>2. CASE stage = "end"
      BY <2>1, <2>2, AllReported DEF EveryDeviceMeasured
  <2>3. CASE stage # "end"
      BY <2>1, <2>3 DEF EveryDeviceMeasured
  <2> QED BY <2>2, <2>3
<1> HIDE DEF Inv
<1> QED BY <1>1, <1>2, <1>3, PTL DEF OverheadsSpec
=============================================================================
