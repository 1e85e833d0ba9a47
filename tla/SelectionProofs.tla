--------------------------- MODULE SelectionProofs ---------------------------
(***************************************************************************)
(* Proofs about Selection, for every number of devices, length of a row,   *)
(* lists and number of failing calls: what the lists ask for is what is    *)
(* measured, and what an overrun of the arrays takes.                      *)
(***************************************************************************)
EXTENDS Selection, SequenceTheorems, FiniteSetTheorems, TLAPS

\* What a list holds.
Tokens == Nat \cup {Invalid}

\* Behind the lists.
Running == {"prepare", "measure", "release", "error", "exit"}

\* How much of the list of devices has been read.
NumRead == Len(deviceList) - Len(devices_str)

\* The c-th entry is the c-th device named so far.
HoldsNamed(r) ==
    /\ Len(used_devices) = Cardinality(NamedUpTo(r))
    /\ \A c \in 1..Len(used_devices) : \E n \in NamedUpTo(r) :
          Cardinality(NamedUpTo(n)) = c /\ used_devices[c] = deviceList[n]

(* What the variables hold.                                                *)
TypeInv ==
    /\ deviceList \in DeviceLists /\ sizeList \in SizeLists
    /\ pc \in {"devices", "allocate", "sizes", "rejected", "overrun"} \cup Running
    /\ devices_str \in Seq(Tokens) /\ sizes_str \in Seq(Tokens)
    /\ used_devices \in Seq(0..(NumDevices - 1))
    /\ num_sizes \in Nat /\ dev \in Nat /\ j \in Nat
    /\ measured \in Seq([device : 0..(NumDevices - 1), size : Tokens,
                         entry  : Nat, queue : Nat \cup {NULL}])
    /\ commands \in Nat \cup {NULL}

(* The first list is read from its front, and the array follows it.        *)
DevicesInv ==
    /\ pc = "devices" /\ deviceList = NotGiven => used_devices = << >>
    /\ pc = "devices" /\ deviceList # NotGiven =>
         /\ Len(devices_str) <= Len(deviceList)
         /\ \A n \in 1..Len(devices_str) : devices_str[n] = deviceList[NumRead + n]
         /\ HoldsNamed(NumRead)
    /\ pc \in {"allocate", "sizes"} \cup Running => used_devices = RequestedDevices

(* So is the second one, and the rows follow it.                           *)
SizesInv ==
    /\ pc \in {"devices", "allocate"} =>
         /\ num_sizes = 0
         /\ sizes_str = IF sizeList = NotGiven THEN << >> ELSE sizeList
    /\ pc = "sizes" =>
         /\ sizeList = NotGiven => sizes_str = << >> /\ num_sizes = 0
         /\ sizeList # NotGiven =>
              /\ Len(sizeList) = num_sizes + Len(sizes_str)
              /\ \A n \in 1..Len(sizes_str) : sizes_str[n] = sizeList[num_sizes + n]
    /\ pc \in {"sizes"} \cup Running =>
         /\ DOMAIN sizes = 0..((MAX_SIZES * used_num_devices) - 1)
         /\ used_num_devices > 0 => num_sizes <= MAX_SIZES
         /\ \A d \in 0..(used_num_devices - 1) : \A n \in 0..(num_sizes - 1) :
               sizes[At(n, d)] = RequestedSizes[n + 1]
    /\ pc \in Running => num_sizes = Len(RequestedSizes)

(* The measurements are those of the first devices with all the sizes and  *)
(* of this one with the first sizes, and a device left behind was measured *)
(* with its own queue.                                                     *)
MeasuredInv ==
    /\ pc \notin Running => measured = << >> /\ dev = 0 /\ j = 0 /\ live = {}
    /\ pc \in Running =>
         /\ dev <= used_num_devices /\ j <= num_sizes
         /\ \A n \in 1..Len(measured) : Done[n] = Requested[n]
    /\ pc \in {"prepare", "exit"} =>
         /\ Len(measured) = dev * num_sizes
         /\ live = {}
         /\ \A n \in 1..Len(measured) : measured[n].entry < dev
    /\ pc = "exit" => dev = used_num_devices
    /\ pc \in {"measure", "release", "error"} =>
         /\ dev < used_num_devices
         /\ Len(measured) = (dev * num_sizes) + j
         /\ live \subseteq {dev}
         /\ \A n \in 1..Len(measured) :
               /\ measured[n].entry \in 0..dev
               /\ measured[n].entry = dev => measured[n].queue = commands
    /\ pc = "release" => j = num_sizes
    /\ \A n \in 1..Len(measured) :
          measured[n].entry < dev => measured[n].queue = measured[n].entry

(* An overrun array has its reason.                                        *)
OverrunInv == OverrunOnlyByLongLists

MainInv == TypeInv /\ DevicesInv /\ SizesInv /\ MeasuredInv /\ OverrunInv
------------------------------------------------------------------------------
(* Arithmetic: rows of an array, and lines of a table.                     *)

\* A product grows with its factor.
LEMMA Product ==
    \A m \in Nat : \A a, b \in Int :
        /\ a * m \in Int
        /\ a <= b => a * m <= b * m
        /\ (a + 1) * m = (a * m) + m
<1> SUFFICES ASSUME NEW m \in Nat, NEW a \in Int, NEW b \in Int
             PROVE  /\ a * m \in Int
                    /\ a <= b => a * m <= b * m
                    /\ (a + 1) * m = (a * m) + m
    OBVIOUS
<1>1. a * m \in Int /\ b * m \in Int /\ (a + 1) * m = (a * m) + m
    OBVIOUS
<1>2. ASSUME a <= b PROVE a * m <= b * m
  <2>1. PICK x \in Nat : b = a + x
    <3>1. b - a \in Nat /\ b = a + (b - a)
        BY <1>2
    <3> QED BY <3>1
  <2>2. b * m = (a * m) + (x * m) /\ x * m \in Nat
      BY <2>1
  <2> QED BY <1>1, <2>2
<1> QED BY <1>1, <1>2

\* Row and column of a cell.
LEMMA RowColumn ==
    \A m \in Nat \ {0} : \A d \in Nat, n \in 0..(m - 1) :
        ((d * m) + n) \div m = d /\ ((d * m) + n) % m = n
<1> SUFFICES ASSUME NEW m \in Nat \ {0}, NEW d \in Nat, NEW n \in 0..(m - 1)
             PROVE  ((d * m) + n) \div m = d /\ ((d * m) + n) % m = n
    OBVIOUS
<1> QED OBVIOUS

\* A cell of a row within the array is one of the array.
LEMMA InRows ==
    \A m, u \in Nat : \A d \in 0..(u - 1), n \in 0..(m - 1) :
        (d * m) + n \in 0..((u * m) - 1)
<1> SUFFICES ASSUME NEW m \in Nat, NEW u \in Nat, NEW d \in 0..(u - 1), NEW n \in 0..(m - 1)
             PROVE  (d * m) + n \in 0..((u * m) - 1)
    OBVIOUS
<1>1. (d + 1) * m <= u * m /\ (d + 1) * m = (d * m) + m
    BY Product
<1>2. d * m \in Nat /\ u * m \in Int
    OBVIOUS
<1> QED BY <1>1, <1>2

\* Cells of different columns are different.
LEMMA AtOnce ==
    \A n1, n2 \in 0..(MAX_SIZES - 1) : \A d1, d2 \in Nat :
        At(n1, d1) = At(n2, d2) => n1 = n2 /\ d1 = d2
<1> SUFFICES ASSUME NEW n1 \in 0..(MAX_SIZES - 1), NEW n2 \in 0..(MAX_SIZES - 1),
                    NEW d1 \in Nat, NEW d2 \in Nat, At(n1, d1) = At(n2, d2)
             PROVE  n1 = n2 /\ d1 = d2
    OBVIOUS
<1>1. MAX_SIZES \in Nat \ {0}
    BY SelectionAssumption
<1>2. At(n1, d1) = (d1 * MAX_SIZES) + n1 /\ At(n2, d2) = (d2 * MAX_SIZES) + n2
    BY <1>1 DEF At
<1>3. /\ ((d1 * MAX_SIZES) + n1) \div MAX_SIZES = d1
      /\ ((d1 * MAX_SIZES) + n1) % MAX_SIZES = n1
    BY <1>1, RowColumn
<1>4. /\ ((d2 * MAX_SIZES) + n2) \div MAX_SIZES = d2
      /\ ((d2 * MAX_SIZES) + n2) % MAX_SIZES = n2
    BY <1>1, RowColumn
<1>5. (d1 * MAX_SIZES) + n1 = (d2 * MAX_SIZES) + n2
    BY <1>2
<1> QED BY <1>3, <1>4, <1>5, Zenon
------------------------------------------------------------------------------
(* The list of devices.                                                    *)

\* One more token is named or not.
LEMMA NamedStep ==
    ASSUME NEW r \in Nat, r < Len(deviceList)
    PROVE  /\ NamedUpTo(r + 1) = IF deviceList[r + 1] \in 0..(NumDevices - 1)
                                 THEN NamedUpTo(r) \cup {r + 1} ELSE NamedUpTo(r)
           /\ r + 1 \notin NamedUpTo(r)
           /\ NamedUpTo(r) \subseteq NamedUpTo(r + 1)
  BY DEF NamedUpTo

\* Those named are finitely many.
LEMMA NamedFinite ==
    ASSUME NEW r \in Nat
    PROVE  IsFiniteSet(NamedUpTo(r)) /\ Cardinality(NamedUpTo(r)) \in Nat
<1>1. IsFiniteSet(1..r)
    BY FS_Interval
<1>2. NamedUpTo(r) \in SUBSET (1..r)
    BY DEF NamedUpTo
<1> QED BY <1>1, <1>2, FS_Subset, FS_CardinalityType

\* Their number tells them apart.
LEMMA NamedOrder ==
    ASSUME NEW n \in Named, NEW m \in Named,
           Cardinality(NamedUpTo(m)) = Cardinality(NamedUpTo(n))
    PROVE  m = n
<1>1. ASSUME NEW a \in Named, NEW b \in Named, a < b
      PROVE  Cardinality(NamedUpTo(a)) < Cardinality(NamedUpTo(b))
  <2>1. a \in Nat /\ b \in Nat
      BY DEF Named, NamedUpTo
  <2>2. IsFiniteSet(NamedUpTo(b)) /\ IsFiniteSet(NamedUpTo(a))
        /\ Cardinality(NamedUpTo(a)) \in Nat /\ Cardinality(NamedUpTo(b)) \in Nat
      BY <2>1, NamedFinite
  <2>3. NamedUpTo(a) \subseteq NamedUpTo(b)
      BY <1>1, <2>1 DEF NamedUpTo
  <2>4. b \in NamedUpTo(b) /\ b \notin NamedUpTo(a)
      BY <1>1, <2>1 DEF Named, NamedUpTo
  <2>5. Cardinality(NamedUpTo(a)) <= Cardinality(NamedUpTo(b))
        /\ Cardinality(NamedUpTo(a)) # Cardinality(NamedUpTo(b))
      BY <2>2, <2>3, <2>4, FS_Subset
  <2> QED BY <2>2, <2>5
<1>2. m \in Nat /\ n \in Nat
    BY DEF Named, NamedUpTo
<1>3. Cardinality(NamedUpTo(m)) \in Nat
    BY <1>2, NamedFinite
<1> QED BY <1>1, <1>2, <1>3

\* With as many devices named as there are and one more, one is named twice.
LEMMA TwiceNamed ==
    ASSUME NEW r \in Nat, Cardinality(NamedUpTo(r)) > NumDevices
    PROVE  \E m, n \in 1..Len(deviceList) :
              m # n /\ deviceList[m] = deviceList[n] /\ deviceList[m] # Invalid
<1> DEFINE name == [n \in NamedUpTo(r) |-> deviceList[n]]
<1>1. name \in [NamedUpTo(r) -> 0..(NumDevices - 1)]
    BY DEF NamedUpTo
<1>2. IsFiniteSet(0..(NumDevices - 1)) /\ Cardinality(0..(NumDevices - 1)) = NumDevices
    BY FS_Interval, SelectionAssumption
<1>3. IsFiniteSet(NamedUpTo(r))
    BY NamedFinite
<1> HIDE DEF name
<1>4. PICK m, n \in NamedUpTo(r) : m # n /\ name[m] = name[n]
    BY <1>1, <1>2, <1>3, FS_PigeonHole, ZenonT(30)
<1>5. deviceList[m] = deviceList[n] /\ deviceList[m] # Invalid
    BY <1>4 DEF name, NamedUpTo, Invalid
<1>6. m \in 1..Len(deviceList) /\ n \in 1..Len(deviceList)
  <2>1. m \in 1..r /\ m <= Len(deviceList) /\ n \in 1..r /\ n <= Len(deviceList)
      BY DEF NamedUpTo
  <2> QED BY <2>1
<1> QED BY <1>4, <1>5, <1>6

\* Once it has been read, an array that follows the list is the request's.
LEMMA AllNamed ==
    ASSUME TypeInv, deviceList # NotGiven, HoldsNamed(Len(deviceList))
    PROVE  used_devices = RequestedDevices
<1> DEFINE c0 == Cardinality(Named)
<1>1. Len(used_devices) = c0
    BY DEF HoldsNamed, Named
<1>2. used_devices \in [1..c0 -> 0..(NumDevices - 1)]
    BY <1>1, LenProperties DEF TypeInv
<1>3. ASSUME NEW c \in 1..c0
      PROVE  used_devices[c]
               = deviceList[CHOOSE n \in Named : Cardinality(NamedUpTo(n)) = c]
  <2>1. PICK n \in Named : Cardinality(NamedUpTo(n)) = c /\ used_devices[c] = deviceList[n]
      BY <1>1 DEF HoldsNamed, Named
  <2>2. \A m \in Named : Cardinality(NamedUpTo(m)) = c => m = n
      BY <2>1, NamedOrder
  <2>3. (CHOOSE m \in Named : Cardinality(NamedUpTo(m)) = c) = n
      BY <2>1, <2>2
  <2> QED BY <2>1, <2>3
<1> QED BY <1>2, <1>3 DEF RequestedDevices
------------------------------------------------------------------------------
(* The steps over the list of devices.                                     *)

\* Lists are what the assumption says.
LEMMA ListType ==
    ASSUME TypeInv
    PROVE  /\ deviceList = NotGiven \/ deviceList \in Seq(Tokens)
           /\ sizeList = NotGiven \/ sizeList \in Seq(Tokens)
  BY SelectionAssumption DEF TypeInv, Tokens

\* Reading a token keeps the array abreast of the list.
LEMMA ReadDeviceKeeps ==
    ASSUME TypeInv, DevicesInv, ReadDevice
    PROVE  /\ used_devices' \in Seq(0..(NumDevices - 1))
           /\ pc' = "devices" =>
                /\ Len(devices_str') <= Len(deviceList)
                /\ \A n \in 1..Len(devices_str') :
                      devices_str'[n] = deviceList[NumRead' + n]
                /\ HoldsNamed(NumRead)'
           /\ pc' = "overrun" => OverrunOnlyByLongLists'
<1> USE SelectionAssumption
<1> DEFINE id == Head(devices_str)
           r  == NumRead
<1>1. /\ deviceList \in Seq(Tokens) /\ devices_str \in Seq(Tokens) /\ devices_str # << >>
      /\ Len(devices_str) <= Len(deviceList)
      /\ \A n \in 1..Len(devices_str) : devices_str[n] = deviceList[r + n]
      /\ HoldsNamed(r)
      /\ UNCHANGED <<deviceList, sizeList>> /\ devices_str' = Tail(devices_str)
    BY ListType DEF ReadDevice, DevicesInv, TypeInv
<1>2. /\ Len(devices_str) \in Nat \ {0} /\ Len(deviceList) \in Nat
      /\ devices_str' \in Seq(Tokens) /\ Len(devices_str') = Len(devices_str) - 1
      /\ \A n \in 1..Len(devices_str') : devices_str'[n] = devices_str[n + 1]
      /\ id = devices_str[1] /\ id \in Tokens
    BY <1>1, EmptySeq, LenProperties, HeadTailProperties
<1>3. /\ r \in Nat /\ r < Len(deviceList) /\ NumRead' = r + 1
      /\ id = deviceList[r + 1]
    BY <1>1, <1>2 DEF NumRead
<1> HIDE DEF r, id
<1>4. /\ Len(devices_str') <= Len(deviceList)
      /\ \A n \in 1..Len(devices_str') : devices_str'[n] = deviceList[NumRead' + n]
    BY <1>1, <1>2, <1>3
<1>5. /\ pc' = CASE id = Invalid -> "rejected"
                 [] id # Invalid /\ InList(id) /\ used_num_devices = NumDevices -> "overrun"
                 [] OTHER -> "devices"
      /\ used_devices' = IF pc' = "devices" /\ InList(id)
                         THEN Append(used_devices, id) ELSE used_devices
    BY DEF ReadDevice, id
<1>6. id # Invalid => (InList(id) <=> id \in 0..(NumDevices - 1))
    BY <1>2 DEF InList, Tokens
<1>7. \A n : NamedUpTo(n)' = NamedUpTo(n)
    BY <1>1 DEF NamedUpTo
<1>8. used_devices \in Seq(0..(NumDevices - 1)) /\ Len(used_devices) \in Nat
      /\ Len(used_devices) = Cardinality(NamedUpTo(r))
    BY <1>1, LenProperties DEF TypeInv, HoldsNamed
<1>9. CASE pc' = "devices" /\ InList(id)
  <2>1. id \in 0..(NumDevices - 1) /\ used_devices' = Append(used_devices, id)
      BY <1>5, <1>6, <1>9
  <2>2. /\ used_devices' \in Seq(0..(NumDevices - 1))
        /\ Len(used_devices') = Len(used_devices) + 1
        /\ \A c \in 1..Len(used_devices) : used_devices'[c] = used_devices[c]
        /\ used_devices'[Len(used_devices) + 1] = id
      BY <1>8, <2>1, AppendProperties
  <2>3. /\ NamedUpTo(r + 1) = NamedUpTo(r) \cup {r + 1}
        /\ r + 1 \notin NamedUpTo(r)
      BY <1>3, <2>1, NamedStep
  <2>4. Cardinality(NamedUpTo(r + 1)) = Len(used_devices) + 1
    <3>1. IsFiniteSet(NamedUpTo(r))
        BY <1>3, NamedFinite
    <3>2. Cardinality(NamedUpTo(r) \cup {r + 1}) = Cardinality(NamedUpTo(r)) + 1
        BY <2>3, <3>1, FS_AddElement
    <3> QED BY <1>8, <2>3, <3>2
  <2>5. ASSUME NEW c \in 1..Len(used_devices')
        PROVE  \E n \in NamedUpTo(r + 1) :
                  Cardinality(NamedUpTo(n)) = c /\ used_devices'[c] = deviceList[n]
    <3>1. CASE c \in 1..Len(used_devices)
      <4>1. PICK n \in NamedUpTo(r) :
               Cardinality(NamedUpTo(n)) = c /\ used_devices[c] = deviceList[n]
          BY <1>1, <3>1 DEF HoldsNamed
      <4>2. n \in NamedUpTo(r + 1) /\ used_devices'[c] = deviceList[n]
          BY <2>2, <2>3, <3>1, <4>1
      <4> QED BY <4>1, <4>2
    <3>2. CASE c = Len(used_devices) + 1
        BY <1>3, <2>2, <2>3, <2>4, <3>2
    <3> QED BY <1>8, <2>2, <2>5, <3>1, <3>2
  <2>6. HoldsNamed(NumRead)'
      BY <1>1, <1>3, <1>7, <2>2, <2>4, <2>5 DEF HoldsNamed
  <2> QED BY <1>4, <1>9, <2>2, <2>6
<1>10. CASE pc' = "devices" /\ ~InList(id)
  <2>1. id \notin 0..(NumDevices - 1) /\ used_devices' = used_devices
      BY <1>5, <1>6, <1>10
  <2>2. NamedUpTo(r + 1) = NamedUpTo(r)
      BY <1>3, <2>1, NamedStep
  <2>3. HoldsNamed(NumRead)'
      BY <1>1, <1>3, <1>7, <2>1, <2>2 DEF HoldsNamed
  <2> QED BY <1>4, <1>8, <1>10, <2>1, <2>3
<1>11. CASE pc' = "overrun"
  <2>1. id \in 0..(NumDevices - 1) /\ Len(used_devices) = NumDevices
        /\ used_devices' = used_devices
      BY <1>5, <1>6, <1>11 DEF used_num_devices
  <2>2. Cardinality(NamedUpTo(r + 1)) = NumDevices + 1
    <3>1. IsFiniteSet(NamedUpTo(r))
        BY <1>3, NamedFinite
    <3>2. Cardinality(NamedUpTo(r) \cup {r + 1}) = Cardinality(NamedUpTo(r)) + 1
        BY <1>3, <3>1, FS_AddElement, NamedStep
    <3> QED BY <1>3, <1>8, <2>1, <3>2, NamedStep
  <2>3. \E m, n \in 1..Len(deviceList) :
            m # n /\ deviceList[m] = deviceList[n] /\ deviceList[m] # Invalid
      BY <1>3, <2>2, TwiceNamed
  <2> QED BY <1>1, <1>8, <1>11, <2>1, <2>3 DEF OverrunOnlyByLongLists
<1>12. CASE pc' \notin {"devices", "overrun"}
    BY <1>5, <1>8, <1>12
<1> QED BY <1>9, <1>10, <1>11, <1>12

\* The lists never change, and with them what they ask for.
LEMMA InputFixed ==
    ASSUME [Next]_vars
    PROVE  UNCHANGED <<deviceList, sizeList, RequestedDevices, RequestedSizes, Requested>>
<1>1. UNCHANGED <<deviceList, sizeList>>
    BY DEF Next, vars, lists, AllDevices, ReadDevice, DevicesRead, Allocate, ReadSize,
       SizesRead, PrepareBenchmark, Measure, Measured, Release, Exit
<1>3. UNCHANGED <<RequestedDevices, RequestedSizes>>
    BY <1>1 DEF RequestedDevices, RequestedSizes, Named, NamedUpTo
<1> QED BY <1>1, <1>3 DEF Requested

\* The stages before the sizes.
LEMMA DevicesStep ==
    ASSUME MainInv, AllDevices \/ ReadDevice \/ DevicesRead
    PROVE  MainInv'
<1> USE SelectionAssumption DEF MainInv
<1>1. /\ pc = "devices"
      /\ UNCHANGED <<sizes_str, deviceList, sizeList, sizes, num_sizes, dev, j, context,
                     commands, live, measured, failures>>
      /\ [Next]_vars
    BY DEF AllDevices, ReadDevice, DevicesRead, lists, handles, arrays, Next
<1>2. UNCHANGED <<RequestedDevices, RequestedSizes, Requested>>
    BY <1>1, InputFixed
<1>3. measured = << >> /\ dev = 0 /\ j = 0 /\ live = {} /\ num_sizes = 0
      /\ sizes_str = IF sizeList = NotGiven THEN << >> ELSE sizeList
    BY <1>1 DEF MeasuredInv, SizesInv, Running
<1>4. ASSUME pc' \in {"devices", "allocate", "rejected", "overrun"}
      PROVE  SizesInv' /\ MeasuredInv'
  <2>1. SizesInv'
      BY <1>1, <1>3, <1>4 DEF SizesInv, Running
  <2>2. MeasuredInv'
      BY <1>1, <1>3, <1>4 DEF MeasuredInv, Running
  <2> QED BY <2>1, <2>2
<1>5. CASE AllDevices
  <2>1. /\ used_devices' = RequestedDevices /\ pc' = "allocate" /\ UNCHANGED devices_str
      BY <1>5 DEF AllDevices, RequestedDevices, lists
  <2>2. used_devices' \in Seq(0..(NumDevices - 1))
    <3>1. used_devices' = [n \in 1..NumDevices |-> n - 1]
        BY <1>5 DEF AllDevices
    <3>2. used_devices' \in [1..NumDevices -> 0..(NumDevices - 1)]
        BY <3>1
    <3> QED BY <3>2, SeqDef
  <2>3. TypeInv'
      BY <1>1, <2>1, <2>2 DEF TypeInv
  <2>4. DevicesInv' /\ OverrunInv'
      BY <1>1, <1>2, <2>1 DEF DevicesInv, OverrunInv, OverrunOnlyByLongLists, Running
  <2> QED BY <1>4, <2>1, <2>3, <2>4
<1>6. CASE ReadDevice
  <2>1. /\ used_devices' \in Seq(0..(NumDevices - 1))
        /\ pc' = "devices" =>
             /\ Len(devices_str') <= Len(deviceList)
             /\ \A n \in 1..Len(devices_str') :
                   devices_str'[n] = deviceList[NumRead' + n]
             /\ HoldsNamed(NumRead)'
        /\ pc' = "overrun" => OverrunOnlyByLongLists'
      BY <1>6, ReadDeviceKeeps
  <2>2. pc' \in {"devices", "rejected", "overrun"} /\ deviceList # NotGiven
      BY <1>6 DEF ReadDevice
  <2>3. devices_str' \in Seq(Tokens)
      BY <1>6, HeadTailProperties DEF ReadDevice, TypeInv
  <2>4. TypeInv'
      BY <1>1, <2>1, <2>2, <2>3 DEF TypeInv
  <2>5. DevicesInv'
      BY <1>1, <2>1, <2>2 DEF DevicesInv, Running
  <2>6. OverrunInv'
      BY <2>1, <2>2 DEF OverrunInv, OverrunOnlyByLongLists
  <2> QED BY <1>4, <2>2, <2>4, <2>5, <2>6
<1>7. CASE DevicesRead
  <2>1. /\ pc' = "allocate" /\ UNCHANGED <<devices_str, used_devices>>
        /\ devices_str = << >> /\ deviceList # NotGiven
      BY <1>7 DEF DevicesRead, lists, arrays
  <2>2. used_devices = RequestedDevices
    <3>1. Len(deviceList) \in Nat
        BY <2>1, ListType, LenProperties
    <3>2. NumRead = Len(deviceList)
        BY <2>1, <3>1, EmptySeq DEF NumRead
    <3>3. HoldsNamed(Len(deviceList))
        BY <1>1, <2>1, <3>2 DEF DevicesInv
    <3> QED BY <2>1, <3>3, AllNamed
  <2>3. TypeInv'
      BY <1>1, <2>1 DEF TypeInv
  <2>4. DevicesInv' /\ OverrunInv'
      BY <1>2, <2>1, <2>2 DEF DevicesInv, OverrunInv, OverrunOnlyByLongLists
  <2> QED BY <1>4, <2>1, <2>3, <2>4
<1> QED BY <1>5, <1>6, <1>7
------------------------------------------------------------------------------
(* The list of sizes.                                                      *)

\* The stages of the second list.
LEMMA SizesStep ==
    ASSUME MainInv, Allocate \/ ReadSize \/ SizesRead
    PROVE  MainInv'
<1> USE SelectionAssumption DEF MainInv
<1> DEFINE u == used_num_devices
<1>1. /\ pc \in {"allocate", "sizes"}
      /\ UNCHANGED <<devices_str, deviceList, sizeList, used_devices, dev, j, context,
                     commands, live, measured, failures, used_num_devices>>
      /\ [Next]_vars
    BY DEF Allocate, ReadSize, SizesRead, lists, handles, used_num_devices, Next
<1>2. UNCHANGED <<RequestedDevices, RequestedSizes, Requested>>
    BY <1>1, InputFixed
<1>3. measured = << >> /\ dev = 0 /\ j = 0 /\ live = {} /\ used_devices = RequestedDevices
    BY <1>1 DEF MeasuredInv, DevicesInv, Running
<1>4. u \in Nat /\ num_sizes \in Nat /\ MAX_SIZES * u \in Nat /\ MAX_SIZES \in Nat \ {0}
    BY LenProperties DEF TypeInv, used_num_devices
<1>5. DevicesInv'
  <2>1. pc' # "devices"
      BY DEF Allocate, ReadSize, SizesRead, StoreSize
  <2> QED BY <1>1, <1>2, <1>3, <2>1 DEF DevicesInv
<1>6. CASE Allocate
  <2>1. /\ sizes' = [c \in 0..((MAX_SIZES * u) - 1) |-> 0] /\ pc = "allocate"
        /\ pc' = "sizes" /\ UNCHANGED <<num_sizes, sizes_str>>
      BY <1>6 DEF Allocate, lists, used_num_devices
  <2>2. num_sizes = 0 /\ sizes_str = IF sizeList = NotGiven THEN << >> ELSE sizeList
      BY <2>1 DEF SizesInv
  <2>3. TypeInv'
      BY <1>1, <2>1 DEF TypeInv
  <2>4. Len(sizes_str) \in Nat
      BY LenProperties DEF TypeInv
  <2>5. SizesInv'
      BY <1>1, <1>2, <1>4, <2>1, <2>2, <2>4 DEF SizesInv, Running
  <2>6. MeasuredInv' /\ OverrunInv'
      BY <1>1, <1>3, <2>1 DEF MeasuredInv, Running, OverrunInv, OverrunOnlyByLongLists
  <2> QED BY <1>5, <2>3, <2>5, <2>6
<1>7. CASE ReadSize
  <2> DEFINE size == Head(sizes_str)
  <2>1. /\ pc = "sizes" /\ sizes_str # << >> /\ sizes_str' = Tail(sizes_str)
        /\ IF size = Invalid THEN pc' = "rejected" /\ UNCHANGED <<sizes, num_sizes>>
                             ELSE StoreSize(size)
      BY <1>7 DEF ReadSize
  <2>2. /\ Len(sizes_str) \in Nat \ {0} /\ sizes_str' \in Seq(Tokens)
        /\ Len(sizes_str') = Len(sizes_str) - 1
        /\ \A n \in 1..Len(sizes_str') : sizes_str'[n] = sizes_str[n + 1]
        /\ size = sizes_str[1]
      BY <2>1, EmptySeq, HeadTailProperties, LenProperties DEF TypeInv
  <2>3. /\ sizeList # NotGiven /\ sizeList = RequestedSizes
        /\ Len(sizeList) = num_sizes + Len(sizes_str)
        /\ \A n \in 1..Len(sizes_str) : sizes_str[n] = sizeList[num_sizes + n]
        /\ DOMAIN sizes = 0..((MAX_SIZES * u) - 1)
        /\ u > 0 => num_sizes <= MAX_SIZES
        /\ \A d \in 0..(u - 1) : \A n \in 0..(num_sizes - 1) :
              sizes[At(n, d)] = RequestedSizes[n + 1]
      BY <2>1 DEF SizesInv, RequestedSizes, used_num_devices
  <2>4. size = RequestedSizes[num_sizes + 1]
      BY <2>2, <2>3
  <2> DEFINE cells == {At(num_sizes, d) : d \in 0..(u - 1)}
  <2>5. pc' \in {"sizes", "rejected", "overrun"}
      BY <2>1 DEF StoreSize
  <2>6. MeasuredInv'
      BY <1>1, <1>3, <2>5 DEF MeasuredInv, Running
  <2>7. CASE pc' = "rejected"
    <3>1. UNCHANGED <<sizes, num_sizes>>
        BY <2>1, <2>7 DEF StoreSize
    <3>2. TypeInv'
        BY <1>1, <2>2, <2>7, <3>1 DEF TypeInv
    <3> QED BY <1>5, <2>6, <2>7, <3>2 DEF SizesInv, OverrunInv, OverrunOnlyByLongLists, Running
  <2>8. CASE size # Invalid /\ ~(cells \subseteq DOMAIN sizes)
    <3>1. pc' = "overrun" /\ UNCHANGED <<sizes, num_sizes>>
        BY <2>1, <2>8 DEF StoreSize, used_num_devices
    <3>2. PICK d \in 0..(u - 1) : At(num_sizes, d) \notin DOMAIN sizes
        BY <2>8
    <3>3. num_sizes >= MAX_SIZES
      <4>1. ASSUME num_sizes < MAX_SIZES PROVE FALSE
        <5>1. (d * MAX_SIZES) + num_sizes \in 0..((u * MAX_SIZES) - 1)
            BY <1>4, <4>1, InRows
        <5>2. At(num_sizes, d) = (d * MAX_SIZES) + num_sizes
              /\ u * MAX_SIZES = MAX_SIZES * u
            BY <1>4 DEF At
        <5> QED BY <2>3, <3>2, <5>1, <5>2
      <4> QED BY <1>4, <4>1
    <3>4. Len(sizeList) > MAX_SIZES
        BY <1>4, <2>2, <2>3, <3>3
    <3>5. TypeInv'
        BY <1>1, <2>2, <3>1 DEF TypeInv
    <3>6. SizesInv' /\ OverrunInv'
        BY <1>1, <3>1, <3>4 DEF SizesInv, OverrunInv, OverrunOnlyByLongLists, Running
    <3> QED BY <1>5, <2>6, <3>5, <3>6
  <2>9. CASE size # Invalid /\ cells \subseteq DOMAIN sizes
    <3>1. /\ sizes' = [c \in DOMAIN sizes |-> IF c \in cells THEN size ELSE sizes[c]]
          /\ num_sizes' = num_sizes + 1 /\ UNCHANGED pc
        BY <2>1, <2>9 DEF StoreSize, used_num_devices
    <3>2. ASSUME u > 0 PROVE num_sizes < MAX_SIZES
      <4>1. At(num_sizes, u - 1) \in cells
          BY <1>4, <3>2
      <4>2. At(num_sizes, u - 1) \in 0..((MAX_SIZES * u) - 1)
          BY <2>3, <2>9, <4>1
      <4>3. At(num_sizes, u - 1) = num_sizes + ((u - 1) * MAX_SIZES)
            /\ (u - 1) * MAX_SIZES = (MAX_SIZES * u) - MAX_SIZES
          BY <1>4 DEF At
      <4> QED BY <1>4, <4>2, <4>3
    <3>3. ASSUME NEW d \in 0..(u - 1), NEW n \in 0..num_sizes
          PROVE  sizes'[At(n, d)] = RequestedSizes[n + 1]
      <4>1. u > 0 /\ num_sizes < MAX_SIZES /\ d \in Nat
          BY <1>4, <3>2
      <4>2. At(n, d) \in DOMAIN sizes
        <5>1. (d * MAX_SIZES) + n \in 0..((u * MAX_SIZES) - 1)
            BY <1>4, <4>1, InRows
        <5>2. At(n, d) = (d * MAX_SIZES) + n /\ u * MAX_SIZES = MAX_SIZES * u
            BY <1>4 DEF At
        <5> QED BY <2>3, <5>1, <5>2
      <4>3. CASE n = num_sizes
          BY <2>4, <3>1, <4>2, <4>3
      <4>4. CASE n # num_sizes
        <5>1. n \in 0..(num_sizes - 1)
            BY <1>4, <4>4
        <5>2. At(n, d) \notin cells
          <6>1. ASSUME NEW e \in 0..(u - 1), At(n, d) = At(num_sizes, e) PROVE FALSE
            <7>1. n \in 0..(MAX_SIZES - 1) /\ num_sizes \in 0..(MAX_SIZES - 1) /\ e \in Nat
                BY <1>4, <4>1
            <7> QED BY <4>1, <4>4, <6>1, <7>1, AtOnce
          <6> QED BY <6>1
        <5> QED BY <2>3, <3>1, <4>2, <5>1, <5>2
      <4> QED BY <4>3, <4>4
    <3>4. TypeInv'
        BY <1>1, <2>2, <3>1 DEF TypeInv
    <3>5. SizesInv'
      <4>1. DOMAIN sizes' = 0..((MAX_SIZES * u') - 1) /\ (u' > 0 => num_sizes' <= MAX_SIZES)
          BY <1>1, <1>4, <2>3, <3>1, <3>2
      <4>2. \A d \in 0..(u' - 1) : \A n \in 0..(num_sizes' - 1) :
                sizes'[At(n, d)] = RequestedSizes'[n + 1]
        <5>1. ASSUME NEW d \in 0..(u' - 1), NEW n \in 0..(num_sizes' - 1)
              PROVE  sizes'[At(n, d)] = RequestedSizes'[n + 1]
          <6>1. d \in 0..(u - 1) /\ n \in 0..num_sizes
              BY <1>1, <1>4, <3>1
          <6> QED BY <1>2, <3>3, <6>1
        <5> QED BY <5>1
      <4>3. /\ Len(sizeList) = num_sizes' + Len(sizes_str')
            /\ \A n \in 1..Len(sizes_str') : sizes_str'[n] = sizeList[num_sizes' + n]
          BY <1>4, <2>2, <2>3, <3>1
      <4> QED BY <1>1, <2>1, <2>3, <3>1, <4>1, <4>2, <4>3
              DEF SizesInv, Running, used_num_devices, At
    <3> QED BY <1>5, <2>1, <2>6, <3>1, <3>4, <3>5 DEF OverrunInv, OverrunOnlyByLongLists
  <2> QED BY <2>1, <2>7, <2>8, <2>9 DEF StoreSize
<1>8. CASE SizesRead
  <2>1. /\ pc = "sizes" /\ sizes_str = << >> /\ pc' = "prepare" /\ UNCHANGED sizes_str
        /\ IF sizeList = NotGiven
           THEN /\ num_sizes' = 1
                /\ sizes' = [c \in DOMAIN sizes |->
                                IF c % MAX_SIZES = 0 THEN DefaultSize ELSE 0]
           ELSE UNCHANGED <<sizes, num_sizes>>
      BY <1>8 DEF SizesRead, lists
  <2>2. /\ DOMAIN sizes = 0..((MAX_SIZES * u) - 1)
        /\ u > 0 => num_sizes <= MAX_SIZES
        /\ \A d \in 0..(u - 1) : \A n \in 0..(num_sizes - 1) :
              sizes[At(n, d)] = RequestedSizes[n + 1]
      BY <2>1 DEF SizesInv, used_num_devices
  <2>3. TypeInv'
      BY <1>1, <2>1 DEF TypeInv, Running
  <2>4. SizesInv'
    <3>1. CASE sizeList = NotGiven
      <4>1. RequestedSizes = <<DefaultSize>>
          BY <3>1 DEF RequestedSizes
      <4>2. ASSUME NEW d \in 0..(u - 1)
            PROVE  sizes'[At(0, d)] = DefaultSize
        <5>1. At(0, d) = (d * MAX_SIZES) + 0 /\ u * MAX_SIZES = MAX_SIZES * u /\ d \in Nat
              /\ 0 \in 0..(MAX_SIZES - 1)
            BY <1>4 DEF At
        <5>2. ((d * MAX_SIZES) + 0) % MAX_SIZES = 0
            BY <1>4, <5>1, RowColumn
        <5>3. (d * MAX_SIZES) + 0 \in 0..((u * MAX_SIZES) - 1)
            BY <1>4, <5>1, InRows
        <5>4. At(0, d) \in DOMAIN sizes /\ At(0, d) % MAX_SIZES = 0
            BY <2>2, <5>1, <5>2, <5>3
        <5> QED BY <2>1, <3>1, <5>4
      <4>3. num_sizes' = 1 /\ DOMAIN sizes' = DOMAIN sizes
          BY <2>1, <3>1
      <4>4. \A d \in 0..(u - 1) : \A n \in 0..(num_sizes' - 1) :
                sizes'[At(n, d)] = RequestedSizes[n + 1]
          BY <4>1, <4>2, <4>3
      <4> QED BY <1>1, <1>2, <1>4, <2>1, <2>2, <4>1, <4>3, <4>4
              DEF SizesInv, Running, used_num_devices, At
    <3>2. CASE sizeList # NotGiven
      <4>1. UNCHANGED <<sizes, num_sizes>> /\ Len(sizeList) = num_sizes
            /\ RequestedSizes = sizeList
          BY <1>4, <2>1, <3>2, EmptySeq DEF SizesInv, RequestedSizes
      <4> QED BY <1>1, <1>2, <2>1, <2>2, <4>1
              DEF SizesInv, Running, used_num_devices, At
    <3> QED BY <3>1, <3>2
  <2>5. MeasuredInv'
    <3>1. /\ dev' = 0 /\ j' = 0 /\ live' = {} /\ measured' = << >>
          /\ used_num_devices' \in Nat /\ num_sizes' \in Nat
        BY <1>1, <1>3, <1>4, <2>3 DEF TypeInv
    <3> QED BY <2>1, <3>1 DEF MeasuredInv, Running
  <2> QED BY <1>5, <2>1, <2>3, <2>4, <2>5 DEF OverrunInv, OverrunOnlyByLongLists
<1> QED BY <1>6, <1>7, <1>8
------------------------------------------------------------------------------
(* The loop over the devices.                                              *)

\* The table asked for, a line for every device and size.
LEMMA RequestedIs ==
    ASSUME MainInv, pc \in Running
    PROVE  /\ used_num_devices \in Nat /\ num_sizes \in Nat
           /\ Requested = [n \in 1..(used_num_devices * num_sizes) |->
                             <<used_devices[((n - 1) \div num_sizes) + 1],
                               RequestedSizes[((n - 1) % num_sizes) + 1]>>]
<1>1. used_devices = RequestedDevices /\ num_sizes = Len(RequestedSizes)
    BY DEF MainInv, DevicesInv, SizesInv
<1>2. used_num_devices \in Nat /\ num_sizes \in Nat
    BY LenProperties DEF MainInv, TypeInv, used_num_devices
<1> QED BY <1>1, <1>2 DEF Requested, used_num_devices

\* The line of a device and a size.
LEMMA RequestedAt ==
    ASSUME MainInv, pc \in Running, dev < used_num_devices, j < num_sizes
    PROVE  Requested[(dev * num_sizes) + j + 1]
             = <<used_devices[dev + 1], RequestedSizes[j + 1]>>
<1> DEFINE n == (dev * num_sizes) + j + 1
<1>1. /\ used_num_devices \in Nat /\ num_sizes \in Nat \ {0}
      /\ dev \in 0..(used_num_devices - 1) /\ j \in 0..(num_sizes - 1)
    BY RequestedIs DEF MainInv, TypeInv
<1>2. (dev * num_sizes) + j \in 0..((used_num_devices * num_sizes) - 1)
    BY <1>1, InRows
<1>3. n \in 1..(used_num_devices * num_sizes) /\ n - 1 = (dev * num_sizes) + j
    BY <1>1, <1>2
<1>4. (n - 1) \div num_sizes = dev /\ (n - 1) % num_sizes = j
    BY <1>1, <1>3, RowColumn
<1> HIDE DEF n
<1>5. Requested[n] = <<used_devices[((n - 1) \div num_sizes) + 1],
                       RequestedSizes[((n - 1) % num_sizes) + 1]>>
    BY <1>3, RequestedIs
<1> QED BY <1>4, <1>5 DEF n

\* What the loop does not touch.
LEMMA LoopKeeps ==
    ASSUME MainInv, [Next]_vars, pc \in Running, pc' \in Running,
           UNCHANGED <<lists, arrays>>
    PROVE  DevicesInv' /\ SizesInv' /\ OverrunInv'
<1>1. UNCHANGED <<RequestedDevices, RequestedSizes>>
    BY InputFixed
<1>2. DevicesInv'
    BY <1>1 DEF MainInv, DevicesInv, Running, lists, arrays
<1>3. UNCHANGED <<sizes, num_sizes, sizes_str, sizeList, used_num_devices>>
    BY DEF lists, arrays, used_num_devices
<1>4. \A n, d : At(n, d)' = At(n, d)
    BY DEF At
<1>5. SizesInv'
    BY <1>1, <1>3 DEF MainInv, SizesInv, Running, At
<1>6. OverrunInv'
    BY DEF MainInv, OverrunInv, OverrunOnlyByLongLists, Running, lists
<1> QED BY <1>2, <1>5, <1>6

\* A measurement is the next one asked for.
LEMMA MeasureStep == ASSUME MainInv, Measure PROVE MainInv'
<1> USE SelectionAssumption DEF MainInv
<1> DEFINE m == [device |-> used_devices[dev + 1], size |-> SizeOf(dev, j),
                 entry |-> dev, queue |-> commands]
           S == [device : 0..(NumDevices - 1), size : Tokens,
                 entry  : Nat, queue : Nat \cup {NULL}]
<1>1. /\ pc = "measure" /\ pc' = "measure" /\ j < num_sizes /\ j' = j + 1
      /\ UNCHANGED <<lists, arrays, dev, context, commands, live>>
      /\ measured' = Append(measured, m) /\ [Next]_vars
    BY DEF Measure, handles, Next
<1>2. /\ dev < used_num_devices /\ dev \in Nat /\ j \in Nat /\ num_sizes \in Nat
      /\ used_num_devices \in Nat /\ Len(measured) = (dev * num_sizes) + j
      /\ live \subseteq {dev}
    BY <1>1, RequestedIs DEF MeasuredInv, TypeInv, Running
<1>3. UNCHANGED <<Requested, used_num_devices>>
    BY <1>1, InputFixed DEF arrays, used_num_devices
<1>4. SizeOf(dev, j) = RequestedSizes[j + 1]
  <2>1. j \in 0..(num_sizes - 1) /\ dev \in 0..(used_num_devices - 1)
      BY <1>1, <1>2
  <2>2. \A d \in 0..(used_num_devices - 1) : \A n \in 0..(num_sizes - 1) :
           sizes[At(n, d)] = RequestedSizes[n + 1]
      BY <1>1 DEF SizesInv, Running
  <2> QED BY ONLY <2>1, <2>2 DEF SizeOf
<1>5. RequestedSizes[j + 1] \in Tokens
  <2>1. CASE sizeList = NotGiven
    <3>1. RequestedSizes = <<DefaultSize>> /\ num_sizes = 1
        BY <1>1, <2>1 DEF RequestedSizes, SizesInv, Running
    <3> QED BY <1>1, <1>2, <3>1 DEF Tokens
  <2>2. CASE sizeList # NotGiven
    <3>1. RequestedSizes = sizeList /\ num_sizes = Len(sizeList) /\ sizeList \in Seq(Tokens)
        BY <1>1, <2>2, ListType DEF RequestedSizes, SizesInv, Running
    <3>2. j + 1 \in 1..Len(sizeList)
        BY <1>1, <1>2, <3>1
    <3> QED BY <3>1, <3>2, ElementOfSeq
  <2> QED BY <2>1, <2>2
<1>6. used_devices[dev + 1] \in 0..(NumDevices - 1)
  <2>1. dev + 1 \in 1..Len(used_devices)
      BY <1>2 DEF used_num_devices
  <2> QED BY <2>1, ElementOfSeq DEF TypeInv
<1>7. m \in S /\ measured \in Seq(S)
    BY <1>2, <1>4, <1>5, <1>6 DEF TypeInv
<1>8. /\ measured' \in Seq(S) /\ Len(measured) \in Nat /\ Len(measured') = Len(measured) + 1
      /\ \A n \in 1..Len(measured) : measured'[n] = measured[n]
      /\ measured'[Len(measured) + 1] = m
    BY <1>1, <1>7, AppendProperties, LenProperties
<1>9. TypeInv'
  <2>1. UNCHANGED <<deviceList, sizeList, devices_str, sizes_str, used_devices, num_sizes,
                    dev, commands>> /\ j' \in Nat /\ pc' \in Running
      BY <1>1, <1>2 DEF lists, arrays, Running
  <2> HIDE DEF m
  <2> QED BY <1>8, <2>1 DEF TypeInv
<1>10. DevicesInv' /\ SizesInv' /\ OverrunInv'
    BY <1>1, LoopKeeps DEF Running
<1>11. MeasuredInv'
  <2>1. Requested[Len(measured) + 1] = <<m.device, m.size>>
      BY <1>1, <1>2, <1>4, RequestedAt DEF Running
  <2>2. \A n \in 1..Len(measured') : Done'[n] = Requested'[n]
    <3> SUFFICES ASSUME NEW n \in 1..Len(measured') PROVE Done'[n] = Requested[n]
        BY <1>3
    <3>1. Done'[n] = <<measured'[n].device, measured'[n].size>>
        BY DEF Done
    <3>2. CASE n \in 1..Len(measured)
      <4>1. Done[n] = <<measured[n].device, measured[n].size>>
          BY <3>2 DEF Done
      <4>2. Done[n] = Requested[n]
          BY <1>1, <3>2 DEF MeasuredInv, Running
      <4> QED BY <1>8, <3>1, <3>2, <4>1, <4>2
    <3>3. CASE n = Len(measured) + 1
        BY <1>8, <2>1, <3>1, <3>3
    <3> QED BY <1>8, <3>2, <3>3
  <2>3. Len(measured') = (dev' * num_sizes') + j'
      BY <1>1, <1>2, <1>8 DEF arrays
  <2>4. \A n \in 1..Len(measured') :
           /\ measured'[n].entry \in 0..dev'
           /\ measured'[n].entry = dev' => measured'[n].queue = commands'
           /\ measured'[n].entry < dev' => measured'[n].queue = measured'[n].entry
    <3>1. \A n \in 1..Len(measured) :
             /\ measured[n].entry \in 0..dev
             /\ measured[n].entry = dev => measured[n].queue = commands
             /\ measured[n].entry < dev => measured[n].queue = measured[n].entry
        BY <1>1 DEF MeasuredInv
    <3> SUFFICES ASSUME NEW n \in 1..Len(measured')
                 PROVE  /\ measured'[n].entry \in 0..dev
                        /\ measured'[n].entry = dev => measured'[n].queue = commands
                        /\ measured'[n].entry < dev
                             => measured'[n].queue = measured'[n].entry
        BY <1>1
    <3>2. CASE n \in 1..Len(measured)
        BY <1>8, <3>1, <3>2
    <3>3. CASE n = Len(measured) + 1
      <4>1. measured'[n].entry = dev /\ measured'[n].queue = commands
          BY <1>8, <3>3
      <4>2. dev \in 0..dev
          BY <1>2
      <4> QED BY <4>1, <4>2
    <3> QED BY <1>8, <3>2, <3>3
  <2> QED BY <1>1, <1>2, <1>3, <2>2, <2>3, <2>4 DEF MeasuredInv, Running, arrays
<1> QED BY <1>9, <1>10, <1>11

\* The other steps of the loop.
LEMMA LoopStep ==
    ASSUME MainInv, PrepareBenchmark \/ Measured \/ Release \/ Exit
    PROVE  MainInv'
<1> USE SelectionAssumption DEF MainInv
<1>1. /\ pc \in {"prepare", "measure", "release"} /\ pc' \in Running
      /\ UNCHANGED <<lists, arrays, measured>> /\ [Next]_vars
    BY DEF PrepareBenchmark, Measured, Release, Exit, Running, Next
<1>2. DevicesInv' /\ SizesInv' /\ OverrunInv'
    BY <1>1, LoopKeeps DEF Running
<1>3. UNCHANGED <<Requested, used_num_devices, Done, num_sizes>>
    BY <1>1, InputFixed DEF arrays, used_num_devices, Done
<1>4. /\ dev \in Nat /\ j \in Nat /\ num_sizes \in Nat /\ used_num_devices \in Nat
      /\ commands \in Nat \cup {NULL}
      /\ \A n \in 1..Len(measured) : Done[n] = Requested[n]
      /\ \A n \in 1..Len(measured) :
            measured[n].entry < dev => measured[n].queue = measured[n].entry
    BY <1>1, RequestedIs DEF TypeInv, MeasuredInv, Running
<1>5. ASSUME dev' \in Nat, j' \in Nat, commands' \in Nat \cup {NULL} PROVE TypeInv'
    BY <1>1, <1>5 DEF TypeInv, lists, arrays
<1>6. CASE PrepareBenchmark
  <2>1. /\ pc = "prepare" /\ pc' = "measure" /\ dev < used_num_devices
        /\ j' = 0 /\ dev' = dev
        /\ commands' \in {commands, dev, NULL} /\ live' \subseteq live \cup {dev}
      BY <1>6 DEF PrepareBenchmark
  <2>2. /\ Len(measured) = dev * num_sizes /\ live = {}
        /\ \A n \in 1..Len(measured) : measured[n].entry < dev
      BY <2>1 DEF MeasuredInv
  <2>3. \A n \in 1..Len(measured) : measured[n].entry \in Nat
    <3>1. measured \in [1..Len(measured) -> [device : 0..(NumDevices - 1), size : Tokens,
                                             entry  : Nat, queue : Nat \cup {NULL}]]
        BY LenProperties DEF TypeInv
    <3> QED BY <3>1
  <2>4. dev * num_sizes = (dev * num_sizes) + 0
      BY <1>4
  <2>5. MeasuredInv'
      BY <1>1, <1>3, <1>4, <2>1, <2>2, <2>3, <2>4 DEF MeasuredInv, Running
  <2> QED BY <1>2, <1>4, <1>5, <2>1, <2>5
<1>7. CASE Measured
  <2>1. /\ pc = "measure" /\ pc' = "release" /\ j = num_sizes
        /\ UNCHANGED <<j, dev, commands, live>>
      BY <1>7 DEF Measured, handles
  <2>2. MeasuredInv'
      BY <1>1, <1>3, <1>4, <2>1 DEF MeasuredInv, Running
  <2> QED BY <1>2, <1>4, <1>5, <2>1, <2>2
<1>8. CASE Release
  <2>1. /\ pc = "release" /\ live' = live \ {commands} /\ UNCHANGED <<j, commands>>
        /\ \/ commands \in live /\ dev' = dev + 1 /\ pc' = "prepare"
           \/ pc' = "error" /\ UNCHANGED dev
      BY <1>8 DEF Release, ReleaseSucceeds
  <2>2. /\ dev < used_num_devices /\ j = num_sizes /\ live \subseteq {dev}
        /\ Len(measured) = (dev * num_sizes) + j
        /\ \A n \in 1..Len(measured) :
              /\ measured[n].entry \in 0..dev
              /\ measured[n].entry = dev => measured[n].queue = commands
      BY <2>1 DEF MeasuredInv
  <2>3. CASE commands \in live /\ dev' = dev + 1 /\ pc' = "prepare"
    <3>1. commands = dev /\ live' = {}
        BY <2>1, <2>2, <2>3
    <3>2. (dev * num_sizes) + num_sizes = (dev + 1) * num_sizes
        BY <1>4
    <3>3. \A n \in 1..Len(measured) :
             measured[n].entry < dev + 1 /\ measured[n].queue = measured[n].entry
        BY <1>4, <2>2, <3>1
    <3>4. MeasuredInv'
        BY <1>1, <1>3, <1>4, <2>1, <2>2, <2>3, <3>1, <3>2, <3>3 DEF MeasuredInv, Running
    <3> QED BY <1>2, <1>4, <1>5, <2>1, <2>3, <3>4
  <2>4. CASE pc' = "error" /\ UNCHANGED dev
    <3>1. MeasuredInv'
        BY <1>1, <1>3, <1>4, <2>1, <2>2, <2>4 DEF MeasuredInv, Running
    <3> QED BY <1>2, <1>4, <1>5, <2>1, <2>4, <3>1
  <2> QED BY <2>1, <2>3, <2>4
<1>9. CASE Exit
  <2>1. /\ pc = "prepare" /\ pc' = "exit" /\ dev = used_num_devices
        /\ UNCHANGED <<j, dev, commands, live>>
      BY <1>9 DEF Exit, handles
  <2>2. MeasuredInv'
      BY <1>1, <1>3, <1>4, <2>1 DEF MeasuredInv, Running
  <2> QED BY <1>2, <1>4, <1>5, <2>1, <2>2
<1> QED BY <1>6, <1>7, <1>8, <1>9
------------------------------------------------------------------------------
\* The invariant holds before the first token.
LEMMA MainInit == Init => MainInv
<1> SUFFICES ASSUME Init PROVE MainInv
    OBVIOUS
<1> USE SelectionAssumption
<1>1. /\ deviceList \in DeviceLists /\ sizeList \in SizeLists
      /\ devices_str = IF deviceList = NotGiven THEN << >> ELSE deviceList
      /\ sizes_str = IF sizeList = NotGiven THEN << >> ELSE sizeList
      /\ pc = "devices" /\ used_devices = << >> /\ num_sizes = 0
      /\ dev = 0 /\ j = 0 /\ commands = NULL /\ live = {} /\ measured = << >>
    BY DEF Init
<1>2. devices_str \in Seq(Tokens) /\ sizes_str \in Seq(Tokens)
    BY <1>1, EmptySeq DEF Tokens
<1>3. TypeInv
    BY <1>1, <1>2, EmptySeq DEF TypeInv
<1>4. DevicesInv
  <2>1. CASE deviceList # NotGiven
    <3>1. devices_str = deviceList /\ Len(deviceList) \in Nat /\ NumRead = 0
        BY <1>1, <1>2, <2>1, LenProperties DEF NumRead
    <3>2. NamedUpTo(0) = {}
        BY DEF NamedUpTo
    <3>3. HoldsNamed(0)
      <4>1. Len(used_devices) = 0 /\ Cardinality(NamedUpTo(0)) = 0
          BY <1>1, <3>2, FS_EmptySet
      <4> QED BY <4>1 DEF HoldsNamed
    <3> QED BY <1>1, <2>1, <3>1, <3>3 DEF DevicesInv, Running
  <2>2. CASE deviceList = NotGiven
      BY <1>1, <2>2 DEF DevicesInv, Running
  <2> QED BY <2>1, <2>2
<1>5. SizesInv
    BY <1>1 DEF SizesInv, Running
<1>6. MeasuredInv /\ OverrunInv
    BY <1>1, EmptySeq DEF MeasuredInv, OverrunInv, OverrunOnlyByLongLists, Running
<1> QED BY <1>3, <1>4, <1>5, <1>6 DEF MainInv

\* Every step preserves it.
LEMMA MainStep == MainInv /\ [Next]_vars => MainInv'
<1> SUFFICES ASSUME MainInv, [Next]_vars PROVE MainInv'
    OBVIOUS
<1>1. CASE UNCHANGED vars
  <2>1. UNCHANGED <<RequestedDevices, RequestedSizes, Requested>>
      BY InputFixed
  <2>2. UNCHANGED <<devices_str, sizes_str, deviceList, sizeList, pc, used_devices, sizes,
                    num_sizes, dev, j, context, commands, live, measured>>
      BY <1>1 DEF vars, lists, arrays, handles
  <2>3. TypeInv'
      BY <2>2 DEF MainInv, TypeInv
  <2>4. DevicesInv'
    <3>1. \A n : NamedUpTo(n)' = NamedUpTo(n)
        BY <2>2 DEF NamedUpTo
    <3>2. NumRead' = NumRead
        BY <2>2 DEF NumRead
    <3>3. HoldsNamed(NumRead) => HoldsNamed(NumRead)'
        BY <2>2, <3>1, <3>2 DEF HoldsNamed
    <3> QED BY <2>1, <2>2, <3>2, <3>3 DEF MainInv, DevicesInv
  <2>5. SizesInv'
      BY <2>1, <2>2 DEF MainInv, SizesInv, used_num_devices, At
  <2>6. MeasuredInv'
      BY <2>1, <2>2 DEF MainInv, MeasuredInv, used_num_devices, Done
  <2>7. OverrunInv'
      BY <2>2 DEF MainInv, OverrunInv, OverrunOnlyByLongLists
  <2> QED BY <2>3, <2>4, <2>5, <2>6, <2>7 DEF MainInv
<1> QED BY <1>1, DevicesStep, SizesStep, MeasureStep, LoopStep DEF Next

\* The invariant holds throughout.
LEMMA MainInvariant == Spec => []MainInv
  BY MainInit, MainStep, PTL DEF Spec

\* A sequence whose elements begin a longer one is a prefix of it.
LEMMA PrefixIs ==
    \A m, n \in Nat : \A s, t :
        /\ m <= n /\ s = [x \in 1..m |-> s[x]] /\ t = [x \in 1..n |-> t[x]]
        /\ \A x \in 1..m : s[x] = t[x]
        => IsPrefix(s, t) /\ (m = n => s = t)
<1> TAKE m, n \in Nat
<1> TAKE s, t
<1> HAVE /\ m <= n /\ s = [x \in 1..m |-> s[x]] /\ t = [x \in 1..n |-> t[x]]
         /\ \A x \in 1..m : s[x] = t[x]
<1> DEFINE S == {s[x] : x \in 1..m} \cup {t[x] : x \in 1..n}
<1>1. s \in Seq(S) /\ t \in Seq(S) /\ Len(s) = m /\ Len(t) = n
  <2>1. (\A x \in 1..m : s[x] \in S) /\ (\A x \in 1..n : t[x] \in S)
      OBVIOUS
  <2> HIDE DEF S
  <2>2. s \in [1..m -> S]
      BY <2>1
  <2>3. t \in [1..n -> S]
      BY <2>1
  <2> QED BY <2>2, <2>3, SeqDef, LenProperties
<1> HIDE DEF S
<1>2. \A x \in 1..m : s[x] \in S /\ t[x] \in S
    BY <1>1, ElementOfSeq
<1>3. SubSeq(s, 1, m) \in Seq(S) /\ SubSeq(t, 1, m) \in Seq(S)
      /\ Len(SubSeq(s, 1, m)) = m /\ Len(SubSeq(t, 1, m)) = m
      /\ \A x \in 1..m : SubSeq(s, 1, m)[x] = s[x] /\ SubSeq(t, 1, m)[x] = t[x]
  <2>1. 1 \in Int /\ m \in Int
      OBVIOUS
  <2>2. ASSUME NEW q, \A x \in 1..m : q[x] \in S
        PROVE  /\ SubSeq(q, 1, m) \in Seq(S)
               /\ Len(SubSeq(q, 1, m)) = IF 1 <= m THEN m - 1 + 1 ELSE 0
               /\ \A x \in 1..(m - 1 + 1) : SubSeq(q, 1, m)[x] = q[1 + x - 1]
      BY <2>1, <2>2, SubSeqProperties
  <2>3. ASSUME NEW q, \A x \in 1..m : q[x] \in S
        PROVE  /\ SubSeq(q, 1, m) \in Seq(S) /\ Len(SubSeq(q, 1, m)) = m
               /\ \A x \in 1..m : SubSeq(q, 1, m)[x] = q[x]
      BY <2>2, <2>3
  <2> QED BY <1>2, <2>3
<1>4. SubSeq(s, 1, m) = SubSeq(t, 1, m)
    BY <1>3, SeqEqual
<1> QED BY <1>1, <1>4, SeqEqual DEF IsPrefix

\* The measurements begin the table asked for, and are all of it at the end.
LEMMA MeasuredGivesRequest == MainInv => MeasuresTheRequest
<1> SUFFICES ASSUME MainInv PROVE MeasuresTheRequest
    OBVIOUS
<1> USE DEF MainInv
<1>1. Len(measured) \in Nat
    BY LenProperties DEF TypeInv
<1>2. Done = [n \in 1..Len(measured) |-> Done[n]]
    BY DEF Done
<1>3. CASE pc \in Running
  <2> DEFINE N == used_num_devices * num_sizes
  <2>1. used_num_devices \in Nat /\ num_sizes \in Nat /\ dev \in Nat /\ j \in Nat
      BY <1>3, RequestedIs DEF TypeInv
  <2>2. N \in Nat /\ DOMAIN Requested = 1..N
      BY <1>3, <2>1, RequestedIs
  <2>3. Requested = [n \in 1..N |-> Requested[n]]
      BY <2>2 DEF Requested
  <2>4. \A n \in 1..Len(measured) : Done[n] = Requested[n]
      BY <1>3 DEF MeasuredInv
  <2>5. Len(measured) <= N /\ (pc = "exit" => Len(measured) = N)
    <3>1. CASE pc \in {"prepare", "exit"}
      <4>1. Len(measured) = dev * num_sizes /\ dev <= used_num_devices
            /\ (pc = "exit" => dev = used_num_devices)
          BY <1>3, <3>1 DEF MeasuredInv
      <4> QED BY <2>1, <4>1, Product
    <3>2. CASE pc \in {"measure", "release", "error"}
      <4>1. Len(measured) = (dev * num_sizes) + j /\ dev + 1 <= used_num_devices
            /\ j <= num_sizes
          BY <1>3, <2>1, <3>2 DEF MeasuredInv
      <4>2. (dev + 1) * num_sizes <= N /\ (dev + 1) * num_sizes = (dev * num_sizes) + num_sizes
            /\ dev * num_sizes \in Int
          BY <2>1, <4>1, Product
      <4> QED BY <2>1, <2>2, <3>2, <4>1, <4>2
    <3> QED BY <1>3, <3>1, <3>2 DEF Running
  <2> HIDE DEF N
  <2>6. IsPrefix(Done, Requested) /\ (Len(measured) = N => Done = Requested)
      BY <1>1, <1>2, <2>2, <2>3, <2>4, <2>5, PrefixIs
  <2> QED BY <2>5, <2>6 DEF MeasuresTheRequest
<1>4. CASE pc \notin Running
  <2>1. measured = << >> /\ Len(measured) = 0 /\ pc # "exit"
      BY <1>4, EmptySeq DEF MeasuredInv, Running
  <2> DEFINE N == Len(RequestedDevices) * Len(RequestedSizes)
  <2>2. N \in Nat
    <3>1. Len(RequestedSizes) \in Nat
      <4>1. CASE sizeList = NotGiven
          BY <4>1 DEF RequestedSizes
      <4>2. CASE sizeList # NotGiven
          BY <4>2, ListType, LenProperties DEF RequestedSizes
      <4> QED BY <4>1, <4>2
    <3>2. Len(RequestedDevices) \in Nat
      <4>1. CASE deviceList = NotGiven
          BY <4>1, SelectionAssumption DEF RequestedDevices
      <4>2. CASE deviceList # NotGiven
        <5>1. Len(deviceList) \in Nat
            BY <4>2, ListType, LenProperties
        <5>2. Cardinality(Named) \in Nat
            BY <5>1, NamedFinite DEF Named
        <5> QED BY <4>2, <5>2 DEF RequestedDevices
      <4> QED BY <4>1, <4>2
    <3> QED BY <3>1, <3>2
  <2>3. DOMAIN Requested = 1..N
      BY DEF Requested
  <2>4. Requested = [n \in 1..N |-> Requested[n]]
      BY <2>3 DEF Requested
  <2> HIDE DEF N
  <2>5. IsPrefix(Done, Requested)
    <3>1. Done = [n \in 1..0 |-> Done[n]] /\ 0 \in Nat /\ 0 <= N
        BY <1>2, <2>1, <2>2
    <3>2. \A n \in 1..0 : Done[n] = Requested[n]
        OBVIOUS
    <3> QED BY <2>2, <2>4, <3>1, <3>2, PrefixIs, ZenonT(30)
  <2> QED BY <2>1, <2>5 DEF MeasuresTheRequest
<1> QED BY <1>3, <1>4

\* What is measured is what the lists ask for, in their order, whatever is
\* in them and whichever calls fail.
THEOREM RequestMeasured == Spec => []MeasuresTheRequest
  BY MainInvariant, MeasuredGivesRequest, PTL

\* An array is overrun only where a device is named twice, or more sizes are
\* given than a row holds.
THEOREM OverrunHasReason == Spec => []OverrunOnlyByLongLists
<1>1. MainInv => OverrunOnlyByLongLists
    BY DEF MainInv, OverrunInv
<1> QED BY MainInvariant, <1>1, PTL

\* Of all devices measured, only the last may have been without its queue.
THEOREM OwnQueues == Spec => []UnpreparedIsLast
<1>1. MainInv => UnpreparedIsLast
  <2> SUFFICES ASSUME MainInv, NEW m \in 1..Len(measured), NEW n \in 1..Len(measured),
                      measured[m].entry < measured[n].entry
               PROVE  measured[m].queue = measured[m].entry
      BY DEF UnpreparedIsLast
  <2>1. measured \in [1..Len(measured) -> [device : 0..(NumDevices - 1), size : Tokens,
                                           entry  : Nat, queue : Nat \cup {NULL}]]
      BY LenProperties DEF MainInv, TypeInv
  <2>2. measured[m].entry \in Nat /\ measured[n].entry \in Nat /\ dev \in Nat
      BY <2>1 DEF MainInv, TypeInv
  <2>3. measured[n].entry <= dev
    <3>1. CASE pc \in {"prepare", "exit"}
        BY <2>2, <3>1 DEF MainInv, MeasuredInv
    <3>2. CASE pc \in {"measure", "release", "error"}
        BY <2>2, <3>2 DEF MainInv, MeasuredInv
    <3>3. CASE pc \notin Running
        BY <3>3, EmptySeq DEF MainInv, MeasuredInv
    <3> QED BY <3>1, <3>2, <3>3 DEF Running
  <2> QED BY <2>2, <2>3 DEF MainInv, MeasuredInv
<1> QED BY MainInvariant, <1>1, PTL
==============================================================================
