------------------------- MODULE MemStreamingProofs -------------------------
(***************************************************************************)
(* Proofs about MemStreaming, for every device, number of iterations,      *)
(* repeats and failures.  The first, of the clock and of the means, use    *)
(* nothing of the kernel but when it is idle; the others show what its     *)
(* work-items compute, in whatever order they run.                         *)
(***************************************************************************)
EXTENDS MemStreaming, SequenceTheorems, FiniteSetTheorems, WellFoundedInduction, TLAPS

(* After a turn of the warm-up nothing is in the queue, and while the      *)
(* clock runs, every launch accepted was begun or is queued.               *)
WindowInv ==
    /\ clock \in BOOLEAN /\ timed \in Nat /\ i \in Nat
    /\ queued \in Nat /\ leftover \in Nat
    /\ clock <=> pc = "measure"
    /\ clock => timed + queued = i /\ leftover = 0 /\ i <= Iterations
    /\ pc = "warmup" /\ i > 0 => queued = 0 /\ leftover = 0

LEMMA WindowInit == Init => WindowInv
<1> SUFFICES ASSUME Init PROVE WindowInv
    OBVIOUS
<1>1. /\ pc = "setup" /\ clock = FALSE
      /\ timed = 0 /\ i = 0 /\ queued = 0 /\ leftover = 0
    BY DEF Init
<1>2. clock \in BOOLEAN /\ ~clock
    BY <1>1, Zenon
<1> QED BY <1>1, <1>2 DEF WindowInv

LEMMA WindowStep == WindowInv /\ [Next]_vars => WindowInv'
<1> SUFFICES ASSUME WindowInv, [Next]_vars PROVE WindowInv'
    OBVIOUS
<1> USE StreamingAssumption
<1> USE DEF position, window
<1>1. CASE Setup
  <2>1. /\ i' = 0 /\ UNCHANGED <<clock, timed>> /\ pc = "setup"
        /\ pc' \in {"warmup", "failed"}
      BY <1>1 DEF Setup
  <2>2. queued' \in Nat /\ leftover' \in Nat
    <3>1. \/ queued' = 0 /\ leftover' \in {leftover + queued, leftover + queued + 1}
          \/ UNCHANGED <<queued, leftover>>
      <4>1. LeaveBehind \/ UNCHANGED <<queued, leftover>>
          BY <1>1 DEF Setup
      <4>2. ASSUME LeaveBehind
            PROVE  queued' = 0 /\ leftover' \in {leftover + queued, leftover + queued + 1}
          BY <4>2 DEF LeaveBehind, WindowInv
      <4> QED BY <4>1, <4>2
    <3> QED BY <3>1 DEF WindowInv
  <2>3. ~clock /\ ~clock' /\ clock' \in BOOLEAN
      BY <2>1 DEF WindowInv
  <2>4. timed' \in Nat /\ i' \in Nat /\ pc' # "measure" /\ ~(i' > 0)
      BY <2>1 DEF WindowInv
  <2> QED BY <2>2, <2>3, <2>4, Zenon DEF WindowInv
<1>2. CASE Warmup
    BY <1>2 DEF Warmup, Enqueue, Refused, WindowInv
<1>3. CASE FinishWarmup
    BY <1>3 DEF FinishWarmup, Drained, WindowInv
<1>4. CASE StartClock
    BY <1>4 DEF StartClock, WindowInv
<1>5. CASE Measure
  <2>1. pc = "measure" /\ clock /\ timed + queued = i /\ leftover = 0
        /\ i < Iterations /\ UNCHANGED <<timed, leftover>>
      BY <1>5 DEF Measure, WindowInv
  <2>2. CASE Enqueue /\ i' = i + 1 /\ UNCHANGED <<pc, clock>>
      BY <2>1, <2>2 DEF Enqueue, WindowInv
  <2>3. CASE Refused /\ pc' = "failed" /\ clock' = FALSE /\ UNCHANGED i
      BY <2>1, <2>3 DEF Refused, WindowInv
  <2> QED BY <1>5, <2>2, <2>3 DEF Measure
<1>6. CASE StopClock
    BY <1>6 DEF StopClock, WindowInv
<1>7. CASE NextPass
    BY <1>7 DEF NextPass, WindowInv
<1>8. CASE Succeeded \/ Failed
  <2>1. /\ UNCHANGED <<clock, timed, i, queued, leftover>>
        /\ pc \in {"ran", "failed"}
      BY <1>8 DEF Succeeded, Failed
  <2>2. pc' \in {"setup", "exit"}
      BY <1>8 DEF Succeeded, Failed, NextRepeat, Report
  <2> QED BY <2>1, <2>2 DEF WindowInv
<1>9. CASE ExecuteLeftover
    BY <1>9 DEF ExecuteLeftover, WindowInv
<1>10. CASE Begin
    BY <1>10 DEF Begin, WindowInv
<1>11. CASE Compute \/ UNCHANGED vars
    BY <1>11 DEF Compute, vars, hostVars, WindowInv
<1> QED BY <1>1, <1>2, <1>3, <1>4, <1>5, <1>6, <1>7, <1>8, <1>9, <1>10, <1>11
        DEF Next, Host

LEMMA StopwatchInit == Init => Watch!Init
  BY DEF Init, Watch!Init

LEMMA StopwatchStep == WindowInv /\ [Next]_vars => [Watch!Next]_(Watch!vars)
<1> SUFFICES ASSUME WindowInv, [Next]_vars PROVE [Watch!Next]_(Watch!vars)
    OBVIOUS
<1> USE StreamingAssumption
<1> USE DEF position, window
<1>1. CASE Setup \/ Warmup \/ FinishWarmup \/ Succeeded \/ Failed
  <2>1. UNCHANGED clock /\ pc \notin {"measure", "passed"}
      BY <1>1 DEF Setup, Warmup, FinishWarmup, Succeeded, Failed
  <2>2. pc' # "passed"
    <3>1. CASE Setup \/ Warmup \/ FinishWarmup
        BY <3>1 DEF Setup, Warmup, FinishWarmup
    <3>2. CASE Succeeded \/ Failed
        BY <3>2 DEF Succeeded, Failed, NextRepeat, Report
    <3> QED BY <1>1, <3>1, <3>2
  <2>3. ~clock /\ ~clock'
      BY <2>1 DEF WindowInv
  <2> QED BY <2>1, <2>2, <2>3 DEF Watch!vars
<1>2. CASE StartClock
    BY <1>2 DEF StartClock, WindowInv, Watch!Next, Watch!Start
<1>3. CASE Measure
    BY <1>3 DEF Measure, Enqueue, Refused, WindowInv, Watch!Next, Watch!Submit,
       Watch!Reset
<1>4. CASE StopClock
    BY <1>4 DEF StopClock, Drained, WindowInv, Watch!Next, Watch!Stop
<1>5. CASE NextPass
    BY <1>5 DEF NextPass, WindowInv, Watch!Next, Watch!Reset
<1>6. CASE ExecuteLeftover
    BY <1>6 DEF ExecuteLeftover, WindowInv, Watch!vars
<1>7. CASE Begin
    BY <1>7 DEF Begin, WindowInv, Watch!Next, Watch!Execute, Watch!vars
<1>8. CASE Compute \/ UNCHANGED vars
    BY <1>8 DEF Compute, vars, hostVars, Watch!vars
<1> QED BY <1>1, <1>2, <1>3, <1>4, <1>5, <1>6, <1>7, <1>8 DEF Next, Host

\* The clock of a pass covers exactly its own launches.
THEOREM PassesAreTimed == Spec => ImplementsStopwatch
<1>1. WindowInv /\ [Next]_vars => WindowInv'
    BY WindowStep
<1>2. Spec => Watch!Init /\ [][Watch!Next]_(Watch!vars)
    BY WindowInit, StopwatchInit, StopwatchStep, <1>1, PTL DEF Spec
<1> QED BY <1>2 DEF ImplementsStopwatch, Watch!Spec
-----------------------------------------------------------------------------
(* The means.                                                              *)

(* All the repeats so far are summed: one that fails ends its line.        *)
SumInv ==
    /\ repeat \in 1..Repeats
    /\ summed = repeat - 1
    /\ printed \in Seq({NaN, Repeats})

LEMMA Reported ==
    ASSUME SumInv, NEW STATE sum, Report(sum), sum \in {NaN, Repeats}
    PROVE  SumInv'
<1>1. summed' = 0 /\ repeat' = 1 /\ printed' = Append(printed, sum)
    BY DEF Report
<1>2. printed' \in Seq({NaN, Repeats})
    BY <1>1, AppendProperties DEF SumInv
<1> QED BY <1>1, <1>2, StreamingAssumption DEF SumInv

LEMMA SumStep == SumInv /\ [Next]_vars => SumInv'
<1> SUFFICES ASSUME SumInv, [Next]_vars PROVE SumInv'
    OBVIOUS
<1> USE StreamingAssumption
<1> USE DEF position, window
<1>1. CASE Succeeded
  <2>1. CASE repeat < Repeats
    <3>1. repeat' = repeat + 1 /\ summed' = summed + 1 /\ UNCHANGED printed
        BY <1>1, <2>1 DEF Succeeded, NextRepeat
    <3> QED BY <2>1, <3>1 DEF SumInv
  <2>2. CASE ~(repeat < Repeats)
    <3>1. Report(summed + 1)
        BY <1>1, <2>2 DEF Succeeded, NextRepeat
    <3>2. summed + 1 = Repeats
        BY <2>2 DEF SumInv
    <3> QED BY <3>1, <3>2, Reported
  <2> QED BY <2>1, <2>2
<1>2. CASE Failed
    BY <1>2, Reported DEF Failed
<1>3. CASE \/ Setup \/ Warmup \/ FinishWarmup \/ StartClock \/ Measure
           \/ StopClock \/ NextPass \/ ExecuteLeftover \/ Begin \/ Compute
           \/ UNCHANGED vars
  <2>1. UNCHANGED <<repeat, summed, printed>>
      BY <1>3 DEF Setup, Warmup, FinishWarmup, StartClock, Measure, StopClock,
         NextPass, ExecuteLeftover, Begin, Compute, vars, hostVars
  <2> QED BY <2>1 DEF SumInv
<1> QED BY <1>1, <1>2, <1>3 DEF Next, Host

\* What is printed is a mean over all the repeats, or not a number.
THEOREM MeansAreOfAllRepeats == Spec => []MeanOfAllRepeats
<1>1. Init => SumInv
  <2>1. ASSUME Init PROVE printed = << >> /\ repeat = 1 /\ summed = 0
      BY <2>1 DEF Init
  <2> QED BY <2>1, EmptySeq, StreamingAssumption DEF SumInv
<1>2. SumInv => MeanOfAllRepeats
    BY DEF SumInv, MeanOfAllRepeats
<1> QED BY <1>1, <1>2, SumStep, PTL DEF Spec
-----------------------------------------------------------------------------
(* What a launch is compiled for, and where its work-items are.            *)

(* The arrays have the cells the kernel is compiled for, but for the cases *)
(* of StraysOnlyWithoutMemory.                                             *)
ShapeInv ==
    /\ device \in Devices /\ f4 \in Vectors /\ type \in Types
    /\ larg \in BOOLEAN /\ failures \in Nat /\ ws \in {0, 1}
    /\ units \in 1..Groups /\ localRange \in 1..Locals /\ ELEMENTS \in 1..Cells
    /\ type # "private" => localRange <= ELEMENTS
    /\ allocated \in Nat
    /\ allocated # ELEMENTS => \/ type = "local" /\ larg /\ f4 = 4
                               \/ type = "global" /\ failures > 0

\* The cells of s1 a work-item is dealt, and those of s2 it fills.
Dealt(it)   == {c \in 0..(ELEMENTS - 1) : c % Step = First(it)}
Fills(it)   == {c \in 0..(2 * ELEMENTS - 1) :
                  (IF c < ELEMENTS THEN c ELSE c - ELEMENTS) % Step = First(it)}

(* Each work-item is at a cell it is dealt, and none is still filling when *)
(* one of its group has passed the barrier.                                *)
PhaseInv ==
    /\ phase \in [AllItems -> {"lower", "upper", "barrier", "add", "sum", "done"}]
    /\ idx \in [AllItems -> Nat] /\ launches \in Nat
    /\ \A it \in AllItems : phase[it] # "done" => it \in Items /\ launches > 0
    /\ \A it \in Items :
         /\ phase[it] \in {"lower", "add", "sum"} => idx[it] \in Dealt(it)
         /\ phase[it] = "upper" => idx[it] - ELEMENTS \in Dealt(it)
         /\ phase[it] = "barrier" => idx[it] = First(it)
    /\ \A it, other \in Items :
         it[1] = other[1] /\ phase[it] \in {"lower", "upper"} =>
           phase[other] \in {"lower", "upper", "barrier"}

\* How far a work-item has filled its part of s2.
Reached(it) == IF phase[it] \in {"lower", "upper"} THEN idx[it]
               ELSE IF launches = 0 THEN 0 ELSE 2 * ELEMENTS

FillInv == \A it \in Items : \A c \in Fills(it) : c < Reached(it) => MayBeHalf(it, c)

(* Only the first launch reads words nothing was stored in.                *)
DirtyInv ==
    /\ warm \in BOOLEAN
    /\ warm <=> type = "global" /\ launches > 1
    /\ dirty \subseteq {1} /\ (dirty # {} => type = "global" /\ launches > 0)

\* What a work-item's phase says of its cells.
Content(it, c) ==
    CASE phase[it] = "add" -> IF c < idx[it] THEN 1 ELSE 0
      [] phase[it] = "sum" -> 1
      [] OTHER             -> 0

Stored(it) == {c \in Dealt(it) : phase[it] # "done" /\ (phase[it] = "lower" => c < idx[it])}

\* What it has added up: every launch that has ended, and some of this one.
Ended(it)  == IF phase[it] = "done" THEN launches ELSE launches - 1
Passed(it) == {c \in Dealt(it) : c < idx[it]}
AddedUp(it) ==
    (Ended(it) * Cardinality(Dealt(it)))
      + (IF phase[it] = "sum" THEN Cardinality(Passed(it)) ELSE 0)

Memory == AllItems \X (0..(Cells - 1))

(* The cells a work-item is dealt hold what it stored in them, and its     *)
(* output what it has added up.                                            *)
ExactInv ==
    type # "global" =>
      /\ s1 \in [Memory -> Int] /\ output \in [AllItems -> Int]
      /\ \A it \in Items :
           /\ \A c \in Stored(it) : s1[<<Space(it), c>>] = Content(it, c)
           /\ output[it] = AddedUp(it)

StrayInv == stray \in BOOLEAN /\ StraysOnlyWithoutMemory

KernelInv == ShapeInv /\ PhaseInv /\ FillInv /\ DirtyInv /\ ExactInv /\ StrayInv

(* The launches on the buffers of a pass are those accepted.               *)
WarmInv ==
    /\ warmed \in Nat /\ failures \in Nat /\ launches \in Nat /\ timed \in Nat /\ i \in Nat
    /\ queued \in Nat
    /\ pc \in {"warmup", "finish", "measure", "passed"} /\ ready # "queue" =>
         launches = 0 /\ queued = 0
    /\ pc \in {"warmup", "finish"} => launches + queued = warmed
    /\ pc = "warmup" /\ ready = "queue" => failures + warmed >= i
    /\ pc = "finish" /\ ready = "queue" => failures + warmed >= i + 1
    /\ pc \in {"measure", "passed"} /\ ready = "queue" => failures + warmed >= WARMUP_CYCLES
    /\ pc = "measure" => launches = warmed + timed
    /\ pc = "passed" => launches = warmed + timed /\ queued = 0
-----------------------------------------------------------------------------
(* Halving.                                                                *)

\* A set of numbers has a least one.
LEMMA NatMin ==
    ASSUME NEW T \in SUBSET Nat, T # {}
    PROVE  \E x \in T : \A y \in T : x <= y
<1> DEFINE R == OpToRel(<, Nat)
<1>1. IsWellFoundedOn(R, Nat)
    BY NatLessThanWellFounded
<1>2. PICK x \in T : \A y \in T : ~(<<y, x>> \in R)
  <2> HIDE DEF R
  <2> QED BY <1>1, WFMin
<1>3. \A y \in T : ~(y < x)
    BY <1>2 DEF OpToRel
<1> QED BY <1>3

\* Halvings of the numbers up to p.
IsHalved(h, p) == h = [m \in 0..p |-> IF m <= elements THEN m ELSE h[m \div 2]]

\* There are such, for every p.
LEMMA HalvedExists ==
    ASSUME elements \in Nat, NEW n \in Nat
    PROVE  \E h : IsHalved(h, n)
<1> DEFINE T == {p \in Nat : ~\E h : IsHalved(h, p)}
<1> SUFFICES ASSUME T # {} PROVE FALSE
    OBVIOUS
<1>1. PICK p \in T : \A y \in T : p <= y
    BY NatMin
<1>2. CASE p = 0
  <2> DEFINE h == [m \in 0..0 |-> 0]
  <2>1. h = [m \in 0..0 |-> IF m <= elements THEN m ELSE h[m \div 2]]
      OBVIOUS
  <2> QED BY <1>2, <2>1 DEF IsHalved
<1>3. CASE p # 0
  <2>1. p - 1 \in Nat /\ p - 1 \notin T
      BY <1>1, <1>3
  <2>2. PICK g : IsHalved(g, p - 1)
      BY <2>1
  <2> DEFINE h == [m \in 0..p |-> IF m < p THEN g[m]
                                  ELSE IF m <= elements THEN m ELSE g[m \div 2]]
  <2>3. \A m \in 0..(p - 1) : h[m] = g[m]
      BY <2>1
  <2>4. \A m \in 0..p : m > elements => m \div 2 \in 0..(p - 1) /\ h[m \div 2] = g[m \div 2]
    <3> SUFFICES ASSUME NEW m \in 0..p, m > elements
                 PROVE  m \div 2 \in 0..(p - 1)
        BY <2>3
    <3>1. m > 0 /\ m \div 2 < m /\ m \div 2 \in Nat
        OBVIOUS
    <3> QED BY <2>1, <3>1
  <2>5. \A m \in 0..(p - 1) : g[m] = IF m <= elements THEN m ELSE g[m \div 2]
      BY <2>2 DEF IsHalved
  <2>6. \A m \in 0..p : h[m] = IF m <= elements THEN m ELSE h[m \div 2]
    <3> TAKE m \in 0..p
    <3>1. CASE m < p
      <4>1. m \in 0..(p - 1)
          BY <3>1
      <4> HIDE DEF h
      <4> QED BY <2>3, <2>4, <2>5, <4>1
    <3>2. CASE m = p
      <4>1. h[p] = IF p <= elements THEN p ELSE g[p \div 2]
          OBVIOUS
      <4> HIDE DEF h
      <4> QED BY <2>4, <3>2, <4>1
    <3> QED BY <3>1, <3>2
  <2>7. h = [m \in 0..p |-> h[m]]
      OBVIOUS
  <2> HIDE DEF h
  <2>8. h = [m \in 0..p |-> IF m <= elements THEN m ELSE h[m \div 2]]
      BY <2>6, <2>7
  <2> QED BY <2>8 DEF IsHalved
<1> QED BY <1>2, <1>3

\* A number that is halved until it fits stays at least 1.
LEMMA HalvedFits ==
    ASSUME elements \in Nat \ {0}, NEW n \in Nat \ {0}
    PROVE  Halved(n) \in 1..n /\ Halved(n) <= elements
<1> DEFINE h == CHOOSE halved : halved =
                  [m \in 0..n |-> IF m <= elements THEN m ELSE halved[m \div 2]]
<1>1. IsHalved(h, n)
  <2>1. PICK g : IsHalved(g, n)
      BY HalvedExists
  <2> QED BY <2>1 DEF IsHalved
<1>2. Halved(n) = h[n]
    BY DEF Halved
<1> HIDE DEF h
<1>3. \A m \in 0..n : h[m] = IF m <= elements THEN m ELSE h[m \div 2]
    BY <1>1 DEF IsHalved
<1> DEFINE T == {m \in 1..n : ~(h[m] \in 1..m /\ h[m] <= elements)}
<1>4. T = {}
  <2> SUFFICES ASSUME T # {} PROVE FALSE
      OBVIOUS
  <2>1. T \in SUBSET Nat
      OBVIOUS
  <2>2. PICK x \in T : \A y \in T : x <= y
      BY <2>1, NatMin
  <2>3. x \in 1..n /\ x > elements
      BY <1>3
  <2>4. x \div 2 \in 1..(x - 1)
      BY <2>3
  <2>5. x \div 2 \in 1..n /\ x \div 2 \notin T
      BY <2>2, <2>3, <2>4
  <2>6. h[x] = h[x \div 2]
      BY <1>3, <2>3
  <2>7. h[x \div 2] \in 1..(x \div 2) /\ h[x \div 2] <= elements
      BY <2>5
  <2>8. h[x] \in 1..x /\ h[x] <= elements
      BY <2>3, <2>4, <2>6, <2>7
  <2> QED BY <2>8
<1>5. n \in 1..n
    OBVIOUS
<1> QED BY <1>2, <1>4, <1>5
-----------------------------------------------------------------------------
(* The shape of a launch.                                                  *)

\* What a pass is compiled for.
LEMMA PassShape ==
    ASSUME ShapeInv
    PROVE  /\ elements \in 1..Cells
           /\ PassLocal \in 1..Locals /\ PassUnits \in 1..Groups /\ PassElements \in 1..Cells
           /\ type # "private" => PassLocal <= PassElements
           /\ ArgumentCells \in Nat
           /\ type # "private" /\ f4 # 4 => ArgumentCells = PassElements
<1> USE DEF ShapeInv
<1>1. elements \in 1..Cells /\ Cells \in Nat
    BY StreamingAssumption, KernelAssumption DEF elements
<1>2. device[1] \in 1..Locals /\ device[2] \in 1..Groups /\ Locals \in Nat \ {0}
      /\ Groups \in Nat \ {0}
    BY StreamingAssumption, KernelAssumption
<1>3. Halved(device[1]) \in 1..device[1] /\ Halved(device[1]) <= elements
    BY <1>1, <1>2, HalvedFits
<1>4. PassLocal \in 1..Locals /\ PassLocal <= elements /\ PassUnits \in 1..Groups
    BY <1>1, <1>2, <1>3 DEF PassLocal, PassUnits
<1>5. PassElements \in 1..Cells /\ (type # "private" => PassElements = elements)
  <2>1. CASE type = "private"
    <3> DEFINE l == PassLocal
               e == elements
    <3>1. l \in Nat \ {0} /\ e \in Nat \ {0}
        BY <1>1, <1>2, <1>4
    <3> HIDE DEF l, e
    <3> DEFINE q == (e + l - 1) \div l
    <3>2. q \in Nat /\ l * q <= e + l - 1 /\ e + l - 1 < (l * q) + l
        BY <3>1
    <3> HIDE DEF q
    <3>3. q # 0
        BY <3>1, <3>2
    <3>4. q <= e
      <4>1. SUFFICES ASSUME q >= e + 1 PROVE FALSE
          BY <3>1, <3>2
      <4>2. PICK z \in Nat : q = (e + 1) + z
        <5>1. q - (e + 1) \in Nat /\ q = (e + 1) + (q - (e + 1))
            BY <3>1, <3>2, <4>1
        <5> QED BY <5>1
      <4>3. l * q = (l * e) + l + (l * z) /\ l * z \in Nat
          BY <3>1, <4>2
      <4>4. l * e >= e
        <5>1. PICK y \in Nat : l = y + 1
          <6>1. l - 1 \in Nat /\ l = (l - 1) + 1
              BY <3>1
          <6> QED BY <6>1
        <5>2. l * e = (y * e) + e /\ y * e \in Nat
            BY <3>1, <5>1
        <5> QED BY <3>1, <5>2
      <4>5. l * e \in Nat
          BY <3>1
      <4> QED BY <3>1, <3>2, <4>3, <4>4, <4>5
    <3>5. q \in 1..Cells
        BY <1>1, <3>2, <3>3, <3>4 DEF e
    <3> QED BY <2>1, <3>5 DEF PassElements, q, l, e
  <2>2. CASE type # "private"
      BY <1>1, <2>2 DEF PassElements
  <2> QED BY <2>1, <2>2
<1>6. ArgumentCells \in Nat /\ (f4 # 4 => ArgumentCells = elements)
    BY <1>1 DEF ArgumentCells
<1> QED BY <1>1, <1>4, <1>5, <1>6

\* A call costs no failure less.
LEMMA Costs ==
    ASSUME failures \in Nat, NEW STATE must, Fails(must)
    PROVE  failures' \in Nat /\ failures' >= failures
BY DEF Fails

\* Each step keeps the shape.
LEMMA ShapeStep ==
    ASSUME ShapeInv, [Next]_vars
    PROVE  ShapeInv'
<1> USE DEF ShapeInv, shape, input, position, window
<1>1. CASE Setup
  <2>1. /\ UNCHANGED <<device, f4, type, larg, ws>>
      BY <1>1 DEF Setup
  <2>2. CASE /\ localRange' = PassLocal /\ units' = PassUnits /\ ELEMENTS' = PassElements
             /\ \/ /\ allocated' = IF type = "local" /\ larg THEN ArgumentCells
                                                             ELSE PassElements
                   /\ UNCHANGED failures
                \/ /\ type = "global" /\ allocated' = 0
                   /\ Fails(FALSE)
    <3>1. /\ localRange' \in 1..Locals /\ units' \in 1..Groups /\ ELEMENTS' \in 1..Cells
          /\ type # "private" => localRange' <= ELEMENTS'
        BY <2>2, PassShape
    <3>2. CASE /\ allocated' = IF type = "local" /\ larg THEN ArgumentCells ELSE PassElements
               /\ UNCHANGED failures
      <4>1. allocated' \in Nat
          BY <2>2, <3>1, <3>2, PassShape
      <4>2. allocated' # ELEMENTS' => type = "local" /\ larg /\ f4 = 4
          BY <2>2, <3>2, PassShape
      <4> QED BY <2>1, <3>1, <3>2, <4>1, <4>2
    <3>3. CASE type = "global" /\ allocated' = 0 /\ Fails(FALSE)
      <4>1. failures' = failures + 1
          BY <3>3 DEF Fails
      <4> QED BY <2>1, <3>1, <3>3, <4>1
    <3> QED BY <2>2, <3>2, <3>3
  <2>3. CASE /\ Fails(ready = "none")
             /\ UNCHANGED <<units, localRange, ELEMENTS, allocated>>
    <3>1. failures' \in Nat /\ failures' >= failures
        BY <2>3 DEF Fails
    <3> QED BY <2>1, <2>3, <3>1
  <2> QED BY <1>1, <2>2, <2>3 DEF Setup
<1>2. CASE Warmup \/ Measure
  <2>1. UNCHANGED <<device, f4, type, larg, ws, units, localRange, ELEMENTS, allocated>>
      BY <1>2 DEF Warmup, Measure, kernelVars
  <2>2. failures' \in Nat /\ failures' >= failures
      BY <1>2 DEF Warmup, Measure, Enqueue, Refused, Fails
  <2> QED BY <2>1, <2>2
<1>3. CASE FinishWarmup \/ StartClock \/ StopClock \/ ExecuteLeftover
    BY <1>3 DEF FinishWarmup, StartClock, StopClock, ExecuteLeftover, kernelVars
<1>4. CASE NextPass
    BY <1>4 DEF NextPass, kernelVars
<1>5. CASE Succeeded \/ Failed
  <2>1. UNCHANGED <<device, f4, type, failures, units, localRange, ELEMENTS, allocated>>
      BY <1>5 DEF Succeeded, Failed, kernelVars
  <2>2. ws' = 0 /\ (larg' = larg \/ larg' = (type = "local"))
      BY <1>5 DEF Succeeded, Failed, NextRepeat, Report
  <2>3. larg' \in BOOLEAN
      BY <2>2, Zenon
  <2>4. type = "local" /\ larg => larg'
      BY <2>2
  <2> QED BY <2>1, <2>2, <2>3, <2>4
<1>6. CASE Begin
    BY <1>6 DEF Begin, BeginLaunch
<1>7. CASE Compute
  <2>1. UNCHANGED shape
      BY <1>7 DEF Compute, Running, Work, FillLower, FillUpper, Add, Sum, Barrier
  <2> QED BY <1>7, <2>1 DEF Compute, hostVars
<1>8. CASE UNCHANGED vars
    BY <1>8 DEF vars, hostVars, kernelVars
<1> QED BY <1>1, <1>2, <1>3, <1>4, <1>5, <1>6, <1>7, <1>8 DEF Next, Host
-----------------------------------------------------------------------------
(* The cells of the work-items.                                            *)

\* Numbers that are the same modulo l are at least l apart.
LEMMA Apart ==
    ASSUME NEW l \in Nat \ {0}, NEW a \in Nat, NEW c \in Nat, a % l = c % l
    PROVE  /\ (a + l) % l = a % l
           /\ c < a + l => c <= a
           /\ a % l <= a
<1> DEFINE p == a \div l
           q == c \div l
           r == a % l
<1>1. /\ a = (l * p) + r /\ c = (l * q) + r /\ p \in Nat /\ q \in Nat /\ r \in Nat /\ r < l
    OBVIOUS
<1> HIDE DEF p, q, r
<1>2. a + l = (l * (p + 1)) + r
    BY <1>1
<1>3. ((l * (p + 1)) + r) % l = r
    BY <1>1
<1>4. c < a + l => c <= a
  <2> SUFFICES ASSUME c < a + l, a < c PROVE FALSE
      BY <1>1
  <2>1. l * q < (l * p) + l /\ l * p < l * q
      BY <1>1
  <2>2. CASE q <= p
    <3>1. PICK z \in Nat : p = q + z
      <4>1. p - q \in Nat /\ p = q + (p - q)
          BY <1>1, <2>2
      <4> QED BY <4>1
    <3>2. l * p = (l * q) + (l * z) /\ l * z \in Nat /\ l * q \in Nat
        BY <1>1, <3>1
    <3> QED BY <2>1, <3>2
  <2>3. CASE q > p
    <3>1. PICK z \in Nat : q = (p + 1) + z
      <4>1. q - (p + 1) \in Nat /\ q = (p + 1) + (q - (p + 1))
          BY <1>1, <2>3
      <4> QED BY <4>1
    <3>2. l * q = (l * p) + l + (l * z) /\ l * z \in Nat /\ l * p \in Nat
        BY <1>1, <3>1
    <3> QED BY <2>1, <3>2
  <2> QED BY <1>1, <2>2, <2>3
<1>5. r <= a
  <2>1. l * p \in Nat
      BY <1>1
  <2> QED BY <1>1, <2>1
<1> QED BY <1>2, <1>3, <1>4, <1>5 DEF r

\* Where the work-items are and what they are dealt.
LEMMA ItemFacts ==
    ASSUME ShapeInv
    PROVE  /\ Step \in Nat \ {0} /\ ELEMENTS \in Nat \ {0} /\ Items \subseteq AllItems
           /\ \A it \in Items :
                /\ it = <<it[1], it[2]>> /\ it[1] \in 0..(units - 1)
                /\ it[2] \in 0..(localRange - 1)
                /\ First(it) \in Dealt(it) /\ First(it) \in Nat /\ Space(it) \in AllItems
                /\ \A c \in Dealt(it) :
                     /\ c \in Nat /\ c < ELEMENTS /\ First(it) <= c
                     /\ <<Space(it), c>> \in AllItems \X (0..(Cells - 1))
           /\ type # "global" =>
                \A it, other \in Items : \A c \in Dealt(it) :
                  c \in Dealt(other) /\ Space(it) = Space(other) => it = other
<1>1. /\ units \in 1..Groups /\ localRange \in 1..Locals /\ ELEMENTS \in 1..Cells
      /\ Groups \in Nat /\ Locals \in Nat /\ Cells \in Nat
      /\ type \in Types /\ (type # "private" => localRange <= ELEMENTS)
    BY KernelAssumption DEF ShapeInv
<1>2. Step \in Nat \ {0} /\ ELEMENTS \in Nat \ {0}
    BY <1>1 DEF Step
<1>3. Items \subseteq AllItems
    BY <1>1 DEF Items, AllItems
<1>4. ASSUME NEW it \in Items
      PROVE  /\ it = <<it[1], it[2]>> /\ it[1] \in 0..(units - 1)
             /\ it[2] \in 0..(localRange - 1)
             /\ First(it) \in Dealt(it) /\ First(it) \in Nat /\ Space(it) \in AllItems
             /\ \A c \in Dealt(it) :
                  /\ c \in Nat /\ c < ELEMENTS /\ First(it) <= c
                  /\ <<Space(it), c>> \in AllItems \X (0..(Cells - 1))
  <2>1. it = <<it[1], it[2]>> /\ it[1] \in 0..(units - 1) /\ it[2] \in 0..(localRange - 1)
      BY DEF Items
  <2>2. First(it) \in Nat /\ First(it) < Step /\ First(it) < ELEMENTS
      BY <1>1, <2>1 DEF First, Step
  <2>3. First(it) \in Dealt(it)
    <3> DEFINE a == First(it)
               l == Step
    <3>1. a \in Nat /\ a < l /\ l \in Nat \ {0}
        BY <1>2, <2>2
    <3> HIDE DEF a, l
    <3>2. a % l = a
        BY <3>1
    <3> QED BY <1>1, <2>2, <3>2 DEF Dealt, a, l
  <2>4. Space(it) \in AllItems
    <3>1. <<it[1], 0>> \in AllItems /\ <<0, 0>> \in AllItems /\ it \in AllItems
        BY <1>1, <1>3, <2>1 DEF AllItems
    <3> QED BY <1>1, <3>1 DEF Space, Types
  <2>5. ASSUME NEW c \in Dealt(it)
        PROVE  /\ c \in Nat /\ c < ELEMENTS /\ First(it) <= c
               /\ <<Space(it), c>> \in AllItems \X (0..(Cells - 1))
    <3>1. c \in 0..(ELEMENTS - 1) /\ c % Step = First(it)
        BY DEF Dealt
    <3>2. c % Step <= c
      <4> DEFINE l == Step
      <4>1. l \in Nat \ {0} /\ c \in Nat
          BY <1>2, <3>1
      <4> HIDE DEF l
      <4>2. c % l <= c
          BY <4>1, Apart
      <4> QED BY <4>2 DEF l
    <3>3. c \in 0..(Cells - 1)
        BY <1>1, <3>1
    <3> QED BY <1>1, <2>4, <3>1, <3>2, <3>3
  <2> QED BY <2>1, <2>2, <2>3, <2>4, <2>5
<1>5. ASSUME type # "global", NEW it \in Items, NEW other \in Items, NEW c \in Dealt(it),
             c \in Dealt(other), Space(it) = Space(other)
      PROVE  it = other
  <2>1. it = <<it[1], it[2]>> /\ other = <<other[1], other[2]>>
      BY <1>4
  <2>2. First(it) = First(other)
      BY <1>5 DEF Dealt
  <2>3. CASE type = "private"
      BY <1>5, <2>3 DEF Space
  <2>4. CASE type = "local"
    <3>1. it[2] = other[2] /\ it[1] = other[1]
        BY <1>5, <2>2, <2>4 DEF First, Space
    <3> QED BY <2>1, <3>1
  <2> QED BY <1>1, <1>5, <2>3, <2>4 DEF Types
<1> QED BY <1>2, <1>3, <1>4, <1>5

\* A work-item goes from one of its cells to the next.
LEMMA NextCell ==
    ASSUME ShapeInv, NEW it \in Items, NEW a \in Dealt(it)
    PROVE  /\ a + Step < ELEMENTS => a + Step \in Dealt(it)
           /\ \A c \in Dealt(it) : c < a + Step => c <= a
           /\ ~(a + Step < ELEMENTS) => \A c \in Dealt(it) : c <= a
<1>1. Step \in Nat \ {0} /\ ELEMENTS \in Nat \ {0}
    BY ItemFacts
<1>2. a \in Nat /\ a < ELEMENTS /\ a % Step = First(it)
    BY ItemFacts DEF Dealt
<1>3. a + Step < ELEMENTS => a + Step \in Dealt(it)
  <2>1. (a + Step) % Step = a % Step
      BY <1>1, <1>2, Apart
  <2> QED BY <1>1, <1>2, <2>1 DEF Dealt
<1>4. ASSUME NEW c \in Dealt(it)
      PROVE  (c < a + Step => c <= a) /\ c < ELEMENTS /\ c \in Nat
  <2>1. c \in Nat /\ c < ELEMENTS /\ c % Step = a % Step
      BY <1>2, ItemFacts DEF Dealt
  <2> QED BY <1>1, <1>2, <2>1, Apart
<1> QED BY <1>1, <1>2, <1>3, <1>4

\* What depends on the shape alone.
LEMMA SameShape ==
    ASSUME UNCHANGED shape
    PROVE  /\ Items' = Items /\ Step' = Step /\ ELEMENTS' = ELEMENTS /\ type' = type
           /\ \A it : /\ First(it)' = First(it) /\ Space(it)' = Space(it)
                      /\ Dealt(it)' = Dealt(it) /\ Fills(it)' = Fills(it)
<1> USE DEF shape
<1>1. Items' = Items /\ Step' = Step /\ ELEMENTS' = ELEMENTS /\ type' = type
    BY DEF Items, Step
<1>2. ASSUME NEW it
      PROVE  First(it)' = First(it) /\ Space(it)' = Space(it)
    BY DEF First, Space
<1>3. ASSUME NEW it
      PROVE  Dealt(it)' = Dealt(it) /\ Fills(it)' = Fills(it)
    BY <1>1, <1>2 DEF Dealt, Fills
<1> QED BY <1>1, <1>2, <1>3

Phases == {"lower", "upper", "barrier", "add", "sum", "done"}

\* A work-item goes on, the others stay.
LEMMA Advances ==
    ASSUME ShapeInv, PhaseInv, NEW it \in Items, NEW STATE limit, NEW nextPhase \in Phases,
           NEW STATE start, start \in Nat, Advance(it, limit, nextPhase, start)
    PROVE  /\ phase' \in [AllItems -> Phases] /\ idx' \in [AllItems -> Nat]
           /\ \A other \in AllItems :
                other # it => phase'[other] = phase[other] /\ idx'[other] = idx[other]
           /\ \/ /\ idx[it] + Step < limit
                 /\ phase'[it] = phase[it] /\ idx'[it] = idx[it] + Step
              \/ /\ ~(idx[it] + Step < limit)
                 /\ phase'[it] = nextPhase /\ idx'[it] = start
<1>1. phase \in [AllItems -> Phases] /\ idx \in [AllItems -> Nat] /\ it \in AllItems
    BY ItemFacts DEF PhaseInv, Phases
<1>2. Step \in Nat
    BY ItemFacts
<1> QED BY <1>1, <1>2 DEF Advance

\* One work-item goes on, within its cells and on its side of the barrier.
LEMMA PhaseMoves ==
    ASSUME ShapeInv, PhaseInv, NEW it \in Items, UNCHANGED shape, launches' = launches,
           phase[it] # "done",
           phase' \in [AllItems -> Phases], idx' \in [AllItems -> Nat],
           \A other \in AllItems :
             other # it => phase'[other] = phase[other] /\ idx'[other] = idx[other],
           phase'[it] \in {"lower", "add", "sum"} => idx'[it] \in Dealt(it),
           phase'[it] = "upper" => idx'[it] - ELEMENTS \in Dealt(it),
           phase'[it] = "barrier" => idx'[it] = First(it),
           \/ phase[it] \in {"lower", "upper"} /\ phase'[it] \in {"lower", "upper", "barrier"}
           \/ phase[it] \in {"add", "sum"} /\ phase'[it] \in {"add", "sum", "done"}
    PROVE  PhaseInv'
<1>1. /\ Items' = Items /\ Items \subseteq AllItems /\ ELEMENTS' = ELEMENTS
      /\ \A o : Dealt(o)' = Dealt(o) /\ First(o)' = First(o)
    BY ItemFacts, SameShape
<1>2. launches > 0 /\ launches \in Nat
    BY <1>1 DEF PhaseInv
<1>3. \A o \in AllItems : phase'[o] # "done" => o \in Items
    BY <1>1 DEF PhaseInv
<1>4. ASSUME NEW o \in Items
      PROVE  /\ phase'[o] \in {"lower", "add", "sum"} => idx'[o] \in Dealt(o)
             /\ phase'[o] = "upper" => idx'[o] - ELEMENTS \in Dealt(o)
             /\ phase'[o] = "barrier" => idx'[o] = First(o)
    BY <1>1 DEF PhaseInv
<1>5. ASSUME NEW o \in Items, NEW p \in Items, o[1] = p[1], phase'[o] \in {"lower", "upper"}
      PROVE  phase'[p] \in {"lower", "upper", "barrier"}
  <2>1. phase[o] \in {"lower", "upper"}
      BY <1>1, <1>5 DEF PhaseInv
  <2>2. phase[p] \in {"lower", "upper", "barrier"}
      BY <1>5, <2>1 DEF PhaseInv
  <2> QED BY <1>1, <2>2
<1> QED BY <1>1, <1>2, <1>3, <1>4, <1>5 DEF PhaseInv, Phases

\* Which cells of s2 are filled below a cell.
LEMMA FillBelow ==
    ASSUME ShapeInv, NEW it \in Items, NEW c \in Fills(it)
    PROVE  /\ c \in Nat /\ c < 2 * ELEMENTS
           /\ c < ELEMENTS => c \in Dealt(it)
           /\ c >= ELEMENTS => c - ELEMENTS \in Dealt(it)
<1>1. ELEMENTS \in Nat \ {0} /\ Step \in Nat \ {0}
    BY ItemFacts
<1>2. c \in 0..(2 * ELEMENTS - 1)
    BY DEF Fills
<1>3. c < ELEMENTS => c \in Dealt(it)
    BY <1>1, <1>2 DEF Fills, Dealt
<1>4. c >= ELEMENTS => c - ELEMENTS \in Dealt(it)
    BY <1>1, <1>2 DEF Fills, Dealt
<1> QED BY <1>1, <1>2, <1>3, <1>4

\* What is filled stays so while others go on.
LEMMA FillMoves ==
    ASSUME ShapeInv, PhaseInv, FillInv, NEW it \in Items, UNCHANGED shape,
           launches' = launches, half \subseteq half',
           \A other \in AllItems :
             other # it => phase'[other] = phase[other] /\ idx'[other] = idx[other],
           \A c \in Fills(it) : c < Reached(it)' => <<Space(it), c>> \in half'
    PROVE  FillInv'
<1>1. /\ Items' = Items /\ Items \subseteq AllItems /\ ELEMENTS' = ELEMENTS
      /\ \A o : Fills(o)' = Fills(o) /\ Space(o)' = Space(o)
    BY ItemFacts, SameShape
<1> SUFFICES ASSUME NEW o \in Items, NEW c \in Fills(o), c < Reached(o)'
             PROVE  MayBeHalf(o, c)'
    BY <1>1 DEF FillInv
<1>2. CASE o = it
    BY <1>1, <1>2 DEF MayBeHalf
<1>3. CASE o # it
  <2>1. Reached(o)' = Reached(o)
      BY <1>1, <1>3 DEF Reached
  <2>2. MayBeHalf(o, c)
      BY <2>1 DEF FillInv
  <2> QED BY <1>1, <2>2 DEF MayBeHalf
<1> QED BY <1>2, <1>3

\* The lower half of s2 is filled cell by cell.
LEMMA LowerFill ==
    ASSUME ShapeInv, PhaseInv, FillInv, NEW it \in Items, FillLower(it), ~(idx[it] >= allocated)
    PROVE  PhaseInv' /\ FillInv'
<1> USE DEF shape
<1>1. /\ phase[it] = "lower" /\ half' = half \cup {<<Space(it), idx[it]>>}
      /\ Advance(it, ELEMENTS, "upper", First(it) + ELEMENTS)
      /\ UNCHANGED <<shape, launches>>
    BY DEF FillLower
<1>2. idx[it] \in Dealt(it) /\ idx[it] \in Nat /\ it \in AllItems
    BY <1>1, ItemFacts DEF PhaseInv
<1>3. ELEMENTS \in Nat \ {0} /\ Step \in Nat \ {0} /\ First(it) \in Nat /\ First(it) \in Dealt(it)
    BY ItemFacts
<1>4. First(it) + ELEMENTS \in Nat /\ "upper" \in Phases
    BY <1>3 DEF Phases
<1>5. /\ phase' \in [AllItems -> Phases] /\ idx' \in [AllItems -> Nat]
      /\ \A other \in AllItems :
           other # it => phase'[other] = phase[other] /\ idx'[other] = idx[other]
      /\ \/ /\ idx[it] + Step < ELEMENTS
            /\ phase'[it] = phase[it] /\ idx'[it] = idx[it] + Step
         \/ /\ ~(idx[it] + Step < ELEMENTS)
            /\ phase'[it] = "upper" /\ idx'[it] = First(it) + ELEMENTS
    BY <1>1, <1>4, Advances
<1>6. PhaseInv'
  <2>1. phase'[it] \in {"lower", "add", "sum"} => idx'[it] \in Dealt(it)
      BY <1>1, <1>2, <1>5, NextCell
  <2>2. phase'[it] = "upper" => idx'[it] - ELEMENTS \in Dealt(it)
    <3>1. (First(it) + ELEMENTS) - ELEMENTS = First(it)
        BY <1>3
    <3> QED BY <1>1, <1>3, <1>5, <3>1
  <2>3. phase[it] \in {"lower", "upper"} /\ phase'[it] \in {"lower", "upper", "barrier"}
      BY <1>1, <1>5
  <2> QED BY <1>1, <1>5, <2>1, <2>2, <2>3, PhaseMoves
<1>7. FillInv'
  <2>1. Reached(it) = idx[it] /\ Reached(it)' = idx'[it]
      BY <1>1, <1>5 DEF Reached
  <2>2. ASSUME NEW c \in Fills(it), c < Reached(it)'
        PROVE  <<Space(it), c>> \in half'
    <3>1. /\ c \in Nat /\ (c < ELEMENTS => c \in Dealt(it))
          /\ (c >= ELEMENTS => c - ELEMENTS \in Dealt(it))
        BY FillBelow
    <3>2. c < ELEMENTS
      <4>1. CASE idx[it] + Step < ELEMENTS
          BY <1>2, <1>3, <1>5, <2>1, <2>2, <3>1, <4>1
      <4>2. CASE ~(idx[it] + Step < ELEMENTS)
        <5>1. c < First(it) + ELEMENTS
            BY <1>5, <2>1, <2>2, <4>2
        <5>2. c >= ELEMENTS => First(it) <= c - ELEMENTS
            BY <3>1, ItemFacts
        <5> QED BY <1>3, <3>1, <5>1, <5>2
      <4> QED BY <4>1, <4>2
    <3>3. c <= idx[it]
        BY <1>2, <1>3, <1>5, <2>1, <2>2, <3>1, <3>2, NextCell
    <3>4. CASE c = idx[it]
        BY <1>1, <3>4
    <3>5. CASE c < idx[it]
      <4>1. MayBeHalf(it, c)
          BY <2>1, <3>5 DEF FillInv
      <4> QED BY <1>1, <4>1 DEF MayBeHalf
    <3> QED BY <1>2, <3>1, <3>3, <3>4, <3>5
  <2> QED BY <1>1, <1>5, <2>2, FillMoves
<1> QED BY <1>6, <1>7

\* So is the upper half.
LEMMA UpperFill ==
    ASSUME ShapeInv, PhaseInv, FillInv, NEW it \in Items, FillUpper(it),
           ~(idx[it] >= 2 * allocated)
    PROVE  PhaseInv' /\ FillInv'
<1> USE DEF shape
<1>1. /\ phase[it] = "upper" /\ half' = half \cup {<<Space(it), idx[it]>>}
      /\ Advance(it, 2 * ELEMENTS, "barrier", First(it))
      /\ UNCHANGED <<shape, launches>>
    BY DEF FillUpper
<1> DEFINE a == idx[it] - ELEMENTS
<1>2. a \in Dealt(it) /\ idx[it] \in Nat /\ it \in AllItems
    BY <1>1, ItemFacts DEF PhaseInv
<1>3. ELEMENTS \in Nat \ {0} /\ Step \in Nat \ {0} /\ First(it) \in Nat /\ a \in Nat
    BY <1>2, ItemFacts
<1>4. First(it) \in Nat /\ "barrier" \in Phases
    BY <1>3 DEF Phases
<1>5. /\ phase' \in [AllItems -> Phases] /\ idx' \in [AllItems -> Nat]
      /\ \A other \in AllItems :
           other # it => phase'[other] = phase[other] /\ idx'[other] = idx[other]
      /\ \/ /\ idx[it] + Step < 2 * ELEMENTS
            /\ phase'[it] = phase[it] /\ idx'[it] = idx[it] + Step
         \/ /\ ~(idx[it] + Step < 2 * ELEMENTS)
            /\ phase'[it] = "barrier" /\ idx'[it] = First(it)
    BY <1>1, <1>4, Advances
<1>6. idx[it] + Step < 2 * ELEMENTS <=> a + Step < ELEMENTS
    BY <1>2, <1>3
<1>7. PhaseInv'
  <2>1. phase'[it] \notin {"lower", "add", "sum"}
      BY <1>1, <1>5
  <2>2. phase'[it] = "upper" => idx'[it] - ELEMENTS \in Dealt(it)
    <3> SUFFICES ASSUME phase'[it] = "upper" PROVE idx'[it] - ELEMENTS \in Dealt(it)
        OBVIOUS
    <3>1. a + Step < ELEMENTS /\ idx'[it] = idx[it] + Step
        BY <1>5, <1>6
    <3>2. idx'[it] - ELEMENTS = a + Step
        BY <1>2, <1>3, <3>1
    <3> HIDE DEF a
    <3> QED BY <1>2, <3>1, <3>2, NextCell
  <2>3. phase[it] \in {"lower", "upper"} /\ phase'[it] \in {"lower", "upper", "barrier"}
      BY <1>1, <1>5
  <2> QED BY <1>1, <1>5, <2>1, <2>2, <2>3, PhaseMoves
<1>8. FillInv'
  <2>1. ASSUME NEW c \in Fills(it), c < Reached(it)'
        PROVE  <<Space(it), c>> \in half'
    <3>1. /\ c \in Nat /\ c < 2 * ELEMENTS /\ (c < ELEMENTS => c \in Dealt(it))
          /\ (c >= ELEMENTS => c - ELEMENTS \in Dealt(it))
        BY FillBelow
    <3>2. c >= ELEMENTS => c - ELEMENTS <= a
      <4> SUFFICES ASSUME c >= ELEMENTS PROVE c - ELEMENTS <= a
          OBVIOUS
      <4> DEFINE d == c - ELEMENTS
      <4>1. d \in Dealt(it) /\ d \in Nat
          BY <1>3, <3>1
      <4>2. CASE a + Step < ELEMENTS
        <5>1. Reached(it)' = idx[it] + Step
            BY <1>1, <1>5, <1>6, <4>2 DEF Reached
        <5>2. d < a + Step
            BY <1>2, <1>3, <2>1, <3>1, <5>1
        <5> HIDE DEF a, d
        <5>3. d <= a
            BY <1>2, <4>1, <5>2, NextCell
        <5> QED BY <5>3 DEF d
      <4>3. CASE ~(a + Step < ELEMENTS)
        <5> HIDE DEF a, d
        <5>1. d <= a
            BY <1>2, <4>1, <4>3, NextCell
        <5> QED BY <5>1 DEF d
      <4> QED BY <4>2, <4>3
    <3>3. c <= idx[it]
        BY <1>2, <1>3, <3>1, <3>2
    <3>4. CASE c = idx[it]
        BY <1>1, <3>4
    <3>5. CASE c < idx[it]
      <4>1. Reached(it) = idx[it]
          BY <1>1 DEF Reached
      <4>2. MayBeHalf(it, c)
          BY <3>5, <4>1 DEF FillInv
      <4> QED BY <1>1, <4>2 DEF MayBeHalf
    <3> QED BY <1>2, <3>1, <3>3, <3>4, <3>5
  <2> QED BY <1>1, <1>5, <2>1, FillMoves
<1> QED BY <1>7, <1>8

\* Behind the barrier all of s2 is filled.
LEMMA AllFilled ==
    ASSUME ShapeInv, PhaseInv, FillInv, NEW it \in Items, phase[it] \in {"add", "sum"},
           NEW c \in 0..(2 * ELEMENTS - 1)
    PROVE  MayBeHalf(it, c)
<1> DEFINE m == IF c < ELEMENTS THEN c ELSE c - ELEMENTS
           o == IF type = "private" THEN it ELSE <<it[1], m % localRange>>
<1>1. /\ units \in Nat \ {0} /\ localRange \in Nat \ {0} /\ ELEMENTS \in Nat \ {0}
      /\ m \in Nat /\ type \in Types
    BY KernelAssumption DEF ShapeInv
<1>2. /\ it = <<it[1], it[2]>> /\ it[1] \in 0..(units - 1) /\ it \in AllItems
    BY ItemFacts
<1>3. m % localRange \in 0..(localRange - 1) /\ m % 1 = 0
  <2> HIDE DEF m
  <2> QED BY <1>1
<1>4. o \in Items /\ o[1] = it[1] /\ Space(o) = Space(it)
  <2>1. CASE type = "private"
      BY <2>1
  <2>2. CASE type # "private"
    <3> DEFINE r == m % localRange
    <3>1. o = <<it[1], r>> /\ r \in 0..(localRange - 1)
        BY <1>3, <2>2
    <3> HIDE DEF o, r
    <3>2. o \in Items /\ o[1] = it[1]
        BY <1>2, <3>1 DEF Items
    <3>3. Space(o) = Space(it)
        BY <1>1, <2>2, <3>2 DEF Space, Types
    <3> QED BY <3>2, <3>3
  <2> QED BY <2>1, <2>2
<1>5. c \in Fills(o)
  <2>1. m % Step = First(o)
    <3>1. CASE type = "private"
        BY <1>3, <3>1 DEF Step, First
    <3>2. CASE type # "private"
      <4> DEFINE r == m % localRange
      <4>1. o = <<it[1], r>>
          BY <3>2
      <4> HIDE DEF o, m
      <4>2. o[2] = r
          BY <4>1
      <4> QED BY <3>2, <4>2 DEF Step, First
    <3> QED BY <3>1, <3>2
  <2> HIDE DEF o
  <2> QED BY <2>1 DEF Fills
<1> HIDE DEF o, m
<1>6. phase[o] \notin {"lower", "upper"}
    BY <1>4 DEF PhaseInv
<1>7. Reached(o) = 2 * ELEMENTS
    BY <1>2, <1>6 DEF Reached, PhaseInv
<1>8. c < 2 * ELEMENTS
    BY <1>1
<1>9. MayBeHalf(o, c)
    BY <1>4, <1>5, <1>7, <1>8 DEF FillInv
<1> QED BY <1>4, <1>9 DEF MayBeHalf

\* A group passes the barrier when all its work-items have filled s2.
LEMMA BarrierPasses ==
    ASSUME ShapeInv, PhaseInv, FillInv, NEW g, Barrier(g)
    PROVE  PhaseInv' /\ FillInv'
<1> USE DEF shape
<1>1. /\ \A it \in Members(g) : phase[it] = "barrier"
      /\ phase' = [it \in AllItems |-> IF it \in Members(g) THEN "add" ELSE phase[it]]
      /\ UNCHANGED <<shape, idx, half, launches>>
    BY DEF Barrier
<1>2. /\ Items' = Items /\ Items \subseteq AllItems /\ ELEMENTS' = ELEMENTS
      /\ \A o : /\ Fills(o)' = Fills(o) /\ Dealt(o)' = Dealt(o)
                /\ Space(o)' = Space(o) /\ First(o)' = First(o)
    BY <1>1, ItemFacts, SameShape
<1>3. \A o \in Members(g) : o \in Items /\ o[1] = g
    BY DEF Members
<1>4. \A o \in Items : o \notin Members(g) => o[1] # g
    BY DEF Members
<1>5. phase \in [AllItems -> Phases] /\ phase' \in [AllItems -> Phases]
    BY <1>1 DEF PhaseInv, Phases
<1>6. PhaseInv'
  <2>1. ASSUME NEW o \in AllItems, phase'[o] # "done"
        PROVE  o \in Items /\ launches > 0
      BY <1>1, <1>2, <1>3, <2>1 DEF PhaseInv
  <2>2. ASSUME NEW o \in Items
        PROVE  /\ phase'[o] \in {"lower", "add", "sum"} => idx[o] \in Dealt(o)
               /\ phase'[o] = "upper" => idx[o] - ELEMENTS \in Dealt(o)
               /\ phase'[o] = "barrier" => idx[o] = First(o)
    <3>1. phase[o] = "barrier" => idx[o] \in Dealt(o)
        BY ItemFacts DEF PhaseInv
    <3> QED BY <1>1, <1>2, <3>1 DEF PhaseInv
  <2>3. ASSUME NEW o \in Items, NEW p \in Items, o[1] = p[1], phase'[o] \in {"lower", "upper"}
        PROVE  phase'[p] \in {"lower", "upper", "barrier"}
    <3>1. o \notin Members(g) /\ phase'[o] = phase[o]
        BY <1>1, <1>2, <2>3
    <3>2. p \notin Members(g) /\ phase'[p] = phase[p]
        BY <1>1, <1>2, <1>3, <1>4, <2>3, <3>1
    <3> QED BY <2>3, <3>1, <3>2 DEF PhaseInv
  <2> QED BY <1>1, <1>2, <1>5, <2>1, <2>2, <2>3 DEF PhaseInv, Phases
<1>7. FillInv'
  <2> SUFFICES ASSUME NEW o \in Items, NEW c \in Fills(o), c < Reached(o)'
               PROVE  MayBeHalf(o, c)'
      BY <1>2 DEF FillInv
  <2>1. Reached(o)' = Reached(o)
      BY <1>1, <1>2 DEF Reached
  <2>2. MayBeHalf(o, c)
      BY <2>1 DEF FillInv
  <2> QED BY <1>1, <1>2, <2>2 DEF MayBeHalf
<1> QED BY <1>6, <1>7

\* Nothing is filled behind the barrier.
LEMMA BehindBarrier ==
    ASSUME ShapeInv, PhaseInv, FillInv, NEW it \in Items, UNCHANGED <<shape, half, launches>>,
           \/ phase[it] = "add" /\ Advance(it, ELEMENTS, "sum", First(it))
           \/ phase[it] = "sum" /\ Advance(it, ELEMENTS, "done", 0)
    PROVE  /\ PhaseInv' /\ FillInv'
           /\ \A other \in AllItems :
                other # it => phase'[other] = phase[other] /\ idx'[other] = idx[other]
           /\ \/ /\ idx[it] + Step < ELEMENTS
                 /\ phase'[it] = phase[it] /\ idx'[it] = idx[it] + Step
              \/ /\ ~(idx[it] + Step < ELEMENTS)
                 /\ phase'[it] = IF phase[it] = "add" THEN "sum" ELSE "done"
                 /\ idx'[it] = IF phase[it] = "add" THEN First(it) ELSE 0
<1> USE DEF shape
<1>1. idx[it] \in Dealt(it) /\ it \in AllItems /\ First(it) \in Dealt(it) /\ First(it) \in Nat
    BY ItemFacts DEF PhaseInv
<1>2. /\ phase' \in [AllItems -> Phases] /\ idx' \in [AllItems -> Nat]
      /\ \A other \in AllItems :
           other # it => phase'[other] = phase[other] /\ idx'[other] = idx[other]
      /\ \/ /\ idx[it] + Step < ELEMENTS
            /\ phase'[it] = phase[it] /\ idx'[it] = idx[it] + Step
         \/ /\ ~(idx[it] + Step < ELEMENTS)
            /\ phase'[it] = IF phase[it] = "add" THEN "sum" ELSE "done"
            /\ idx'[it] = IF phase[it] = "add" THEN First(it) ELSE 0
  <2>1. "sum" \in Phases /\ "done" \in Phases /\ 0 \in Nat
      BY DEF Phases
  <2>2. CASE phase[it] = "add" /\ Advance(it, ELEMENTS, "sum", First(it))
      BY <1>1, <2>1, <2>2, Advances
  <2>3. CASE phase[it] = "sum" /\ Advance(it, ELEMENTS, "done", 0)
      BY <1>1, <2>1, <2>3, Advances
  <2> QED BY <2>2, <2>3
<1>3. PhaseInv'
  <2>1. phase'[it] \in {"lower", "add", "sum"} => idx'[it] \in Dealt(it)
      BY <1>1, <1>2, NextCell
  <2>2. phase[it] \in {"add", "sum"} /\ phase'[it] \in {"add", "sum", "done"}
      BY <1>2
  <2>3. phase[it] # "done" /\ phase'[it] # "upper" /\ launches' = launches
      BY <2>2
  <2> QED BY <1>2, <2>1, <2>2, <2>3, PhaseMoves
<1>4. FillInv'
  <2>1. launches \in Nat /\ launches > 0
      BY <1>1 DEF PhaseInv
  <2>2. Reached(it) = 2 * ELEMENTS /\ Reached(it)' = 2 * ELEMENTS
      BY <1>2, <2>1 DEF Reached
  <2>3. \A c \in Fills(it) : c < Reached(it)' => <<Space(it), c>> \in half'
      BY <2>2 DEF FillInv, MayBeHalf
  <2>4. half \subseteq half' /\ launches' = launches
      OBVIOUS
  <2> QED BY <1>2, <2>3, <2>4, FillMoves
<1> QED BY <1>2, <1>3, <1>4

\* Only the first launch may read what another work-item has filled as it was.
LEMMA AddDirty ==
    ASSUME ShapeInv, PhaseInv, FillInv, DirtyInv, NEW it \in Items, Add(it)
    PROVE  /\ DirtyInv'
           /\ type # "global" =>
                /\ dirty' = dirty
                /\ s1' = [s1 EXCEPT ![<<Space(it), idx[it]>>] =
                            IF s1[<<Space(it), idx[it]>>] = Garbage THEN Garbage
                            ELSE s1[<<Space(it), idx[it]>>] + 1]
<1>1. phase[it] = "add" /\ UNCHANGED <<type, launches, warm>>
    BY DEF Add, shape
<1>2. idx[it] \in Nat /\ idx[it] < ELEMENTS /\ ELEMENTS \in Nat \ {0} /\ it \in AllItems
    BY <1>1, ItemFacts DEF PhaseInv
<1>3. idx[it] \in 0..(2 * ELEMENTS - 1) /\ 2 * idx[it] \in 0..(2 * ELEMENTS - 1)
    BY <1>2
<1>4. \A c \in {idx[it], 2 * idx[it]} : MayBeHalf(it, c)
    BY <1>1, <1>3, AllFilled
<1>5. launches \in Nat /\ launches > 0
    BY <1>1, <1>2 DEF PhaseInv
<1>6. \A c \in {idx[it], 2 * idx[it]} : MayBeGarbage(it, c) => type = "global" /\ launches = 1
    BY <1>4, <1>5 DEF MayBeGarbage, DirtyInv
<1>7. \/ /\ dirty' = dirty
         /\ s1' = [s1 EXCEPT ![<<Space(it), idx[it]>>] =
                     IF s1[<<Space(it), idx[it]>>] = Garbage THEN Garbage
                     ELSE s1[<<Space(it), idx[it]>>] + 1]
      \/ type = "global" /\ launches = 1 /\ dirty' = dirty \cup {1}
    BY <1>6 DEF Add
<1> QED BY <1>1, <1>5, <1>7 DEF DirtyInv
-----------------------------------------------------------------------------
(* What is computed.                                                       *)

\* The cells dealt can be counted.
LEMMA Counts ==
    ASSUME ShapeInv, NEW it \in Items
    PROVE  /\ IsFiniteSet(Dealt(it)) /\ Cardinality(Dealt(it)) \in Nat
           /\ IsFiniteSet(Passed(it)) /\ Cardinality(Passed(it)) \in Nat
<1>1. IsFiniteSet(0..(ELEMENTS - 1))
  <2> DEFINE e == ELEMENTS - 1
  <2>1. 0 \in Int /\ e \in Int
      BY ItemFacts
  <2> HIDE DEF e
  <2>2. IsFiniteSet(0..e)
      BY <2>1, FS_Interval
  <2> QED BY <2>2 DEF e
<1>2. Dealt(it) \subseteq 0..(ELEMENTS - 1) /\ Passed(it) \subseteq Dealt(it)
    BY DEF Dealt, Passed
<1>3. IsFiniteSet(Dealt(it)) /\ IsFiniteSet(Passed(it))
    BY <1>1, <1>2, FS_Subset
<1> QED BY <1>3, FS_CardinalityType

\* A cell more.
LEMMA OneMore ==
    ASSUME ShapeInv, NEW it \in Items, idx[it] \in Dealt(it)
    PROVE  /\ ~(idx[it] + Step < ELEMENTS) =>
                Cardinality(Dealt(it)) = Cardinality(Passed(it)) + 1
           /\ Cardinality({c \in Dealt(it) : c < idx[it] + Step}) = Cardinality(Passed(it)) + 1
<1> DEFINE a == idx[it]
<1>1. a \in Nat /\ a \in Dealt(it) /\ Step \in Nat \ {0} /\ \A c \in Dealt(it) : c \in Nat
    BY ItemFacts
<1>2. a \notin Passed(it) /\ Passed(it) \cup {a} = {c \in Dealt(it) : c <= a}
    BY <1>1 DEF Passed
<1>3. Cardinality(Passed(it) \cup {a}) = Cardinality(Passed(it)) + 1
    BY <1>2, Counts, FS_AddElement
<1>4. ~(a + Step < ELEMENTS) => {c \in Dealt(it) : c <= a} = Dealt(it)
  <2> HIDE DEF a
  <2> QED BY <1>1, NextCell
<1>5. {c \in Dealt(it) : c < a + Step} = {c \in Dealt(it) : c <= a}
  <2>1. \A c \in Dealt(it) : c < a + Step => c <= a
    <3> HIDE DEF a
    <3> QED BY <1>1, NextCell
  <2>2. \A c \in Dealt(it) : c <= a => c < a + Step
      BY <1>1
  <2> QED BY <2>1, <2>2
<1> QED BY <1>2, <1>3, <1>4, <1>5

\* A work-item disturbs no cell of another.
LEMMA ExactMoves ==
    ASSUME ShapeInv, ExactInv, type # "global", NEW it \in Items, UNCHANGED shape,
           launches' = launches, NEW a \in Dealt(it),
           \A other \in AllItems :
             other # it => phase'[other] = phase[other] /\ idx'[other] = idx[other],
           s1' \in [Memory -> Int], output' \in [AllItems -> Int],
           \A x \in Memory : x # <<Space(it), a>> => s1'[x] = s1[x],
           \A other \in AllItems : other # it => output'[other] = output[other],
           \A c \in Stored(it)' : s1'[<<Space(it), c>>] = Content(it, c)',
           output'[it] = AddedUp(it)'
    PROVE  ExactInv'
<1>1. /\ Items' = Items /\ Items \subseteq AllItems /\ type' = type
      /\ \A o : Dealt(o)' = Dealt(o) /\ Space(o)' = Space(o)
    BY ItemFacts, SameShape
<1>2. ASSUME NEW o \in Items
      PROVE  /\ \A c \in Stored(o)' : s1'[<<Space(o), c>>] = Content(o, c)'
             /\ output'[o] = AddedUp(o)'
  <2>1. CASE o = it
      BY <2>1
  <2>2. CASE o # it
    <3>1. phase'[o] = phase[o] /\ idx'[o] = idx[o] /\ output'[o] = output[o]
        BY <1>1, <2>2
    <3>2. Stored(o)' = Stored(o) /\ AddedUp(o)' = AddedUp(o)
      <4>1. Passed(o)' = Passed(o) /\ Ended(o)' = Ended(o)
          BY <1>1, <3>1 DEF Passed, Ended
      <4> QED BY <1>1, <3>1, <4>1 DEF Stored, AddedUp
    <3>3. ASSUME NEW c \in Stored(o)
          PROVE  s1'[<<Space(o), c>>] = Content(o, c)'
      <4>1. c \in Dealt(o)
          BY DEF Stored
      <4>2. <<Space(o), c>> \in Memory /\ <<Space(it), a>> \in Memory
          BY <4>1, ItemFacts DEF Memory
      <4>3. <<Space(o), c>> # <<Space(it), a>>
          BY <2>2, <4>1, ItemFacts
      <4>4. s1'[<<Space(o), c>>] = s1[<<Space(o), c>>]
          BY <4>2, <4>3
      <4>5. s1[<<Space(o), c>>] = Content(o, c)
          BY DEF ExactInv
      <4>6. Content(o, c)' = Content(o, c)
          BY <3>1 DEF Content
      <4> QED BY <4>4, <4>5, <4>6
    <3>4. output[o] = AddedUp(o)
        BY DEF ExactInv
    <3> QED BY <3>1, <3>2, <3>3, <3>4
  <2> QED BY <2>1, <2>2
<1> QED BY <1>1, <1>2 DEF ExactInv, Memory, AllItems

\* What a launch has to do is left while it fills.
LEMMA FillsExact ==
    ASSUME ShapeInv, PhaseInv, ExactInv, type # "global", NEW it \in Items, UNCHANGED shape,
           launches' = launches, output' = output,
           idx[it] \in Nat,
           NEW a \in Dealt(it), s1' = s1 \/ s1' = [s1 EXCEPT ![<<Space(it), a>>] = 0],
           \A other \in AllItems :
             other # it => phase'[other] = phase[other] /\ idx'[other] = idx[other],
           phase[it] \in {"lower", "upper"}, phase'[it] \in {"lower", "upper", "barrier"},
           \A c \in Stored(it)' : c \in Stored(it) \/ (c = a /\ s1' # s1) \/ s1[<<Space(it), c>>] = 0
    PROVE  ExactInv'
<1>1. it \in AllItems /\ <<Space(it), a>> \in Memory /\ \A o : Dealt(o)' = Dealt(o)
    BY ItemFacts, SameShape DEF Memory
<1>2. s1 \in [Memory -> Int] /\ output \in [AllItems -> Int]
    BY DEF ExactInv
<1>3. /\ s1' \in [Memory -> Int]
      /\ \A x \in Memory : x # <<Space(it), a>> => s1'[x] = s1[x]
      /\ s1' # s1 => s1'[<<Space(it), a>>] = 0
  <2>1. CASE s1' = s1
      BY <1>2, <2>1
  <2>2. CASE s1' = [s1 EXCEPT ![<<Space(it), a>>] = 0]
    <3> DEFINE x == <<Space(it), a>>
    <3>1. x \in Memory /\ s1' = [s1 EXCEPT ![x] = 0]
        BY <1>1, <2>2
    <3> HIDE DEF x
    <3>2. /\ s1' \in [Memory -> Int] /\ s1'[x] = 0
          /\ \A y \in Memory : y # x => s1'[y] = s1[y]
        BY <1>2, <3>1
    <3> QED BY <3>2 DEF x
  <2> QED BY <2>1, <2>2
<1>4. ASSUME NEW c \in Stored(it)'
      PROVE  s1'[<<Space(it), c>>] = Content(it, c)'
  <2>1. c \in Dealt(it)
      BY <1>1 DEF Stored
  <2>2. Content(it, c)' = 0 /\ Content(it, c) = 0
      BY DEF Content
  <2>3. <<Space(it), c>> \in Memory
      BY <2>1, ItemFacts DEF Memory
  <2>4. c \in Stored(it) => s1[<<Space(it), c>>] = 0
      BY <2>2 DEF ExactInv
  <2>5. CASE c = a
    <3>1. s1' # s1 \/ s1[<<Space(it), c>>] = 0
        BY <2>4, <2>5
    <3> QED BY <1>3, <2>2, <2>5, <3>1
  <2>6. CASE c # a
    <3>1. <<Space(it), c>> # <<Space(it), a>>
        BY <2>6
    <3>2. s1[<<Space(it), c>>] = 0
        BY <2>4, <2>6
    <3> QED BY <1>3, <2>2, <2>3, <3>1, <3>2
  <2> QED BY <2>5, <2>6
<1>5. output'[it] = AddedUp(it)'
  <2>1. output[it] = AddedUp(it)
      BY DEF ExactInv
  <2>2. AddedUp(it)' = AddedUp(it)
      BY <1>1 DEF AddedUp, Ended
  <2> QED BY <2>1, <2>2
<1> QED BY <1>2, <1>3, <1>4, <1>5, ExactMoves

\* The lower half of s2 is filled, and so is s1.
LEMMA LowerExact ==
    ASSUME ShapeInv, PhaseInv, ExactInv, type # "global", NEW it \in Items,
           FillLower(it), ~(idx[it] >= allocated)
    PROVE  ExactInv'
<1> USE DEF shape
<1>1. /\ phase[it] = "lower" /\ s1' = [s1 EXCEPT ![<<Space(it), idx[it]>>] = 0]
      /\ Advance(it, ELEMENTS, "upper", First(it) + ELEMENTS)
      /\ UNCHANGED <<shape, launches, output>>
    BY DEF FillLower
<1>2. /\ idx[it] \in Dealt(it) /\ idx[it] \in Nat /\ it \in AllItems
      /\ <<Space(it), idx[it]>> \in Memory
    BY <1>1, ItemFacts DEF PhaseInv, Memory
<1>3. First(it) + ELEMENTS \in Nat /\ "upper" \in Phases
    BY ItemFacts DEF Phases
<1>4. /\ \A other \in AllItems :
           other # it => phase'[other] = phase[other] /\ idx'[other] = idx[other]
      /\ \/ /\ idx[it] + Step < ELEMENTS
            /\ phase'[it] = phase[it] /\ idx'[it] = idx[it] + Step
         \/ /\ ~(idx[it] + Step < ELEMENTS)
            /\ phase'[it] = "upper" /\ idx'[it] = First(it) + ELEMENTS
    BY <1>1, <1>3, Advances
<1>5. s1' = s1 => s1[<<Space(it), idx[it]>>] = 0
  <2>1. s1 \in [Memory -> Int]
      BY DEF ExactInv
  <2> DEFINE x == <<Space(it), idx[it]>>
  <2>2. x \in Memory /\ s1' = [s1 EXCEPT ![x] = 0]
      BY <1>1, <1>2
  <2> HIDE DEF x
  <2>3. s1'[x] = 0
      BY <2>1, <2>2
  <2> QED BY <2>3 DEF x
<1>6. ASSUME NEW c \in Stored(it)'
      PROVE  c \in Stored(it) \/ (c = idx[it] /\ s1' # s1) \/ s1[<<Space(it), c>>] = 0
  <2>1. c \in Dealt(it) /\ (phase'[it] = "lower" => c < idx'[it])
    <3>1. Dealt(it)' = Dealt(it)
        BY <1>1, SameShape
    <3> QED BY <3>1 DEF Stored
  <2>2. c <= idx[it] /\ c \in Nat
      BY <1>1, <1>2, <1>4, <2>1, NextCell, ItemFacts
  <2>3. CASE c = idx[it]
      BY <1>5, <2>3
  <2>4. CASE c < idx[it]
      BY <1>1, <2>1, <2>4 DEF Stored
  <2> QED BY <1>2, <2>2, <2>3, <2>4
<1>7. phase[it] \in {"lower", "upper"} /\ phase'[it] \in {"lower", "upper", "barrier"}
    BY <1>1, <1>4
<1> QED BY <1>1, <1>2, <1>4, <1>6, <1>7, FillsExact

\* The upper half has nothing to do with s1.
LEMMA UpperExact ==
    ASSUME ShapeInv, PhaseInv, ExactInv, type # "global", NEW it \in Items,
           FillUpper(it), ~(idx[it] >= 2 * allocated)
    PROVE  ExactInv'
<1> USE DEF shape
<1>1. /\ phase[it] = "upper" /\ Advance(it, 2 * ELEMENTS, "barrier", First(it))
      /\ UNCHANGED <<shape, launches, output, s1>>
    BY DEF FillUpper
<1>2. First(it) \in Dealt(it) /\ First(it) \in Nat /\ it \in AllItems /\ ELEMENTS \in Nat
    BY ItemFacts
<1>3. idx[it] \in Nat /\ "barrier" \in Phases
    BY <1>2 DEF Phases, PhaseInv
<1>4. /\ \A other \in AllItems :
           other # it => phase'[other] = phase[other] /\ idx'[other] = idx[other]
      /\ phase'[it] \in {"upper", "barrier"}
    BY <1>1, <1>2, <1>3, Advances
<1>5. \A c \in Stored(it)' : c \in Stored(it)
  <2>1. Dealt(it)' = Dealt(it)
      BY <1>1, SameShape
  <2> QED BY <1>1, <2>1 DEF Stored
<1> QED BY <1>1, <1>2, <1>3, <1>4, <1>5, FillsExact

\* Neither has the barrier.
LEMMA BarrierExact ==
    ASSUME ShapeInv, PhaseInv, ExactInv, type # "global", NEW g, Barrier(g)
    PROVE  ExactInv'
<1> USE DEF shape
<1>1. /\ \A it \in Members(g) : phase[it] = "barrier"
      /\ phase' = [it \in AllItems |-> IF it \in Members(g) THEN "add" ELSE phase[it]]
      /\ UNCHANGED <<shape, idx, s1, output, launches>>
    BY DEF Barrier
<1>2. /\ Items' = Items /\ Items \subseteq AllItems /\ type' = type
      /\ \A o : Dealt(o)' = Dealt(o) /\ Space(o)' = Space(o)
    BY <1>1, ItemFacts, SameShape
<1>3. ASSUME NEW o \in Items
      PROVE  /\ \A c \in Stored(o)' : s1[<<Space(o), c>>] = Content(o, c)'
             /\ output[o] = AddedUp(o)'
  <2>1. CASE o \in Members(g)
    <3>1. phase[o] = "barrier" /\ phase'[o] = "add" /\ idx[o] = First(o)
        BY <1>1, <1>2, <2>1 DEF PhaseInv
    <3>2. ASSUME NEW c \in Stored(o)'
          PROVE  s1[<<Space(o), c>>] = Content(o, c)'
      <4>1. c \in Dealt(o) /\ c \in Nat /\ First(o) <= c /\ First(o) \in Nat
          BY <1>2, ItemFacts DEF Stored
      <4>2. c \in Stored(o)
          BY <3>1, <4>1 DEF Stored
      <4>3. s1[<<Space(o), c>>] = 0
          BY <3>1, <4>2 DEF ExactInv, Content
      <4>4. Content(o, c)' = 0
          BY <1>1, <3>1, <4>1 DEF Content
      <4> QED BY <4>3, <4>4
    <3>3. AddedUp(o)' = AddedUp(o)
        BY <1>1, <1>2, <3>1 DEF AddedUp, Ended
    <3> QED BY <3>2, <3>3 DEF ExactInv
  <2>2. CASE o \notin Members(g)
    <3>1. phase'[o] = phase[o]
        BY <1>1, <1>2, <2>2
    <3>2. Stored(o)' = Stored(o) /\ AddedUp(o)' = AddedUp(o)
      <4>1. Passed(o)' = Passed(o) /\ Ended(o)' = Ended(o)
          BY <1>1, <1>2, <3>1 DEF Passed, Ended
      <4> QED BY <1>1, <1>2, <3>1, <4>1 DEF Stored, AddedUp
    <3>3. \A c : Content(o, c)' = Content(o, c)
        BY <1>1, <3>1 DEF Content
    <3> QED BY <3>2, <3>3 DEF ExactInv
  <2> QED BY <2>1, <2>2
<1> QED BY <1>1, <1>2, <1>3 DEF ExactInv, Memory, AllItems

\* Every cell of s1 is added to once.
LEMMA AddExact ==
    ASSUME ShapeInv, PhaseInv, FillInv, DirtyInv, ExactInv, type # "global",
           NEW it \in Items, Add(it)
    PROVE  ExactInv'
<1> USE DEF shape
<1> DEFINE a == idx[it]
           x == <<Space(it), a>>
<1>1. /\ phase[it] = "add" /\ Advance(it, ELEMENTS, "sum", First(it))
      /\ UNCHANGED <<shape, half, launches, output>>
    BY DEF Add
<1>2. a \in Dealt(it) /\ a \in Nat /\ it \in AllItems /\ x \in Memory
    BY <1>1, ItemFacts DEF PhaseInv, Memory
<1>3. s1 \in [Memory -> Int] /\ output \in [AllItems -> Int]
    BY DEF ExactInv
<1>4. s1[x] = 0
  <2>1. a \in Stored(it)
      BY <1>1, <1>2 DEF Stored
  <2>2. Content(it, a) = 0
      BY <1>1, <1>2 DEF Content
  <2> QED BY <2>1, <2>2 DEF ExactInv
<1>5. s1' = [s1 EXCEPT ![x] = 1]
  <2>1. s1' = [s1 EXCEPT ![x] = IF s1[x] = Garbage THEN Garbage ELSE s1[x] + 1]
      BY AddDirty
  <2>2. (IF s1[x] = Garbage THEN Garbage ELSE s1[x] + 1) = 1
      BY <1>4 DEF Garbage
  <2> QED BY <2>1, <2>2
<1>6. /\ \A other \in AllItems :
           other # it => phase'[other] = phase[other] /\ idx'[other] = idx[other]
      /\ \/ /\ a + Step < ELEMENTS
            /\ phase'[it] = "add" /\ idx'[it] = a + Step
         \/ /\ ~(a + Step < ELEMENTS)
            /\ phase'[it] = "sum" /\ idx'[it] = First(it)
    BY <1>1, BehindBarrier
<1>7. /\ \A o : Dealt(o)' = Dealt(o) /\ Space(o)' = Space(o)
      /\ ELEMENTS' = ELEMENTS /\ Step \in Nat \ {0} /\ First(it) \in Nat
    BY <1>1, ItemFacts, SameShape
<1>8. /\ s1' \in [Memory -> Int] /\ s1'[x] = 1
      /\ \A y \in Memory : y # x => s1'[y] = s1[y]
  <2> HIDE DEF x
  <2> QED BY <1>2, <1>3, <1>5
<1>9. ASSUME NEW c \in Stored(it)'
      PROVE  s1'[<<Space(it), c>>] = Content(it, c)'
  <2>1. c \in Dealt(it) /\ c \in Nat /\ <<Space(it), c>> \in Memory
      BY <1>7, ItemFacts DEF Stored, Memory
  <2>2. c \in Stored(it)
      BY <1>1, <2>1 DEF Stored
  <2>3. s1[<<Space(it), c>>] = IF c < a THEN 1 ELSE 0
      BY <1>1, <2>2 DEF ExactInv, Content
  <2>4. Content(it, c)' = IF c <= a THEN 1 ELSE 0
    <3>1. CASE a + Step < ELEMENTS
      <4>1. Content(it, c)' = IF c < a + Step THEN 1 ELSE 0
          BY <1>6, <3>1 DEF Content
      <4>2. c < a + Step <=> c <= a
        <5>1. c < a + Step => c <= a
          <6> HIDE DEF a
          <6> QED BY <1>2, <2>1, NextCell
        <5> QED BY <1>2, <1>7, <2>1, <5>1
      <4> QED BY <4>1, <4>2
    <3>2. CASE ~(a + Step < ELEMENTS)
      <4>1. Content(it, c)' = 1
          BY <1>6, <3>2 DEF Content
      <4>2. c <= a
        <5> HIDE DEF a
        <5> QED BY <1>2, <2>1, <3>2, NextCell
      <4> QED BY <4>1, <4>2
    <3> QED BY <3>1, <3>2
  <2>5. CASE c = a
      BY <1>2, <1>8, <2>4, <2>5
  <2>6. CASE c # a
    <3>1. <<Space(it), c>> # x
        BY <2>6
    <3>2. s1'[<<Space(it), c>>] = s1[<<Space(it), c>>]
        BY <1>8, <2>1, <3>1
    <3>3. c < a <=> c <= a
        BY <1>2, <2>1, <2>6
    <3> QED BY <2>3, <2>4, <3>2, <3>3
  <2> QED BY <2>5, <2>6
<1>10. output'[it] = AddedUp(it)'
  <2>1. output[it] = AddedUp(it)
      BY DEF ExactInv
  <2>2. AddedUp(it) = ((launches - 1) * Cardinality(Dealt(it))) + 0
      BY <1>1 DEF AddedUp, Ended
  <2>3. phase'[it] = "sum" => Cardinality(Passed(it)') = 0
    <3> SUFFICES ASSUME phase'[it] = "sum" PROVE Cardinality(Passed(it)') = 0
        OBVIOUS
    <3>1. idx'[it] = First(it)
        BY <1>6
    <3>2. Passed(it)' = {c \in Dealt(it) : c < First(it)}
        BY <1>7, <3>1 DEF Passed
    <3>3. \A c \in Dealt(it) : ~(c < First(it))
      <4> TAKE c \in Dealt(it)
      <4>1. First(it) <= c /\ c \in Nat
          BY ItemFacts
      <4> QED BY <1>7, <4>1
    <3>4. Passed(it)' = {}
        BY <3>2, <3>3
    <3> QED BY <3>4, FS_EmptySet
  <2>4. AddedUp(it)' = ((launches - 1) * Cardinality(Dealt(it))) + 0
    <3>1. phase'[it] # "done" /\ launches' = launches
        BY <1>1, <1>6
    <3> QED BY <1>7, <2>3, <3>1 DEF AddedUp, Ended
  <2> QED BY <1>1, <2>1, <2>2, <2>4
<1>11. \A other \in AllItems : other # it => output'[other] = output[other]
    BY <1>1
<1> HIDE DEF a
<1>12. \A y \in Memory : y # <<Space(it), a>> => s1'[y] = s1[y]
    BY <1>8
<1> HIDE DEF x
<1>13. /\ UNCHANGED shape /\ launches' = launches /\ output' \in [AllItems -> Int]
    BY <1>1, <1>3
<1> QED BY <1>2, <1>6, <1>8, <1>9, <1>10, <1>11, <1>12, <1>13, ExactMoves

\* Every cell of s1 is added up once.
LEMMA SumExact ==
    ASSUME ShapeInv, PhaseInv, FillInv, ExactInv, type # "global", NEW it \in Items, Sum(it)
    PROVE  ExactInv'
<1> USE DEF shape
<1> DEFINE a == idx[it]
           N == Cardinality(Dealt(it))
           P == Cardinality(Passed(it))
<1>1. /\ phase[it] = "sum" /\ Advance(it, ELEMENTS, "done", 0)
      /\ UNCHANGED <<shape, half, launches, s1>>
    BY DEF Sum
<1>2. a \in Dealt(it) /\ a \in Nat /\ it \in AllItems
    BY <1>1, ItemFacts DEF PhaseInv
<1>3. s1 \in [Memory -> Int] /\ output \in [AllItems -> Int]
    BY DEF ExactInv
<1>4. \A c \in Dealt(it) : s1[<<Space(it), c>>] = 1
  <2> TAKE c \in Dealt(it)
  <2>1. c \in Stored(it)
      BY <1>1 DEF Stored
  <2> QED BY <1>1, <2>1 DEF ExactInv, Content
<1>5. /\ N \in Nat /\ P \in Nat /\ launches \in Nat /\ launches > 0
    BY <1>1, <1>2, Counts DEF PhaseInv
<1>6. output[it] = ((launches - 1) * N) + P
    BY <1>1 DEF ExactInv, AddedUp, Ended
<1>7. output' = [output EXCEPT ![it] = output[it] + 1]
  <2>1. output' = [output EXCEPT ![it] =
                     IF Garbage \in {output[it], 1} THEN Garbage ELSE output[it] + 1]
      BY <1>2, <1>4 DEF Sum
  <2>2. output[it] \in Nat
    <3> HIDE DEF N, P
    <3>1. (launches - 1) * N \in Nat
        BY <1>5
    <3> QED BY <1>5, <1>6, <3>1
  <2>3. Garbage \notin {output[it], 1}
      BY <2>2 DEF Garbage
  <2> QED BY <2>1, <2>3
<1>8. /\ output' \in [AllItems -> Int] /\ output'[it] = output[it] + 1
      /\ \A other \in AllItems : other # it => output'[other] = output[other]
    BY <1>2, <1>3, <1>7
<1>9. /\ \A other \in AllItems :
           other # it => phase'[other] = phase[other] /\ idx'[other] = idx[other]
      /\ \/ /\ a + Step < ELEMENTS
            /\ phase'[it] = "sum" /\ idx'[it] = a + Step
         \/ /\ ~(a + Step < ELEMENTS)
            /\ phase'[it] = "done" /\ idx'[it] = 0
    BY <1>1, BehindBarrier
<1>10. \A o : Dealt(o)' = Dealt(o) /\ Space(o)' = Space(o)
    BY <1>1, SameShape
<1>11. ASSUME NEW c \in Stored(it)'
       PROVE  s1'[<<Space(it), c>>] = Content(it, c)'
  <2>1. c \in Dealt(it) /\ phase'[it] = "sum"
      BY <1>9, <1>10 DEF Stored
  <2> QED BY <1>1, <1>4, <2>1 DEF Content
<1>12. output'[it] = AddedUp(it)'
  <2>1. CASE a + Step < ELEMENTS
    <3>1. Passed(it)' = {c \in Dealt(it) : c < a + Step}
        BY <1>9, <1>10, <2>1 DEF Passed
    <3>2. Cardinality(Passed(it)') = P + 1
        BY <1>2, <3>1, OneMore
    <3>3. AddedUp(it)' = ((launches - 1) * N) + Cardinality(Passed(it)')
        BY <1>1, <1>9, <1>10, <2>1 DEF AddedUp, Ended
    <3> HIDE DEF N, P
    <3>4. (launches - 1) * N \in Nat
        BY <1>5
    <3> QED BY <1>5, <1>6, <1>8, <3>2, <3>3, <3>4
  <2>2. CASE ~(a + Step < ELEMENTS)
    <3>1. N = P + 1
        BY <1>2, <2>2, OneMore
    <3>2. AddedUp(it)' = (launches * N) + 0
        BY <1>1, <1>9, <1>10, <2>2 DEF AddedUp, Ended
    <3> HIDE DEF N, P
    <3>3. launches * N = ((launches - 1) * N) + N /\ (launches - 1) * N \in Nat
        BY <1>5
    <3> QED BY <1>5, <1>6, <1>8, <3>1, <3>2, <3>3
  <2> QED BY <2>1, <2>2
<1>13. s1' \in [Memory -> Int] /\ \A y \in Memory : y # <<Space(it), a>> => s1'[y] = s1[y]
    BY <1>1, <1>3
<1> HIDE DEF a, N, P
<1> QED BY <1>1, <1>2, <1>8, <1>9, <1>11, <1>12, <1>13, ExactMoves
-----------------------------------------------------------------------------
(* The steps of a kernel, and of the host.                                 *)

\* What the kernel has to do is left while nothing of it changes.
LEMMA SameKernel ==
    ASSUME PhaseInv, FillInv, DirtyInv, ExactInv,
           UNCHANGED <<shape, phase, idx, half, s1, output, warm, launches, dirty>>
    PROVE  PhaseInv' /\ FillInv' /\ DirtyInv' /\ ExactInv'
<1>1. /\ Items' = Items /\ ELEMENTS' = ELEMENTS /\ type' = type
      /\ \A o : /\ Fills(o)' = Fills(o) /\ Dealt(o)' = Dealt(o)
                /\ Space(o)' = Space(o) /\ First(o)' = First(o)
    BY SameShape
<1>2. PhaseInv'
    BY <1>1 DEF PhaseInv
<1>3. FillInv'
  <2>1. \A o : Reached(o)' = Reached(o)
      BY <1>1 DEF Reached
  <2>2. \A o, c : MayBeHalf(o, c)' = MayBeHalf(o, c)
      BY <1>1 DEF MayBeHalf
  <2> QED BY <1>1, <2>1, <2>2 DEF FillInv
<1>4. DirtyInv'
    BY <1>1 DEF DirtyInv
<1>5. ExactInv'
  <2>1. \A o : Stored(o)' = Stored(o) /\ Passed(o)' = Passed(o) /\ Ended(o)' = Ended(o)
      BY <1>1 DEF Stored, Passed, Ended
  <2>2. \A o : AddedUp(o)' = AddedUp(o)
      BY <1>1, <2>1 DEF AddedUp
  <2>3. \A o, c : Content(o, c)' = Content(o, c)
      BY DEF Content
  <2> QED BY <1>1, <2>1, <2>2, <2>3 DEF ExactInv, Memory, AllItems
<1> QED BY <1>2, <1>3, <1>4, <1>5

\* A launch begins with nothing stored or filled.
LEMMA LaunchStep ==
    ASSUME ShapeInv, PhaseInv, DirtyInv, ExactInv, Idle, BeginLaunch
    PROVE  PhaseInv' /\ FillInv' /\ DirtyInv' /\ ExactInv'
<1> USE DEF shape
<1>1. /\ phase' = [it \in AllItems |-> IF it \in Items THEN "lower" ELSE "done"]
      /\ idx' = [it \in AllItems |-> IF it \in Items THEN First(it) ELSE 0]
      /\ warm' = (type = "global" /\ launches > 0)
      /\ launches' = launches + 1 /\ launches \in Nat
      /\ UNCHANGED <<shape, output, dirty>>
    BY DEF BeginLaunch, PhaseInv
<1>2. /\ Items' = Items /\ Items \subseteq AllItems /\ ELEMENTS' = ELEMENTS /\ type' = type
      /\ \A o : /\ Fills(o)' = Fills(o) /\ Dealt(o)' = Dealt(o)
                /\ Space(o)' = Space(o) /\ First(o)' = First(o)
    BY <1>1, ItemFacts, SameShape
<1>3. \A o \in Items : /\ phase'[o] = "lower" /\ idx'[o] = First(o)
                       /\ First(o) \in Dealt(o) /\ First(o) \in Nat
                       /\ \A c \in Dealt(o) : c \in Nat /\ ~(c < First(o))
  <2> TAKE o \in Items
  <2>1. phase'[o] = "lower" /\ idx'[o] = First(o)
      BY <1>1, <1>2
  <2>2. First(o) \in Dealt(o) /\ First(o) \in Nat
      BY ItemFacts
  <2>3. ASSUME NEW c \in Dealt(o)
        PROVE  c \in Nat /\ ~(c < First(o))
    <3>1. First(o) <= c /\ c \in Nat
        BY ItemFacts
    <3> QED BY <2>2, <3>1
  <2> QED BY <2>1, <2>2, <2>3
<1>4. PhaseInv'
  <2>1. phase' \in [AllItems -> Phases] /\ idx' \in [AllItems -> Nat]
      BY <1>1, <1>2, <1>3 DEF Phases
  <2>2. launches' \in Nat /\ launches' > 0
      BY <1>1
  <2>3. \A o \in AllItems : phase'[o] # "done" => o \in Items
      BY <1>1
  <2> QED BY <1>2, <1>3, <2>1, <2>2, <2>3 DEF PhaseInv, Phases
<1>5. FillInv'
  <2> SUFFICES ASSUME NEW o \in Items, NEW c \in Fills(o), c < Reached(o)'
               PROVE  FALSE
      BY <1>2 DEF FillInv
  <2>1. Reached(o)' = First(o)
      BY <1>3 DEF Reached
  <2>2. c \in Nat /\ (c < ELEMENTS => c \in Dealt(o))
      BY FillBelow
  <2>3. First(o) < ELEMENTS /\ ELEMENTS \in Nat
      BY <1>3, ItemFacts
  <2> QED BY <1>3, <2>1, <2>2, <2>3
<1>6. DirtyInv'
  <2>1. warm' \in BOOLEAN
      BY <1>1, Zenon
  <2>2. warm' <=> type' = "global" /\ launches' > 1
    <3>1. warm' <=> type = "global" /\ launches > 0
        BY <1>1, Zenon
    <3>2. launches > 0 <=> launches' > 1
        BY <1>1
    <3> QED BY <1>2, <3>1, <3>2, Zenon
  <2>3. launches > 0 => launches' > 0
      BY <1>1
  <2> QED BY <1>1, <1>2, <2>1, <2>2, <2>3 DEF DirtyInv
<1>7. ExactInv'
  <2> SUFFICES ASSUME type # "global" PROVE ExactInv'
      BY <1>2 DEF ExactInv
  <2>1. s1' \in [Memory -> Int] /\ output' \in [AllItems -> Int]
    <3>1. s1 \in [Memory -> Int] /\ output \in [AllItems -> Int]
        BY DEF ExactInv
    <3>2. s1' = [c \in DOMAIN s1 |-> Garbage] /\ Garbage \in Int
        BY DEF BeginLaunch, Garbage
    <3> QED BY <1>1, <3>1, <3>2
  <2>2. ASSUME NEW o \in Items
        PROVE  Stored(o)' = {} /\ output'[o] = AddedUp(o)'
    <3>1. Stored(o)' = {}
        BY <1>2, <1>3 DEF Stored
    <3>2. output[o] = (launches * Cardinality(Dealt(o))) + 0
      <4>1. phase[o] = "done"
          BY DEF Idle
      <4> QED BY <4>1 DEF ExactInv, AddedUp, Ended
    <3>3. AddedUp(o)' = ((launches' - 1) * Cardinality(Dealt(o))) + 0
        BY <1>2, <1>3 DEF AddedUp, Ended
    <3>4. launches' - 1 = launches
        BY <1>1
    <3> QED BY <1>1, <3>1, <3>2, <3>3, <3>4
  <2> QED BY <1>2, <2>1, <2>2 DEF ExactInv, Memory, AllItems
<1> QED BY <1>4, <1>5, <1>6, <1>7

\* On fresh buffers nothing was launched.
LEMMA FreshBuffers ==
    ASSUME ShapeInv', NewBuffers
    PROVE  PhaseInv' /\ FillInv' /\ DirtyInv' /\ ExactInv'
<1>1. /\ phase' = [it \in AllItems |-> "done"] /\ idx' = [it \in AllItems |-> 0]
      /\ launches' = 0 /\ dirty' = {} /\ warm' = FALSE
      /\ s1' = [c \in Memory |-> Garbage] /\ output' = [it \in AllItems |-> 0]
    BY DEF NewBuffers, Memory
<1>2. /\ ELEMENTS' \in Nat \ {0} /\ units' \in 1..Groups /\ localRange' \in 1..Locals
      /\ Groups \in Nat /\ Locals \in Nat
    BY KernelAssumption DEF ShapeInv
<1>3. Items' \subseteq AllItems
    BY <1>2 DEF Items, AllItems
<1>4. \A o \in Items' : phase'[o] = "done" /\ output'[o] = 0
    BY <1>1, <1>3
<1>5. PhaseInv'
    BY <1>1, <1>4 DEF PhaseInv
<1>6. FillInv'
  <2> SUFFICES ASSUME NEW o \in Items', NEW c \in Fills(o)', c < Reached(o)'
               PROVE  FALSE
      BY DEF FillInv
  <2>1. Reached(o)' = 0
      BY <1>1, <1>4 DEF Reached
  <2>2. c \in 0..(2 * ELEMENTS' - 1)
      BY DEF Fills
  <2> QED BY <1>2, <2>1, <2>2
<1>7. DirtyInv'
  <2>1. warm' \in BOOLEAN
      BY <1>1, Zenon
  <2>2. ~warm' /\ ~(launches' > 1)
      BY <1>1
  <2> QED BY <1>1, <2>1, <2>2 DEF DirtyInv
<1>8. ExactInv'
  <2>1. s1' \in [Memory -> Int] /\ output' \in [AllItems -> Int]
      BY <1>1 DEF Garbage
  <2>2. ASSUME NEW o \in Items'
        PROVE  Stored(o)' = {} /\ output'[o] = AddedUp(o)'
    <3>1. Stored(o)' = {}
        BY <1>4 DEF Stored
    <3>2. Cardinality(Dealt(o)') \in Nat
      <4> DEFINE e == ELEMENTS' - 1
      <4>1. 0 \in Int /\ e \in Int
          BY <1>2
      <4>2. Dealt(o)' \subseteq 0..e
          BY DEF Dealt
      <4> HIDE DEF e
      <4>3. IsFiniteSet(0..e)
          BY <4>1, FS_Interval
      <4>4. IsFiniteSet(Dealt(o)')
          BY <4>2, <4>3, FS_Subset
      <4> QED BY <4>4, FS_CardinalityType
    <3>3. AddedUp(o)' = (0 * Cardinality(Dealt(o)')) + 0
        BY <1>1, <1>4 DEF AddedUp, Ended
    <3> QED BY <1>4, <3>1, <3>2, <3>3
  <2> QED BY <2>1, <2>2 DEF ExactInv, Memory, AllItems
<1> QED BY <1>5, <1>6, <1>7, <1>8

\* Each step of the kernel.
LEMMA ComputeStep ==
    ASSUME KernelInv, ~stray, Compute
    PROVE  PhaseInv' /\ FillInv' /\ DirtyInv' /\ ExactInv' /\ StrayInv'
<1> USE DEF shape
<1> DEFINE Goal == PhaseInv' /\ FillInv' /\ DirtyInv' /\ ExactInv'
<1>1. /\ ShapeInv /\ PhaseInv /\ FillInv /\ DirtyInv /\ ExactInv /\ stray = FALSE
      /\ UNCHANGED <<larg, f4, failures>> /\ Running
    BY DEF KernelInv, StrayInv, Compute, hostVars, input, position
<1>2. ASSUME NEW it \in Items, FillLower(it)
      PROVE  Goal /\ StrayInv'
  <2>1. CASE idx[it] >= allocated
    <3>1. /\ stray' = TRUE /\ phase[it] = "lower"
          /\ UNCHANGED <<shape, phase, idx, half, s1, output, warm, launches, dirty>>
        BY <1>2, <2>1 DEF FillLower, Stray
    <3>2. Goal
        BY <1>1, <3>1, SameKernel
    <3>3. idx[it] \in Dealt(it)
        BY <1>1, <3>1 DEF PhaseInv
    <3>4. allocated # ELEMENTS
      <4>1. idx[it] < ELEMENTS /\ idx[it] \in Nat /\ ELEMENTS \in Nat
          BY <1>1, <3>3, ItemFacts
      <4> QED BY <2>1, <4>1
    <3>5. StrayInv'
        BY <1>1, <3>1, <3>4 DEF ShapeInv, StrayInv, StraysOnlyWithoutMemory
    <3> QED BY <3>2, <3>5
  <2>2. CASE ~(idx[it] >= allocated)
    <3>1. UNCHANGED <<type, warm, launches, dirty, stray>>
        BY <1>2, <2>2 DEF FillLower
    <3>2. PhaseInv' /\ FillInv'
        BY <1>1, <1>2, <2>2, LowerFill
    <3>3. DirtyInv'
        BY <1>1, <3>1 DEF DirtyInv
    <3>4. ExactInv'
      <4>1. CASE type = "global"
          BY <3>1, <4>1 DEF ExactInv
      <4>2. CASE type # "global"
          BY <1>1, <1>2, <2>2, <4>2, LowerExact
      <4> QED BY <4>1, <4>2
    <3>5. StrayInv'
        BY <1>1, <3>1 DEF StrayInv, StraysOnlyWithoutMemory
    <3> QED BY <3>2, <3>3, <3>4, <3>5
  <2> QED BY <2>1, <2>2
<1>3. ASSUME NEW it \in Items, FillUpper(it)
      PROVE  Goal /\ StrayInv'
  <2>1. CASE idx[it] >= 2 * allocated
    <3>1. /\ stray' = TRUE /\ phase[it] = "upper"
          /\ UNCHANGED <<shape, phase, idx, half, s1, output, warm, launches, dirty>>
        BY <1>3, <2>1 DEF FillUpper, Stray
    <3>2. Goal
        BY <1>1, <3>1, SameKernel
    <3>3. idx[it] - ELEMENTS \in Dealt(it) /\ idx[it] \in Nat
        BY <1>1, <3>1, ItemFacts DEF PhaseInv
    <3>4. allocated # ELEMENTS
      <4>1. idx[it] - ELEMENTS < ELEMENTS /\ ELEMENTS \in Nat
          BY <1>1, <3>3, ItemFacts
      <4> QED BY <2>1, <3>3, <4>1
    <3>5. StrayInv'
        BY <1>1, <3>1, <3>4 DEF ShapeInv, StrayInv, StraysOnlyWithoutMemory
    <3> QED BY <3>2, <3>5
  <2>2. CASE ~(idx[it] >= 2 * allocated)
    <3>1. UNCHANGED <<type, warm, launches, dirty, stray>>
        BY <1>3, <2>2 DEF FillUpper
    <3>2. PhaseInv' /\ FillInv'
        BY <1>1, <1>3, <2>2, UpperFill
    <3>3. DirtyInv'
        BY <1>1, <3>1 DEF DirtyInv
    <3>4. ExactInv'
      <4>1. CASE type = "global"
          BY <3>1, <4>1 DEF ExactInv
      <4>2. CASE type # "global"
          BY <1>1, <1>3, <2>2, <4>2, UpperExact
      <4> QED BY <4>1, <4>2
    <3>5. StrayInv'
        BY <1>1, <3>1 DEF StrayInv, StraysOnlyWithoutMemory
    <3> QED BY <3>2, <3>3, <3>4, <3>5
  <2> QED BY <2>1, <2>2
<1>4. ASSUME NEW it \in Items, Add(it)
      PROVE  Goal /\ StrayInv'
  <2>1. /\ phase[it] = "add" /\ Advance(it, ELEMENTS, "sum", First(it))
        /\ UNCHANGED <<shape, half, launches, stray>>
      BY <1>4 DEF Add
  <2>2. PhaseInv' /\ FillInv'
      BY <1>1, <2>1, BehindBarrier
  <2>3. DirtyInv'
      BY <1>1, <1>4, AddDirty
  <2>4. ExactInv'
    <3>1. CASE type = "global"
        BY <2>1, <3>1 DEF ExactInv
    <3>2. CASE type # "global"
        BY <1>1, <1>4, <3>2, AddExact
    <3> QED BY <3>1, <3>2
  <2>5. StrayInv'
      BY <1>1, <2>1 DEF StrayInv, StraysOnlyWithoutMemory
  <2> QED BY <2>2, <2>3, <2>4, <2>5
<1>5. ASSUME NEW it \in Items, Sum(it)
      PROVE  Goal /\ StrayInv'
  <2>1. /\ phase[it] = "sum" /\ Advance(it, ELEMENTS, "done", 0)
        /\ UNCHANGED <<shape, half, warm, launches, dirty, stray>>
      BY <1>5 DEF Sum
  <2>2. PhaseInv' /\ FillInv'
      BY <1>1, <2>1, BehindBarrier
  <2>3. DirtyInv'
      BY <1>1, <2>1 DEF DirtyInv
  <2>4. ExactInv'
    <3>1. CASE type = "global"
        BY <2>1, <3>1 DEF ExactInv
    <3>2. CASE type # "global"
        BY <1>1, <1>5, <3>2, SumExact
    <3> QED BY <3>1, <3>2
  <2>5. StrayInv'
      BY <1>1, <2>1 DEF StrayInv, StraysOnlyWithoutMemory
  <2> QED BY <2>2, <2>3, <2>4, <2>5
<1>6. ASSUME NEW g, Barrier(g)
      PROVE  Goal /\ StrayInv'
  <2>1. UNCHANGED <<type, warm, launches, dirty, stray>>
      BY <1>6 DEF Barrier
  <2>2. PhaseInv' /\ FillInv'
      BY <1>1, <1>6, BarrierPasses
  <2>3. DirtyInv'
      BY <1>1, <2>1 DEF DirtyInv
  <2>4. ExactInv'
    <3>1. CASE type = "global"
        BY <2>1, <3>1 DEF ExactInv
    <3>2. CASE type # "global"
        BY <1>1, <1>6, <3>2, BarrierExact
    <3> QED BY <3>1, <3>2
  <2>5. StrayInv'
      BY <1>1, <2>1 DEF StrayInv, StraysOnlyWithoutMemory
  <2> QED BY <2>2, <2>3, <2>4, <2>5
<1> HIDE DEF Goal
<1>7. Goal /\ StrayInv'
    BY <1>1, <1>2, <1>3, <1>4, <1>5, <1>6 DEF Running, Work
<1> QED BY <1>7 DEF Goal

\* Each step of the program.
LEMMA KernelStep ==
    ASSUME KernelInv, [Next]_vars
    PROVE  KernelInv'
<1> USE DEF input, position, window
<1>1. /\ ShapeInv /\ PhaseInv /\ FillInv /\ DirtyInv /\ ExactInv /\ StrayInv
      /\ ShapeInv'
    BY ShapeStep DEF KernelInv
<1>2. ASSUME UNCHANGED kernelVars, ~stray \/ UNCHANGED vars
      PROVE  KernelInv'
  <2>1. /\ UNCHANGED <<shape, phase, idx, half, s1, output, warm, launches, dirty>>
        /\ stray' = stray
      BY <1>2 DEF kernelVars
  <2>2. PhaseInv' /\ FillInv' /\ DirtyInv' /\ ExactInv'
      BY <1>1, <2>1, SameKernel
  <2>3. StrayInv'
    <3>1. CASE ~stray
        BY <1>1, <2>1, <3>1 DEF StrayInv, StraysOnlyWithoutMemory
    <3>2. CASE UNCHANGED vars
        BY <1>1, <3>2 DEF vars, hostVars, kernelVars, shape, StrayInv, StraysOnlyWithoutMemory
    <3> QED BY <1>2, <3>1, <3>2
  <2> QED BY <1>1, <2>2, <2>3 DEF KernelInv
<1>3. CASE ~stray /\ Setup
  <2>1. stray' = stray
      BY <1>3 DEF Setup
  <2>2. StrayInv'
      BY <1>1, <1>3, <2>1 DEF StrayInv, StraysOnlyWithoutMemory
  <2>3. CASE NewBuffers
      BY <1>1, <2>2, <2>3, FreshBuffers DEF KernelInv
  <2>4. CASE UNCHANGED <<units, localRange, ELEMENTS, allocated, phase, idx,
                         half, s1, output, warm, launches, dirty>>
    <3>1. UNCHANGED <<shape, phase, idx, half, s1, output, warm, launches, dirty>>
        BY <1>3, <2>4 DEF Setup, shape
    <3>2. PhaseInv' /\ FillInv' /\ DirtyInv' /\ ExactInv'
        BY <1>1, <3>1, SameKernel
    <3> QED BY <1>1, <2>2, <3>2 DEF KernelInv
  <2> QED BY <1>3, <2>3, <2>4 DEF Setup
<1>4. CASE ~stray /\ (Warmup \/ FinishWarmup \/ StartClock \/ Measure \/ StopClock
                      \/ NextPass \/ Succeeded \/ Failed \/ ExecuteLeftover)
  <2>1. UNCHANGED kernelVars
      BY <1>4 DEF Warmup, FinishWarmup, StartClock, Measure, StopClock, NextPass,
         Succeeded, Failed, ExecuteLeftover
  <2> QED BY <1>2, <1>4, <2>1
<1>5. CASE ~stray /\ Begin
  <2>1. Idle /\ BeginLaunch /\ stray' = stray
      BY <1>5 DEF Begin, BeginLaunch
  <2>2. PhaseInv' /\ FillInv' /\ DirtyInv' /\ ExactInv'
      BY <1>1, <2>1, LaunchStep
  <2>3. StrayInv'
      BY <1>1, <1>5, <2>1 DEF StrayInv, StraysOnlyWithoutMemory
  <2> QED BY <1>1, <2>2, <2>3 DEF KernelInv
<1>6. CASE ~stray /\ Compute
    BY <1>1, <1>6, ComputeStep DEF KernelInv
<1>7. CASE UNCHANGED vars
    BY <1>2, <1>7 DEF vars
<1> QED BY <1>3, <1>4, <1>5, <1>6, <1>7 DEF Next, Host

\* Nothing was launched when the program starts.
LEMMA KernelInit == Init => KernelInv
<1> SUFFICES ASSUME Init PROVE KernelInv
    OBVIOUS
<1> USE StreamingAssumption, KernelAssumption
<1>1. /\ device \in Devices /\ f4 \in Vectors /\ type \in Types /\ failures \in {0, 1}
      /\ units = 1 /\ localRange = 1 /\ ELEMENTS = 1 /\ allocated = 1
      /\ phase = [it \in AllItems |-> "done"] /\ idx = [it \in AllItems |-> 0]
      /\ s1 = [c \in Memory |-> Garbage] /\ output = [it \in AllItems |-> 0]
      /\ warm = FALSE /\ launches = 0 /\ dirty = {} /\ stray = FALSE
      /\ larg = FALSE /\ ws = 0
    BY DEF Init, Memory
<1>2. ShapeInv
  <2>1. larg \in BOOLEAN
      BY <1>1, Zenon
  <2>2. 1 \in 1..Groups /\ 1 \in 1..Locals /\ 1 \in 1..Cells
      OBVIOUS
  <2> QED BY <1>1, <2>1, <2>2 DEF ShapeInv
<1>3. \A o \in Items : phase[o] = "done" /\ output[o] = 0
    BY <1>1, <1>2, ItemFacts
<1>4. PhaseInv
    BY <1>1, <1>3 DEF PhaseInv
<1>5. FillInv
  <2> SUFFICES ASSUME NEW o \in Items, NEW c \in Fills(o), c < Reached(o)
               PROVE  FALSE
      BY DEF FillInv
  <2>1. Reached(o) = 0
      BY <1>1, <1>3 DEF Reached
  <2> QED BY <1>2, <2>1, FillBelow
<1>6. DirtyInv
  <2>1. warm \in BOOLEAN
      BY <1>1, Zenon
  <2>2. ~warm /\ ~(launches > 1)
      BY <1>1
  <2> QED BY <1>1, <2>1, <2>2 DEF DirtyInv
<1>7. ExactInv
  <2>1. s1 \in [Memory -> Int] /\ output \in [AllItems -> Int]
      BY <1>1 DEF Garbage
  <2>2. ASSUME NEW o \in Items
        PROVE  Stored(o) = {} /\ output[o] = AddedUp(o)
    <3>1. Stored(o) = {}
        BY <1>3 DEF Stored
    <3>2. AddedUp(o) = (0 * Cardinality(Dealt(o))) + 0
        BY <1>1, <1>3 DEF AddedUp, Ended
    <3> QED BY <1>2, <1>3, <3>1, <3>2, Counts
  <2> QED BY <2>1, <2>2 DEF ExactInv
<1>8. StrayInv
  <2>1. stray \in BOOLEAN /\ ~stray
      BY <1>1, Zenon
  <2> QED BY <2>1 DEF StrayInv, StraysOnlyWithoutMemory
<1> QED BY <1>2, <1>4, <1>5, <1>6, <1>7, <1>8 DEF KernelInv
-----------------------------------------------------------------------------
(* The warm-up.                                                            *)

LEMMA WarmInit == Init => WarmInv
<1> SUFFICES ASSUME Init PROVE WarmInv
    OBVIOUS
<1>1. /\ warmed = 0 /\ failures \in {0, 1} /\ launches = 0 /\ timed = 0 /\ i = 0
      /\ queued = 0 /\ pc = "setup"
    BY DEF Init
<1> QED BY <1>1 DEF WarmInv

\* Each step takes the launches from those accepted.
LEMMA WarmStep ==
    ASSUME WarmInv, WindowInv, [Next]_vars
    PROVE  WarmInv'
<1> USE DEF input, position, window
<1>1. CASE Setup
  <2>1. /\ i' = 0 /\ warmed' = 0 /\ UNCHANGED <<ready, timed>>
        /\ pc' \in {"warmup", "failed"} /\ pc' \notin {"finish", "measure", "passed"}
      BY <1>1 DEF Setup
  <2>2. failures' \in Nat
    <3>1. UNCHANGED failures \/ Fails(FALSE) \/ Fails(ready = "none")
        BY <1>1 DEF Setup
    <3> QED BY <3>1 DEF Fails, WarmInv
  <2>3. CASE pc' = "warmup"
    <3>1. launches' = 0 /\ queued' = 0
      <4>1. NewBuffers /\ LeaveBehind
          BY <1>1, <2>3 DEF Setup
      <4>2. launches' = 0
          BY <4>1 DEF NewBuffers
      <4>3. queued' = 0
          BY <4>1 DEF LeaveBehind
      <4> QED BY <4>2, <4>3
    <3>2. /\ launches' + queued' = warmed' /\ failures' + warmed' >= i'
          /\ launches' \in Nat /\ queued' \in Nat /\ warmed' \in Nat /\ i' \in Nat
          /\ timed' \in Nat
      <4>1. i' = 0 /\ warmed' = 0 /\ launches' = 0 /\ queued' = 0
          BY <2>1, <3>1, Zenon
      <4>2. timed' = timed /\ timed \in Nat
          BY <2>1 DEF WarmInv
      <4>3. launches' + queued' = warmed'
          BY <4>1
      <4>4. failures' + warmed' >= i'
        <5>1. \A n \in Nat : n + 0 >= 0
            OBVIOUS
        <5>2. failures' + 0 >= 0
            BY <2>2, <5>1
        <5> QED BY <4>1, <5>2, Zenon
      <4> QED BY <4>1, <4>2, <4>3, <4>4
    <3>3. pc' \notin {"finish", "measure", "passed"}
        BY <2>3
    <3> QED BY <2>2, <2>3, <3>1, <3>2, <3>3 DEF WarmInv
  <2>4. CASE pc' = "failed"
    <3>1. UNCHANGED <<launches, queued>>
        BY <1>1, <2>4 DEF Setup
    <3> QED BY <2>1, <2>2, <2>4, <3>1 DEF WarmInv
  <2> QED BY <2>1, <2>3, <2>4
<1>2. CASE Warmup
  <2>1. pc = "warmup" /\ pc' = "finish" /\ UNCHANGED <<launches, ready, i, timed>>
      BY <1>2 DEF Warmup, kernelVars
  <2>2. CASE Enqueue /\ warmed' = warmed + 1
      BY <2>1, <2>2 DEF Enqueue, WarmInv
  <2>3. CASE Refused /\ UNCHANGED warmed
      BY <2>1, <2>3 DEF Refused, Fails, WarmInv
  <2> QED BY <1>2, <2>2, <2>3 DEF Warmup
<1>3. CASE FinishWarmup
  <2>1. /\ pc = "finish" /\ pc' = "warmup" /\ i' = i + 1
        /\ UNCHANGED <<launches, ready, warmed, timed, queued, failures>>
      BY <1>3 DEF FinishWarmup, kernelVars
  <2> QED BY <2>1 DEF WarmInv
<1>4. CASE StartClock
  <2>1. /\ pc = "warmup" /\ i = WARMUP_CYCLES /\ pc' = "measure" /\ i' = 0 /\ timed' = 0
        /\ UNCHANGED <<launches, ready, warmed, queued, failures>>
      BY <1>4 DEF StartClock, kernelVars
  <2>2. queued = 0
      BY <2>1, StreamingAssumption DEF WindowInv
  <2> QED BY <2>1, <2>2 DEF WarmInv
<1>5. CASE Measure
  <2>1. pc = "measure" /\ UNCHANGED <<launches, ready, warmed, timed>>
      BY <1>5 DEF Measure, kernelVars
  <2>2. CASE Enqueue /\ i' = i + 1 /\ UNCHANGED <<pc, clock>>
      BY <2>1, <2>2 DEF Enqueue, WarmInv
  <2>3. CASE Refused /\ pc' = "failed" /\ UNCHANGED i
      BY <2>1, <2>3 DEF Refused, Fails, WarmInv
  <2> QED BY <1>5, <2>2, <2>3 DEF Measure
<1>6. CASE StopClock
  <2>1. /\ pc = "measure" /\ pc' = "passed" /\ queued = 0
        /\ UNCHANGED <<launches, ready, i, warmed, timed, queued, failures>>
      BY <1>6 DEF StopClock, Drained, kernelVars
  <2> QED BY <2>1 DEF WarmInv
<1>7. CASE NextPass \/ Succeeded \/ Failed
  <2>1. UNCHANGED <<launches, ready, i, warmed, timed, queued, failures>>
      BY <1>7 DEF NextPass, Succeeded, Failed, kernelVars
  <2>2. pc' \in {"setup", "ran", "exit"}
      BY <1>7 DEF NextPass, Succeeded, Failed, NextRepeat, Report
  <2> QED BY <2>1, <2>2 DEF WarmInv
<1>8. CASE ExecuteLeftover
  <2>1. /\ leftover > 0
        /\ timed' = IF clock THEN timed + 1 ELSE timed
        /\ UNCHANGED <<launches, ready, i, warmed, queued, failures, pc>>
      BY <1>8 DEF ExecuteLeftover, kernelVars
  <2>2. timed' = timed
      BY <2>1 DEF WindowInv
  <2> QED BY <2>1, <2>2 DEF WarmInv
<1>9. CASE Begin
  <2>1. /\ queued > 0 /\ queued' = queued - 1 /\ launches' = launches + 1
        /\ timed' = IF clock THEN timed + 1 ELSE timed
        /\ UNCHANGED <<ready, i, warmed, failures, pc>>
      BY <1>9 DEF Begin, BeginLaunch
  <2>2. clock <=> pc = "measure"
      BY DEF WindowInv
  <2> QED BY <2>1, <2>2 DEF WarmInv
<1>10. CASE Compute
  <2>1. UNCHANGED <<ready, queued, i, warmed, timed, failures, pc>>
      BY <1>10 DEF Compute, hostVars
  <2>2. launches' = launches
      BY <1>10 DEF Compute, Running, Work, FillLower, FillUpper, Add, Sum, Barrier
  <2> QED BY <2>1, <2>2 DEF WarmInv
<1>11. CASE UNCHANGED vars
    BY <1>11 DEF vars, kernelVars, hostVars, WarmInv
<1> QED BY <1>1, <1>2, <1>3, <1>4, <1>5, <1>6, <1>7, <1>8, <1>9, <1>10, <1>11
        DEF Next, Host
-----------------------------------------------------------------------------
\* All of them hold in every reachable state.
LEMMA Reachable == Spec => [](KernelInv /\ WarmInv)
<1>1. Init => KernelInv /\ WarmInv /\ WindowInv
    BY KernelInit, WarmInit, WindowInit
<1>2. KernelInv /\ WarmInv /\ WindowInv /\ [Next]_vars => (KernelInv /\ WarmInv /\ WindowInv)'
    BY KernelStep, WarmStep, WindowStep
<1> QED BY <1>1, <1>2, PTL DEF Spec

\* In local and private memory every element a work-item is dealt is added
\* up once in every launch, however the work-items interleave.
THEOREM SumsAreExact == Spec => []ResultExact
<1>1. ASSUME KernelInv, Idle, type # "global", NEW it \in Items
      PROVE  output[it] = launches * Share(it)
  <2>1. ShapeInv /\ PhaseInv /\ ExactInv
      BY <1>1 DEF KernelInv
  <2>2. output[it] = (launches * Cardinality(Dealt(it))) + 0
    <3>1. phase[it] = "done"
        BY <1>1 DEF Idle
    <3> QED BY <1>1, <2>1, <3>1 DEF ExactInv, AddedUp, Ended
  <2>3. Cardinality(Dealt(it)) = Share(it)
    <3>1. CASE type = "private"
      <4> DEFINE e == ELEMENTS - 1
      <4>1. 0 \in Int /\ e \in Int /\ 0 <= e /\ (e - 0) + 1 = ELEMENTS
          BY <2>1, ItemFacts
      <4>2. Dealt(it) = 0..e
        <5>1. \A c \in 0..e : c % 1 = 0
            BY <4>1
        <5>2. Step = 1 /\ First(it) = 0
            BY <3>1 DEF Step, First
        <5> QED BY <5>1, <5>2 DEF Dealt
      <4> HIDE DEF e
      <4>3. Cardinality(0..e) = (e - 0) + 1
          BY <4>1, FS_Interval
      <4> QED BY <3>1, <4>1, <4>2, <4>3 DEF Share
    <3>2. CASE type # "private"
      <4>1. Step = localRange /\ First(it) = it[2]
          BY <3>2 DEF Step, First
      <4> QED BY <3>2, <4>1 DEF Dealt, Share
    <3> QED BY <3>1, <3>2
  <2>4. launches \in Nat /\ Cardinality(Dealt(it)) \in Nat
      BY <2>1, Counts DEF PhaseInv
  <2> QED BY <2>2, <2>3, <2>4
<1>2. KernelInv => ResultExact
    BY <1>1 DEF ResultExact
<1> QED BY <1>2, Reachable, PTL

\* A word nothing was stored in is read by the first launch on its buffers
\* at most, and only in global memory.
THEOREM FirstLaunchGarbage == Spec => []GarbageOnlyAtFirst
<1>1. KernelInv => GarbageOnlyAtFirst
    BY DEF KernelInv, DirtyInv, GarbageOnlyAtFirst
<1> QED BY <1>1, Reachable, PTL

\* Memory outside the arrays is accessed only if local memory for float16 is
\* passed as an argument, or a buffer could not be created.
THEOREM StraysExplained == Spec => []StraysOnlyWithoutMemory
<1>1. KernelInv => StraysOnlyWithoutMemory
    BY DEF KernelInv, StrayInv
<1> QED BY <1>1, Reachable, PTL

\* A launch that is timed reads defined words, unless as many calls failed
\* as there are warm-up launches.
THEOREM WarmWhenMeasured == Spec => []MeasuredWarm
<1>1. KernelInv /\ WarmInv => MeasuredWarm
  <2> SUFFICES ASSUME KernelInv, WarmInv, pc \in {"measure", "passed"}, dirty # {},
                      timed = launches
               PROVE  failures >= WARMUP_CYCLES
      BY DEF MeasuredWarm
  <2>1. launches > 0
      BY DEF KernelInv, DirtyInv
  <2>2. ready = "queue"
      BY <2>1 DEF WarmInv
  <2>3. warmed = 0
      BY DEF WarmInv
  <2> QED BY <2>2, <2>3 DEF WarmInv
<1> QED BY <1>1, Reachable, PTL
=============================================================================
