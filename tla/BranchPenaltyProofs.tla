------------------------ MODULE BranchPenaltyProofs ------------------------
(***************************************************************************)
(* Proofs about BranchPenalty, for every number of work-items, devices and *)
(* failures: the loop fills in the selector of its definition, and a line  *)
(* without an error message is of its own launch on that selector, and     *)
(* every point is measured once.                                           *)
(***************************************************************************)
EXTENDS BranchPenalty, TLAPS

(* Arithmetic.                                                             *)

\* Quotient and remainder.
LEMMA Division ==
    \A a \in Nat, b \in Nat \ {0} :
        /\ a = (b * (a \div b)) + (a % b)
        /\ a % b \in 0..(b - 1)
        /\ a \div b \in Nat
  OBVIOUS

\* The quotient is determined by any way of writing the number.
LEMMA QuotientIs ==
    \A q \in Nat, b \in Nat \ {0} :
        \A r \in 0..(b - 1) : ((b * q) + r) \div b = q
  OBVIOUS

\* So is the remainder.
LEMMA RemainderIs ==
    \A q \in Nat, b \in Nat \ {0} :
        \A r \in 0..(b - 1) : ((b * q) + r) % b = r
  OBVIOUS

\* Counting on by one from a number with the greatest remainder begins the
\* next multiple; from any other it raises the remainder.
LEMMA CountOn ==
    \A a \in Nat, b \in Nat \ {0} :
        IF a % b = b - 1
        THEN (a + 1) % b = 0 /\ (a + 1) \div b = (a \div b) + 1
        ELSE (a + 1) % b = (a % b) + 1 /\ (a + 1) \div b = a \div b
<1> SUFFICES ASSUME NEW a \in Nat, NEW b \in Nat \ {0}
             PROVE  IF a % b = b - 1
                    THEN (a + 1) % b = 0 /\ (a + 1) \div b = (a \div b) + 1
                    ELSE (a + 1) % b = (a % b) + 1 /\ (a + 1) \div b = a \div b
    OBVIOUS
<1> DEFINE q == a \div b
           r == a % b
<1>1. a = (b * q) + r /\ r \in 0..(b - 1) /\ q \in Nat
    BY Division
<1> HIDE DEF q, r
<1>2. CASE r = b - 1
  <2>1. a + 1 = (b * (q + 1)) + 0 /\ q + 1 \in Nat /\ 0 \in 0..(b - 1)
      BY <1>1, <1>2
  <2>2. ((b * (q + 1)) + 0) % b = 0 /\ ((b * (q + 1)) + 0) \div b = q + 1
      BY <2>1, QuotientIs, RemainderIs, Zenon
  <2> QED BY <2>1, <2>2, <1>2, Zenon DEF q, r
<1>3. CASE r # b - 1
  <2>1. a + 1 = (b * q) + (r + 1) /\ r + 1 \in 0..(b - 1)
      BY <1>1, <1>3
  <2>2. ((b * q) + (r + 1)) % b = r + 1 /\ ((b * q) + (r + 1)) \div b = q
      BY <1>1, <2>1, QuotientIs, RemainderIs, Zenon
  <2> QED BY <2>1, <2>2, <1>3, Zenon DEF q, r
<1> QED BY <1>2, <1>3, Zenon
-----------------------------------------------------------------------------
(* One step of the loop that fills in the selector.                        *)

\* The branch of the work-item before n; 0 before the first one.
Previous(n, types, size) == IF n = 0 THEN 0 ELSE Branch(n - 1, types, size)

\* Branches are numbered from 1.
LEMMA BranchType ==
    \A n \in Nat, t \in Nat \ {0}, s \in Nat \ {0} : Branch(n, t, s) \in 1..t
<1> SUFFICES ASSUME NEW n \in Nat, NEW t \in Nat \ {0}, NEW s \in Nat \ {0}
             PROVE  Branch(n, t, s) \in 1..t
    OBVIOUS
<1>1. n \div s \in Nat BY Division
<1>2. (n \div s) % t \in 0..(t - 1) BY <1>1, Division
<1> QED BY <1>2 DEF Branch

\* A number below the modulus is its own remainder.
LEMMA OwnRemainder == \A b \in Nat \ {0} : \A a \in 0..(b - 1) : a % b = a
  OBVIOUS

\* From the branch of the work-item before, NextBranch makes that of work-item
\* k: the next one at the beginning of a run, and the first after the last.
LEMMA NextBranchIs ==
    ASSUME k \in Nat, branchtypes \in Nat \ {0}, branchsize \in Nat \ {0},
           curbranch = Previous(k, branchtypes, branchsize)
    PROVE  NextBranch = Branch(k, branchtypes, branchsize)
<1> DEFINE t == branchtypes
           s == branchsize
<1>1. CASE k = 0
  <2>1. 0 % s = 0 /\ 0 \div s = 0 /\ 0 % t = 0
      OBVIOUS
  <2>2. 1 % (t + 1) = 1
      BY OwnRemainder
  <2> QED BY <1>1, <2>1, <2>2 DEF NextBranch, Branch, Previous
<1>2. CASE k # 0
  <2> DEFINE p == k - 1
             q == p \div s
  <2>0. p \in Nat /\ k = p + 1 /\ q \in Nat /\ t \in Nat \ {0} /\ s \in Nat \ {0}
      BY <1>2, Division
  <2>1. curbranch = (q % t) + 1 /\ q % t \in 0..(t - 1)
      BY <1>2, <2>0, Division DEF Previous, Branch
  <2>2. IF p % s = s - 1 THEN k % s = 0 /\ k \div s = q + 1
                         ELSE k % s = (p % s) + 1 /\ k \div s = q
      BY <2>0, CountOn, ZenonT(40)
  <2>3. p % s \in 0..(s - 1)
      BY <2>0, Division
  <2> HIDE DEF t, s, p, q
  <2>4. CASE p % s # s - 1
    <3>1. k % s # 0 /\ k \div s = q
        BY <2>2, <2>3, <2>4
    <3>2. curbranch % (t + 1) = curbranch /\ curbranch # 0
        BY <2>0, <2>1, OwnRemainder
    <3> QED BY <2>1, <3>1, <3>2, Zenon DEF NextBranch, Branch, t, s
  <2>5. CASE p % s = s - 1 /\ q % t = t - 1
    <3>1. k % s = 0 /\ k \div s = q + 1
        BY <2>2, <2>5, Zenon
    <3>2. (q + 1) % t = 0
        BY <2>0, <2>5, CountOn, Zenon
    <3>3. curbranch + 1 = t + 1
        BY <2>0, <2>1, <2>5
    <3>4. (t + 1) % (t + 1) = 0
        BY <2>0
    <3>5. NextBranch = 1
        BY <3>1, <3>3, <3>4, Zenon DEF NextBranch, t, s
    <3>6. Branch(k, t, s) = 1
        BY <3>1, <3>2 DEF Branch
    <3> QED BY <3>5, <3>6 DEF t, s
  <2>6. CASE p % s = s - 1 /\ q % t # t - 1
    <3>1. k % s = 0 /\ k \div s = q + 1
        BY <2>2, <2>6, Zenon
    <3>2. (q + 1) % t = (q % t) + 1
        BY <2>0, <2>6, CountOn, Zenon
    <3>3. curbranch + 1 \in 1..t /\ curbranch + 1 # 0
        BY <2>0, <2>1, <2>6
    <3>4. (curbranch + 1) % (t + 1) = curbranch + 1
        BY <2>0, <3>3, OwnRemainder
    <3>5. NextBranch = curbranch + 1
        BY <3>1, <3>3, <3>4, Zenon DEF NextBranch, t, s
    <3>6. Branch(k, t, s) = curbranch + 1
        BY <2>1, <3>1, <3>2, Zenon DEF Branch
    <3> QED BY <3>5, <3>6 DEF t, s
  <2> QED BY <2>4, <2>5, <2>6, Zenon
<1> QED BY <1>1, <1>2, Zenon
-----------------------------------------------------------------------------
(* The invariant.                                                          *)

Selectors == [0..(BPSIZE - 1) -> Nat]
Events    == [launch : Nat, ran : Selectors]
Lines     == [device : Nat, types : Nat, size : Nat, start : Nat, end : Nat,
              norm : Nat, launch : Nat, event : Events, reported : BOOLEAN]

\* Types of the variables.
TypeOK ==
    /\ i \in Nat /\ branchtypes \in Nat \ {0} /\ branchsize \in Nat \ {0}
    /\ k \in 0..BPSIZE /\ curbranch \in Nat /\ branchSelector \in Selectors
    /\ buffer \in Selectors /\ event \in Events /\ launches \in Nat
    /\ time_start \in Nat /\ time_end \in Nat /\ normtime \in Nat
    /\ reported \in BOOLEAN /\ table \in Seq(Lines)

\* The selector's part that is filled in, and the branch of its last place.
FillInv ==
    stage = "fill" =>
      /\ curbranch = Previous(k, branchtypes, branchsize)
      /\ \A n \in 0..(k - 1) :
           branchSelector[n] = Branch(n, branchtypes, branchsize)

\* Without an error so far, the selector is on the device, then run by the
\* latest launch, and then timed.
MeasureInv ==
    ~reported =>
      /\ stage = "launch" => buffer = branchSelector
      /\ stage \in {"wait", "print"} =>
           event.ran = branchSelector /\ event.launch = launches
      /\ stage = "print" => time_start = launches /\ time_end = launches

\* The lines are of this device or earlier ones and of launches made; the
\* launch of this measurement is of none of them.
OrderInv ==
    /\ event.launch <= launches
    /\ \A n \in 1..Len(table) :
         /\ table[n].launch <= launches /\ table[n].device <= i
         /\ stage = "device" => table[n].device < i
         /\ stage \in {"wait", "print"} /\ ~reported => table[n].launch < launches

\* The first measurement of a device is made once, and normtime is its time.
NormInv ==
    \A n \in 1..Len(table) :
      table[n].device = i =>
        /\ branchtypes > 1 \/ branchsize > 1
        /\ table[n].types = 1 /\ table[n].size = 1 /\ ~table[n].reported =>
             normtime = table[n].launch

\* An event that is not set belongs to lines with errors.
EventInv ==
    /\ stage = "crash" => event.launch = 0
    /\ event.launch = 0 =>
      /\ event = NoEvent
      /\ stage = "print" => reported
      /\ \A n \in 1..Len(table) : table[n].device = i => table[n].reported

PenaltyInv ==
    /\ TypeOK /\ FillInv /\ SelectorIsExact /\ MeasureInv /\ OrderInv
    /\ NormInv /\ EventInv /\ LinesAreOfTheirLaunch

\* What is due: a line for each device chosen and each point of the loops.
Chosen == {d \in 0..(num_devices - 1) : device_id \in {-1, d}}
Points == {p \in (1..BPSIZE) \X (1..BPSIZE) : p[1] * p[2] <= BPSIZE}
Due    == {<<d, p[1], p[2]>> : d \in Chosen, p \in Points}
Key(n) == <<table[n].device, table[n].types, table[n].size>>

\* The stages of a measurement, and what the loops have behind them.
Measuring == {"begin", "fill", "launch", "wait", "print", "crash"}
Passed(q) ==
    \/ q[1] < i
    \/ /\ stage \in Measuring /\ q[1] = i
       /\ \/ q[2] < branchtypes
          \/ q[2] = branchtypes /\ q[3] < branchsize

\* The loops stand on a device chosen, at a point that is due unless they
\* are over.
LoopInv ==
    /\ num_devices \in Nat
    /\ stage = "end" => i >= num_devices
    /\ stage \in Measuring =>
         /\ i \in Chosen
         /\ branchtypes <= BPSIZE => branchsize <= BPSIZE \div branchtypes
         /\ stage # "begin" => branchtypes <= BPSIZE

\* The table has one line for each point passed, and no other.
PointInv ==
    /\ \A n \in 1..Len(table) : Key(n) \in Due /\ Passed(Key(n))
    /\ \A q \in Due : Passed(q) => \E n \in 1..Len(table) : Key(n) = q
    /\ \A n, m \in 1..Len(table) : Key(n) = Key(m) => n = m

\* The initial states.
LEMMA InitInv == Init => PenaltyInv
<1> SUFFICES ASSUME Init PROVE PenaltyInv
    OBVIOUS
<1>1. TypeOK
    BY PenaltyAssumption DEF Init, TypeOK, Selectors, Events, Unset, NoEvent
<1>2. QED
    BY <1>1 DEF Init, PenaltyInv, FillInv, SelectorIsExact, MeasureInv, OrderInv,
                NormInv, EventInv, LinesAreOfTheirLaunch, NoEvent

\* The next point of the two loops is not the first.
LEMMA NextPointType ==
    ASSUME TypeOK, NextPoint
    PROVE  /\ branchtypes' \in Nat \ {0} /\ branchsize' \in Nat \ {0}
           /\ branchtypes' > 1 \/ branchsize' > 1
  BY DEF TypeOK, NextPoint

\* The parts of a line that the invariants compare.
LEMMA LineType ==
    ASSUME TypeOK
    PROVE  /\ Len(table) \in Nat /\ i \in Nat /\ launches \in Nat
           /\ event.launch \in Nat
           /\ \A n \in 1..Len(table) :
                table[n].device \in Nat /\ table[n].launch \in Nat
<1>1. \A n \in 1..Len(table) : table[n] \in Lines
    BY DEF TypeOK
<1>2. \A l \in Lines : l.device \in Nat /\ l.launch \in Nat
    BY DEF Lines
<1> QED BY <1>1, <1>2 DEF TypeOK, Events

\* A new line has the type of a line.
LEMMA NewLine ==
    ASSUME TypeOK, PrintTime
    PROVE  /\ table' \in Seq(Lines) /\ Len(table') = Len(table) + 1
           /\ \A n \in 1..Len(table) : table'[n] = table[n]
           /\ table'[Len(table) + 1] =
                [device |-> i, types |-> branchtypes, size |-> branchsize,
                 start |-> time_start, end |-> time_end, norm |-> normtime',
                 launch |-> launches, event |-> event, reported |-> reported]
<1> DEFINE l == [device |-> i, types |-> branchtypes, size |-> branchsize,
                 start |-> time_start, end |-> time_end, norm |-> normtime',
                 launch |-> launches, event |-> event, reported |-> reported]
<1>1. normtime' \in Nat
    BY DEF TypeOK, PrintTime
<1>2. l \in Lines
    BY <1>1 DEF TypeOK, Lines
<1>3. table' = Append(table, l) /\ table \in Seq(Lines)
    BY DEF TypeOK, PrintTime
<1> HIDE DEF l
<1>4. /\ table' \in Seq(Lines) /\ Len(table') = Len(table) + 1
      /\ \A n \in 1..Len(table) : table'[n] = table[n]
      /\ table'[Len(table) + 1] = l
    BY <1>2, <1>3
<1> QED BY <1>4 DEF l

\* Every step keeps the types.
LEMMA TypeStep == TypeOK /\ [Next]_vars => TypeOK'
<1> SUFFICES ASSUME TypeOK, [Next]_vars PROVE TypeOK'
    OBVIOUS
<1> USE DEF TypeOK, choice, loops, filling, times
<1>1. CASE SkipDevice BY <1>1 DEF SkipDevice
<1>2. CASE Setup
    BY <1>2, PenaltyAssumption, SMTT(30) DEF Setup, NoEvent, Unset, Events, Selectors
<1>3. CASE EndDevice BY <1>3 DEF EndDevice
<1>4. CASE Exit BY <1>4 DEF Exit
<1>5. CASE Begin
  <2>1. k' \in 0..BPSIZE /\ curbranch' \in Nat
      BY <1>5, PenaltyAssumption DEF Begin
  <2>2. reported' \in BOOLEAN
      BY <1>5 DEF Begin
  <2> QED BY <1>5, <2>1, <2>2 DEF Begin
<1>6. CASE Fill
  <2>1. NextBranch \in Nat BY DEF NextBranch
  <2>2. k' \in 0..BPSIZE BY <1>6, PenaltyAssumption DEF Fill
  <2>3. branchSelector' \in Selectors
      BY <1>6, <2>1 DEF Fill, Selectors
  <2> QED BY <1>6, <2>1, <2>2, <2>3 DEF Fill
<1>7. CASE Write BY <1>7 DEF Write
<1>8. CASE Launch
  <2>1. event' \in Events /\ launches' \in Nat
      BY <1>8 DEF Launch, Events
  <2>2. reported' \in BOOLEAN
      BY <1>8 DEF Launch
  <2> QED BY <1>8, <2>1, <2>2 DEF Launch
<1>9. CASE Wait BY <1>9 DEF Wait, Events
<1>10. CASE PrintTime
  <2>1. normtime' \in Nat BY <1>10 DEF PrintTime
  <2>2. NextPoint BY <1>10 DEF PrintTime
  <2> QED BY <1>10, <2>1, <2>2, NextPointType, NewLine DEF PrintTime
<1>11. CASE UNCHANGED vars BY <1>11 DEF vars
<1> QED BY <1>1, <1>2, <1>3, <1>4, <1>5, <1>6, <1>7, <1>8, <1>9, <1>10, <1>11
        DEF Next

\* The selector is filled in up to k, and complete when it is written.
LEMMA FillStep ==
    TypeOK /\ FillInv /\ SelectorIsExact /\ [Next]_vars
      => FillInv' /\ SelectorIsExact'
<1> SUFFICES ASSUME TypeOK, FillInv, SelectorIsExact, [Next]_vars
             PROVE  FillInv' /\ SelectorIsExact'
    OBVIOUS
<1> USE DEF FillInv, SelectorIsExact, choice, loops, filling, times
<1>1. CASE SkipDevice BY <1>1 DEF SkipDevice
<1>2. CASE Setup BY <1>2 DEF Setup
<1>3. CASE EndDevice BY <1>3 DEF EndDevice
<1>4. CASE Exit BY <1>4 DEF Exit
<1>5. CASE Begin BY <1>5 DEF Begin, Previous
<1>6. CASE Fill
  <2>1. k \in Nat /\ k < BPSIZE /\ k' = k + 1 /\ BPSIZE \in Nat
      BY <1>6, PenaltyAssumption DEF Fill, TypeOK
  <2>2. NextBranch = Branch(k, branchtypes, branchsize)
      BY <1>6, <2>1, NextBranchIs DEF Fill, TypeOK
  <2>3. curbranch' = Previous(k + 1, branchtypes, branchsize)
      BY <1>6, <2>1, <2>2 DEF Fill, Previous
  <2>4. \A n \in 0..k : branchSelector'[n] = Branch(n, branchtypes, branchsize)
      BY <1>6, <2>1, <2>2 DEF Fill, TypeOK, Selectors
  <2> QED BY <1>6, <2>1, <2>3, <2>4 DEF Fill
<1>7. CASE Write
  <2>1. \A n \in 0..(BPSIZE - 1) :
          branchSelector[n] = Branch(n, branchtypes, branchsize)
      BY <1>7 DEF Write
  <2> QED BY <1>7, <2>1 DEF Write
<1>8. CASE Launch BY <1>8 DEF Launch
<1>9. CASE Wait BY <1>9 DEF Wait
<1>10. CASE PrintTime BY <1>10 DEF PrintTime
<1>11. CASE UNCHANGED vars BY <1>11 DEF vars
<1> QED BY <1>1, <1>2, <1>3, <1>4, <1>5, <1>6, <1>7, <1>8, <1>9, <1>10, <1>11
        DEF Next

\* Without an error, launch and times are those of this measurement.
LEMMA MeasureStep == TypeOK /\ MeasureInv /\ [Next]_vars => MeasureInv'
<1> SUFFICES ASSUME TypeOK, MeasureInv, [Next]_vars PROVE MeasureInv'
    OBVIOUS
<1> USE DEF MeasureInv, choice, loops, filling, times
<1>1. CASE SkipDevice BY <1>1 DEF SkipDevice
<1>2. CASE Setup BY <1>2 DEF Setup
<1>3. CASE EndDevice BY <1>3 DEF EndDevice
<1>4. CASE Exit BY <1>4 DEF Exit
<1>5. CASE Begin BY <1>5 DEF Begin
<1>6. CASE Fill BY <1>6 DEF Fill
<1>7. CASE Write BY <1>7 DEF Write
<1>8. CASE Launch BY <1>8 DEF Launch, TypeOK, Events
<1>9. CASE Wait BY <1>9 DEF Wait
<1>10. CASE PrintTime BY <1>10 DEF PrintTime
<1>11. CASE UNCHANGED vars BY <1>11 DEF vars
<1> QED BY <1>1, <1>2, <1>3, <1>4, <1>5, <1>6, <1>7, <1>8, <1>9, <1>10, <1>11
        DEF Next

\* The lines stay in order.
LEMMA OrderStep == TypeOK /\ OrderInv /\ [Next]_vars => OrderInv'
<1> SUFFICES ASSUME TypeOK, OrderInv, [Next]_vars PROVE OrderInv'
    OBVIOUS
<1>0. Len(table) \in Nat /\ i \in Nat /\ launches \in Nat /\ event.launch \in Nat
      /\ \A n \in 1..Len(table) :
           table[n].device \in Nat /\ table[n].launch \in Nat
    BY LineType
<1> USE <1>0 DEF OrderInv, choice, loops, filling, times
<1>1. CASE SkipDevice BY <1>1 DEF SkipDevice
<1>2. CASE Setup BY <1>2 DEF Setup, NoEvent
<1>3. CASE EndDevice BY <1>3 DEF EndDevice
<1>4. CASE Exit BY <1>4 DEF Exit
<1>5. CASE Begin BY <1>5 DEF Begin
<1>6. CASE Fill BY <1>6 DEF Fill
<1>7. CASE Write BY <1>7 DEF Write
<1>8. CASE Launch BY <1>8 DEF Launch
<1>9. CASE Wait BY <1>9 DEF Wait
<1>10. CASE PrintTime
  <2>1. stage' = "begin" /\ i' = i /\ launches' = launches /\ event' = event
      BY <1>10 DEF PrintTime
  <2> QED BY <1>10, <2>1, NewLine
<1>11. CASE UNCHANGED vars BY <1>11 DEF vars
<1> QED BY <1>1, <1>2, <1>3, <1>4, <1>5, <1>6, <1>7, <1>8, <1>9, <1>10, <1>11
        DEF Next

\* normtime stays the time of the device's first measurement.
LEMMA NormStep ==
    TypeOK /\ MeasureInv /\ OrderInv /\ NormInv /\ [Next]_vars => NormInv'
<1> SUFFICES ASSUME TypeOK, MeasureInv, OrderInv, NormInv, [Next]_vars
             PROVE  NormInv'
    OBVIOUS
<1>0. Len(table) \in Nat /\ i \in Nat
      /\ \A n \in 1..Len(table) : table[n].device \in Nat
    BY LineType
<1> USE <1>0 DEF NormInv, choice, loops, filling, times
<1>1. CASE SkipDevice BY <1>1 DEF SkipDevice, OrderInv
<1>2. CASE Setup BY <1>2 DEF Setup, OrderInv
<1>3. CASE EndDevice BY <1>3 DEF EndDevice, OrderInv
<1>4. CASE Exit BY <1>4 DEF Exit
<1>5. CASE Begin BY <1>5 DEF Begin
<1>6. CASE Fill BY <1>6 DEF Fill
<1>7. CASE Write BY <1>7 DEF Write
<1>8. CASE Launch BY <1>8 DEF Launch
<1>9. CASE Wait BY <1>9 DEF Wait
<1>10. CASE PrintTime
  <2> SUFFICES ASSUME NEW n \in 1..(Len(table) + 1), table'[n].device = i
               PROVE  /\ branchtypes' > 1 \/ branchsize' > 1
                      /\ table'[n].types = 1 /\ table'[n].size = 1
                           /\ ~table'[n].reported => normtime' = table'[n].launch
      BY <1>10, NewLine DEF PrintTime
  <2>1. branchtypes' > 1 \/ branchsize' > 1
      BY <1>10, NextPointType DEF PrintTime
  <2>2. CASE n \in 1..Len(table)
    <3>1. table'[n] = table[n] BY <1>10, <2>2, NewLine
    <3>2. normtime' = normtime BY <1>10, <2>2, <3>1 DEF PrintTime
    <3> QED BY <2>1, <2>2, <3>1, <3>2
  <2>3. CASE n = Len(table) + 1
    <3>1. table'[n] =
            [device |-> i, types |-> branchtypes, size |-> branchsize,
             start |-> time_start, end |-> time_end, norm |-> normtime',
             launch |-> launches, event |-> event, reported |-> reported]
        BY <1>10, <2>3, NewLine
    <3>2. ~reported => time_end = launches
        BY <1>10 DEF PrintTime, MeasureInv
    <3> QED BY <1>10, <2>1, <3>1, <3>2 DEF PrintTime
  <2> QED BY <2>2, <2>3
<1>11. CASE UNCHANGED vars BY <1>11 DEF vars
<1> QED BY <1>1, <1>2, <1>3, <1>4, <1>5, <1>6, <1>7, <1>8, <1>9, <1>10, <1>11
        DEF Next

\* Until a launch is accepted every line of the device has an error.
LEMMA EventStep ==
    TypeOK /\ OrderInv /\ EventInv /\ [Next]_vars => EventInv'
<1> SUFFICES ASSUME TypeOK, OrderInv, EventInv, [Next]_vars PROVE EventInv'
    OBVIOUS
<1>0. Len(table) \in Nat /\ i \in Nat /\ launches \in Nat /\ event.launch \in Nat
      /\ \A n \in 1..Len(table) : table[n].device \in Nat
    BY LineType
<1> USE <1>0 DEF EventInv, choice, loops, filling, times
<1>1. CASE SkipDevice BY <1>1 DEF SkipDevice, OrderInv
<1>2. CASE Setup BY <1>2 DEF Setup, NoEvent, OrderInv
<1>3. CASE EndDevice BY <1>3 DEF EndDevice, OrderInv
<1>4. CASE Exit BY <1>4 DEF Exit
<1>5. CASE Begin BY <1>5 DEF Begin
<1>6. CASE Fill BY <1>6 DEF Fill
<1>7. CASE Write BY <1>7 DEF Write
<1>8. CASE Launch BY <1>8 DEF Launch
<1>9. CASE Wait BY <1>9 DEF Wait, NoEvent
<1>10. CASE PrintTime
  <2>1. stage = "print" /\ stage' = "begin" /\ i' = i /\ event' = event
      BY <1>10 DEF PrintTime
  <2> QED BY <1>10, <2>1, NewLine
<1>11. CASE UNCHANGED vars BY <1>11 DEF vars
<1> QED BY <1>1, <1>2, <1>3, <1>4, <1>5, <1>6, <1>7, <1>8, <1>9, <1>10, <1>11
        DEF Next

\* A new line without an error is of its launch, and is compared with the
\* first one of its device.
LEMMA LinesStep ==
    PenaltyInv /\ [Next]_vars => LinesAreOfTheirLaunch'
<1> SUFFICES ASSUME PenaltyInv, [Next]_vars PROVE LinesAreOfTheirLaunch'
    OBVIOUS
<1> USE DEF PenaltyInv
<1>1. CASE PrintTime
  <2> DEFINE Own(l) == /\ l.start = l.launch /\ l.end = l.launch
                       /\ l.event.launch = l.launch
             Ran(l) == \A w \in 0..(BPSIZE - 1) :
                         l.event.ran[w] = Branch(w, l.types, l.size)
             Base(l, m) == /\ ~m.reported /\ m.device = l.device /\ m.types = 1
                           /\ m.size = 1
             N == Len(table)
  <2>1. N \in Nat /\ Len(table') = N + 1 /\ \A n \in 1..N : table'[n] = table[n]
      BY <1>1, NewLine, LineType
  <2>2. SUFFICES ASSUME NEW n \in 1..(N + 1), ~table'[n].reported
                 PROVE  /\ Own(table'[n]) /\ Ran(table'[n])
                        /\ \A m \in 1..(n - 1) : table'[m].launch < table'[n].launch
                        /\ \A m \in 1..n : Base(table'[n], table'[m]) =>
                             table'[n].norm = table'[m].launch
      BY <2>1 DEF LinesAreOfTheirLaunch
  <2>3. CASE n \in 1..N
    <3>1. table'[n] = table[n] /\ \A m \in 1..n : table'[m] = table[m]
        BY <2>1, <2>3
    <3>2. /\ Own(table[n]) /\ Ran(table[n])
          /\ \A m \in 1..(n - 1) : table[m].launch < table[n].launch
          /\ \A m \in 1..n : Base(table[n], table[m]) =>
               table[n].norm = table[m].launch
        BY <2>2, <2>3, <3>1 DEF LinesAreOfTheirLaunch
    <3> HIDE DEF Own, Ran, Base
    <3>3. \A m \in 1..(n - 1) : m \in 1..n
        BY <2>1, <2>3
    <3> QED BY <3>1, <3>2, <3>3, Zenon
  <2>4. CASE n = N + 1
    <3>1. table'[n] =
            [device |-> i, types |-> branchtypes, size |-> branchsize,
             start |-> time_start, end |-> time_end, norm |-> normtime',
             launch |-> launches, event |-> event, reported |-> reported]
        BY <1>1, <2>4, NewLine
    <3>2. ~reported /\ stage = "print"
        BY <1>1, <2>2, <3>1 DEF PrintTime
    <3>3. /\ time_start = launches /\ time_end = launches
          /\ event.launch = launches /\ event.ran = branchSelector
        BY <3>2 DEF MeasureInv
    <3>4. Own(table'[n])
        BY <3>1, <3>3
    <3>5. Ran(table'[n])
        BY <3>1, <3>2, <3>3 DEF SelectorIsExact
    <3>6. \A m \in 1..(n - 1) : table'[m].launch < table'[n].launch
        BY <2>1, <2>4, <3>1, <3>2 DEF OrderInv
    <3>7. ASSUME NEW m \in 1..n, Base(table'[n], table'[m])
          PROVE  table'[n].norm = table'[m].launch
      <4>1. CASE m = n
          BY <1>1, <3>1, <3>3, <3>7, <4>1 DEF PrintTime
      <4>2. CASE m \in 1..N
        <5>1. table'[m] = table[m] /\ table[m].device = i
            BY <2>1, <3>1, <3>7, <4>2
        <5>2. branchtypes > 1 \/ branchsize > 1
            BY <4>2, <5>1 DEF NormInv
        <5>3. normtime' = normtime
            BY <1>1, <5>2 DEF PrintTime
        <5>4. normtime = table[m].launch
            BY <3>7, <4>2, <5>1 DEF NormInv
        <5> QED BY <3>1, <5>1, <5>3, <5>4
      <4> QED BY <2>1, <2>4, <4>1, <4>2
    <3> HIDE DEF Own, Ran, Base
    <3> QED BY <3>4, <3>5, <3>6, <3>7
  <2> QED BY <2>1, <2>3, <2>4
<1>2. CASE UNCHANGED table
    BY <1>2 DEF LinesAreOfTheirLaunch
<1>3. CASE ~PrintTime
  <2>1. UNCHANGED table
      BY <1>3 DEF Next, vars, SkipDevice, Setup, EndDevice, Exit, Begin, Fill,
                  Write, Launch, Wait
  <2> QED BY <1>2, <2>1
<1> QED BY <1>1, <1>3

\* Every step keeps the invariant.
LEMMA NextInv == PenaltyInv /\ [Next]_vars => PenaltyInv'
<1> SUFFICES ASSUME PenaltyInv, [Next]_vars PROVE PenaltyInv'
    OBVIOUS
<1>1. LinesAreOfTheirLaunch'
    BY LinesStep
<1>2. TypeOK' /\ FillInv' /\ SelectorIsExact' /\ MeasureInv'
    BY TypeStep, FillStep, MeasureStep DEF PenaltyInv
<1>3. OrderInv' /\ NormInv' /\ EventInv'
    BY OrderStep, NormStep, EventStep DEF PenaltyInv
<1> QED BY <1>1, <1>2, <1>3 DEF PenaltyInv
-----------------------------------------------------------------------------
(* The points measured.                                                    *)

\* A product is within a bound exactly if one factor is within the quotient.
LEMMA ProductWithin ==
    \A B \in Nat, a \in Nat \ {0}, b \in Nat : a * b <= B <=> b <= B \div a
<1> SUFFICES ASSUME NEW B \in Nat, NEW a \in Nat \ {0}, NEW b \in Nat
             PROVE  a * b <= B <=> b <= B \div a
    OBVIOUS
<1> DEFINE q == B \div a
           r == B % a
<1>1. B = (a * q) + r /\ r \in 0..(a - 1) /\ q \in Nat
    BY Division
<1> HIDE DEF q, r
<1>2. CASE b <= q
  <2>1. q = b + (q - b) /\ q - b \in Nat
      BY <1>1, <1>2
  <2>2. a * q = (a * b) + (a * (q - b)) /\ a * (q - b) \in Nat /\ a * b \in Nat
      BY <1>1, <2>1
  <2>3. a * b <= B
      BY <1>1, <2>2
  <2> QED BY <1>2, <2>3 DEF q
<1>3. CASE b > q
  <2>1. b = (q + 1) + (b - (q + 1)) /\ b - (q + 1) \in Nat
      BY <1>1, <1>3
  <2>2. /\ a * b = (a * q) + a + (a * (b - (q + 1)))
        /\ a * (b - (q + 1)) \in Nat /\ a * q \in Nat /\ a * b \in Nat
      BY <1>1, <2>1
  <2>3. ~(a * b <= B)
      BY <1>1, <2>2
  <2>4. ~(b <= q)
      BY <1>1, <1>3
  <2> QED BY <2>3, <2>4 DEF q
<1> QED BY <1>1, <1>2, <1>3

\* What a line that is due is of.
LEMMA DueType ==
    ASSUME TypeOK, num_devices \in Nat, NEW q \in Due
    PROVE  /\ q = <<q[1], q[2], q[3]>> /\ q[1] \in Chosen /\ q[1] \in Nat
           /\ q[2] \in 1..BPSIZE /\ q[3] \in 1..BPSIZE /\ q[3] <= BPSIZE \div q[2]
<1>1. PICK d \in Chosen, p \in Points : q = <<d, p[1], p[2]>>
    BY DEF Due
<1>2. /\ p[1] \in 1..BPSIZE /\ p[2] \in 1..BPSIZE /\ p[1] * p[2] <= BPSIZE
      /\ d \in Nat /\ BPSIZE \in Nat
    BY PenaltyAssumption DEF Points, Chosen
<1>3. p[1] \in Nat \ {0} /\ p[2] \in Nat
    BY <1>2
<1>4. p[2] <= BPSIZE \div p[1]
    BY <1>2, <1>3, ProductWithin
<1> QED BY <1>1, <1>2, <1>4

\* A device chosen has a line due for each width up to the largest.
LEMMA IsDue ==
    ASSUME NEW d \in Chosen, NEW a \in 1..BPSIZE, NEW b \in Nat \ {0},
           b <= BPSIZE \div a
    PROVE  <<d, a, b>> \in Due
<1>1. BPSIZE \in Nat /\ a \in Nat \ {0} /\ b \in Nat
    BY PenaltyAssumption
<1>2. a * b <= BPSIZE
    BY <1>1, ProductWithin
<1>3. b <= BPSIZE
  <2>1. a * b = b + ((a - 1) * b) /\ (a - 1) * b \in Nat
      BY <1>1
  <2>2. a * b \in Nat
      BY <1>1
  <2> QED BY <1>1, <1>2, <2>1, <2>2
<1>4. <<a, b>> \in Points
    BY <1>1, <1>2, <1>3 DEF Points
<1> QED BY <1>4 DEF Due

\* A step that prints nothing and passes nothing keeps the invariant.
LEMMA SamePoints ==
    ASSUME PointInv, UNCHANGED <<table, num_devices, device_id>>,
           \A q \in Due : Passed(q)' <=> Passed(q)
    PROVE  PointInv'
<1>1. Due' = Due /\ \A n \in 1..Len(table) : Key(n)' = Key(n)
    BY DEF Due, Chosen, Key
<1> QED BY <1>1 DEF PointInv, Key

\* The loops stay on points that are due.
LEMMA LoopStep == TypeOK /\ LoopInv /\ [Next]_vars => LoopInv'
<1> SUFFICES ASSUME TypeOK, LoopInv, [Next]_vars PROVE LoopInv'
    OBVIOUS
<1> USE DEF LoopInv, Measuring, choice, loops, filling, times
<1>0. /\ i \in Nat /\ BPSIZE \in Nat \ {0} /\ branchtypes \in Nat \ {0}
      /\ branchsize \in Nat \ {0}
    BY PenaltyAssumption DEF TypeOK
<1>1. CASE SkipDevice BY <1>1 DEF SkipDevice
<1>2. CASE Setup
  <2>1. i \in Chosen'
      BY <1>0, <1>2 DEF Setup, Chosen
  <2>2. BPSIZE \div 1 = BPSIZE
      BY <1>0
  <2>3. stage' # "end" /\ num_devices' = num_devices /\ i' = i
      BY <1>2 DEF Setup
  <2>4. branchsize' <= BPSIZE \div branchtypes' /\ branchtypes' <= BPSIZE
      BY <1>0, <1>2, <2>2 DEF Setup
  <2> QED BY <2>1, <2>3, <2>4 DEF Chosen
<1>3. CASE EndDevice BY <1>3 DEF EndDevice
<1>4. CASE Exit BY <1>4 DEF Exit
<1>5. CASE Begin BY <1>5 DEF Begin, Chosen
<1>6. CASE Fill BY <1>6 DEF Fill, Chosen
<1>7. CASE Write BY <1>7 DEF Write, Chosen
<1>8. CASE Launch BY <1>8 DEF Launch, Chosen
<1>9. CASE Wait BY <1>9 DEF Wait, Chosen
<1>10. CASE PrintTime
  <2>1. /\ stage = "print" /\ stage' = "begin" /\ i' = i /\ NextPoint
        /\ num_devices' = num_devices /\ device_id' = device_id
      BY <1>10 DEF PrintTime
  <2>2. i \in Chosen /\ Chosen' = Chosen
      BY <2>1 DEF Chosen
  <2>3. ASSUME branchtypes' <= BPSIZE
        PROVE  branchsize' <= BPSIZE \div branchtypes'
    <3>1. CASE branchsize < BPSIZE \div branchtypes
      <4>1. BPSIZE \div branchtypes \in Nat
          BY <1>0, Division
      <4>2. branchsize' = branchsize + 1 /\ branchtypes' = branchtypes
          BY <2>1, <3>1 DEF NextPoint
      <4> QED BY <1>0, <3>1, <4>1, <4>2
    <3>2. CASE ~(branchsize < BPSIZE \div branchtypes)
      <4>1. branchsize' = 1 /\ branchtypes' = branchtypes + 1
          BY <2>1, <3>2 DEF NextPoint
      <4>2. branchtypes + 1 \in Nat \ {0} /\ (branchtypes + 1) * 1 <= BPSIZE
          BY <1>0, <2>3, <4>1
      <4>3. 1 <= BPSIZE \div (branchtypes + 1)
          BY <1>0, <4>2, ProductWithin
      <4> QED BY <4>1, <4>3
    <3> QED BY <3>1, <3>2
  <2> QED BY <2>1, <2>2, <2>3
<1>11. CASE UNCHANGED vars BY <1>11 DEF vars, Chosen
<1> QED BY <1>1, <1>2, <1>3, <1>4, <1>5, <1>6, <1>7, <1>8, <1>9, <1>10, <1>11
        DEF Next

\* A line passes its point, and that point alone.
LEMMA PointPrinted ==
    ASSUME TypeOK, LoopInv, PointInv, PrintTime
    PROVE  PointInv'
<1> DEFINE p == <<i, branchtypes, branchsize>>
<1>0. PICK N \in Nat : N = Len(table)
    BY LineType
<1>1. /\ stage = "print" /\ stage' = "begin" /\ i' = i /\ NextPoint
      /\ num_devices' = num_devices /\ device_id' = device_id
    BY DEF PrintTime, choice
<1>2. /\ i \in Nat /\ BPSIZE \in Nat \ {0} /\ branchtypes \in Nat \ {0}
      /\ branchsize \in Nat \ {0} /\ i \in Chosen /\ num_devices \in Nat
      /\ branchtypes <= BPSIZE /\ branchsize <= BPSIZE \div branchtypes
    BY <1>1, PenaltyAssumption DEF TypeOK, LoopInv, Measuring
<1>3. p \in Due
    BY <1>2, IsDue
<1>4. Due' = Due
    BY <1>1 DEF Due, Chosen
<1>5. /\ N \in Nat /\ Len(table') = N + 1 /\ Key(N + 1)' = p
      /\ \A n \in 1..N : Key(n)' = Key(n)
    BY <1>0, NewLine DEF Key
<1>6. ~Passed(p)
    BY <1>2 DEF Passed
<1>7. \A q \in Due : Passed(q)' <=> Passed(q) \/ q = p
  <2> SUFFICES ASSUME NEW q \in Due PROVE Passed(q)' <=> Passed(q) \/ q = p
      OBVIOUS
  <2>1. /\ q = <<q[1], q[2], q[3]>> /\ q[1] \in Nat
        /\ q[2] \in Nat /\ q[3] \in Nat /\ q[3] >= 1
        /\ q[3] <= BPSIZE \div q[2]
      BY <1>2, DueType
  <2>2. q = p <=> q[1] = i /\ q[2] = branchtypes /\ q[3] = branchsize
      BY <2>1
  <2>3. Passed(q) <=> \/ q[1] < i
                      \/ /\ q[1] = i
                         /\ \/ q[2] < branchtypes
                            \/ q[2] = branchtypes /\ q[3] < branchsize
      BY <1>1 DEF Passed, Measuring
  <2>4. Passed(q)' <=> \/ q[1] < i
                       \/ /\ q[1] = i
                          /\ \/ q[2] < branchtypes'
                             \/ q[2] = branchtypes' /\ q[3] < branchsize'
      BY <1>1 DEF Passed, Measuring
  <2> HIDE DEF p
  <2>5. CASE branchsize < BPSIZE \div branchtypes
    <3>1. branchsize' = branchsize + 1 /\ branchtypes' = branchtypes
        BY <1>1, <2>5 DEF NextPoint
    <3> QED BY <1>2, <2>1, <2>2, <2>3, <2>4, <3>1
  <2>6. CASE ~(branchsize < BPSIZE \div branchtypes)
    <3>1. branchsize' = 1 /\ branchtypes' = branchtypes + 1
        BY <1>1, <2>6 DEF NextPoint
    <3>2. branchsize = BPSIZE \div branchtypes
      <4>1. BPSIZE \div branchtypes \in Nat
          BY <1>2, Division
      <4> QED BY <1>2, <2>6, <4>1
    <3>3. q[2] = branchtypes => q[3] <= branchsize
        BY <2>1, <3>2
    <3> QED BY <1>2, <2>1, <2>2, <2>3, <2>4, <3>1, <3>3
  <2> QED BY <2>5, <2>6
<1> HIDE DEF p
<1>8. \A n \in 1..(N + 1) : n \in 1..N \/ n = N + 1
    BY <1>5
<1>9. \A n \in 1..N : n \in 1..(N + 1)
    BY <1>5
<1>10. N + 1 \in 1..(N + 1)
    BY <1>5
<1>11. \A n \in 1..N : Key(n) \in Due /\ Passed(Key(n)) /\ Key(n) # p
    BY <1>0, <1>6 DEF PointInv
<1>12. \A n \in 1..(N + 1) : Key(n)' \in Due /\ Passed(Key(n))'
  <2> TAKE n \in 1..(N + 1)
  <2>1. CASE n \in 1..N
    <3>1. Key(n)' = Key(n) /\ Key(n) \in Due /\ Passed(Key(n))
        BY <1>5, <1>11, <2>1
    <3>2. \A q \in Due : Passed(q) => Passed(q)'
        BY <1>7
    <3> QED BY <3>1, <3>2 DEF Passed
  <2>2. CASE n = N + 1
    <3>1. Key(n)' = p
        BY <1>5, <2>2
    <3>2. \A q \in Due : q = p => Passed(q)'
        BY <1>7
    <3> QED BY <1>3, <3>1, <3>2 DEF Passed
  <2> QED BY <1>8, <2>1, <2>2
<1>13. \A q \in Due : Passed(q)' => \E n \in 1..(N + 1) : Key(n)' = q
  <2> SUFFICES ASSUME NEW q \in Due, Passed(q)'
               PROVE  \E n \in 1..(N + 1) : Key(n)' = q
      OBVIOUS
  <2>1. CASE q = p
      BY <1>5, <1>10, <2>1
  <2>2. CASE Passed(q)
    <3>1. PICK n \in 1..N : Key(n) = q
        BY <1>0, <2>2 DEF PointInv
    <3> QED BY <1>5, <1>9, <3>1
  <2> QED BY <1>7, <2>1, <2>2
<1>14. \A n, m \in 1..(N + 1) : Key(n)' = Key(m)' => n = m
  <2> SUFFICES ASSUME NEW n \in 1..(N + 1), NEW m \in 1..(N + 1),
                      Key(n)' = Key(m)'
               PROVE  n = m
      OBVIOUS
  <2>1. CASE n \in 1..N /\ m \in 1..N
      BY <1>0, <1>5, <2>1 DEF PointInv
  <2>2. CASE n \in 1..N /\ m = N + 1
      BY <1>5, <1>11, <2>2
  <2>3. CASE n = N + 1 /\ m \in 1..N
      BY <1>5, <1>11, <2>3
  <2> QED BY <1>8, <2>1, <2>2, <2>3
<1>15. 1..Len(table') = 1..(N + 1)
    BY <1>5
<1> QED BY <1>4, <1>12, <1>13, <1>14, <1>15 DEF PointInv

\* The table keeps up with the loops.
LEMMA PointStep ==
    TypeOK /\ LoopInv /\ PointInv /\ [Next]_vars => PointInv'
<1> SUFFICES ASSUME TypeOK, LoopInv, PointInv, [Next]_vars PROVE PointInv'
    OBVIOUS
<1> USE DEF choice, loops, filling, times
<1>0. /\ i \in Nat /\ BPSIZE \in Nat \ {0} /\ branchtypes \in Nat \ {0}
      /\ branchsize \in Nat \ {0} /\ num_devices \in Nat
    BY PenaltyAssumption DEF TypeOK, LoopInv
<1>d. \A q \in Due : /\ q[1] \in Chosen /\ q[1] \in Nat
                     /\ q[2] \in Nat /\ q[3] \in Nat
                     /\ q[2] >= 1 /\ q[2] <= BPSIZE /\ q[3] >= 1
    BY <1>0, DueType
<1>1. CASE SkipDevice
  <2>1. /\ stage = "device" /\ stage' = "device" /\ i' = i + 1
        /\ UNCHANGED <<table, num_devices, device_id>> /\ i \notin Chosen
      BY <1>0, <1>1 DEF SkipDevice, Chosen
  <2>2. \A q \in Due : Passed(q)' <=> Passed(q)
      BY <1>0, <1>d, <2>1 DEF Passed, Measuring
  <2> QED BY <2>1, <2>2, SamePoints
<1>2. CASE Setup
  <2>1. /\ stage = "device" /\ i' = i /\ branchtypes' = 1 /\ branchsize' = 1
        /\ UNCHANGED <<table, num_devices, device_id>>
      BY <1>2 DEF Setup
  <2>2. \A q \in Due : Passed(q)' <=> Passed(q)
      BY <1>0, <1>d, <2>1 DEF Passed, Measuring
  <2> QED BY <2>1, <2>2, SamePoints
<1>3. CASE EndDevice
  <2>1. /\ stage = "begin" /\ stage' = "device" /\ i' = i + 1
        /\ branchtypes > BPSIZE
        /\ UNCHANGED <<table, num_devices, device_id>>
      BY <1>3 DEF EndDevice
  <2>2. \A q \in Due : Passed(q)' <=> Passed(q)
      BY <1>0, <1>d, <2>1 DEF Passed, Measuring
  <2> QED BY <2>1, <2>2, SamePoints
<1>4. CASE Exit BY <1>4, SamePoints DEF Exit, Passed, Measuring
<1>5. CASE Begin BY <1>5, SamePoints DEF Begin, Passed, Measuring
<1>6. CASE Fill BY <1>6, SamePoints DEF Fill, Passed, Measuring
<1>7. CASE Write BY <1>7, SamePoints DEF Write, Passed, Measuring
<1>8. CASE Launch BY <1>8, SamePoints DEF Launch, Passed, Measuring
<1>9. CASE Wait BY <1>9, SamePoints DEF Wait, Passed, Measuring
<1>10. CASE PrintTime BY <1>10, PointPrinted
<1>11. CASE UNCHANGED vars BY <1>11, SamePoints DEF vars, Passed, Measuring
<1> QED BY <1>1, <1>2, <1>3, <1>4, <1>5, <1>6, <1>7, <1>8, <1>9, <1>10, <1>11
        DEF Next

\* At the end the loops have passed everything that is due.
LEMMA AllPassed ==
    ASSUME TypeOK, LoopInv, PointInv, stage = "end"
    PROVE  EveryPointIsMeasured
<1>1. num_devices \in Nat /\ i \in Nat /\ i >= num_devices
    BY DEF TypeOK, LoopInv
<1>2. \A q \in Due : Passed(q)
  <2> TAKE q \in Due
  <2>1. q[1] \in Chosen
      BY <1>1, DueType
  <2> QED BY <1>1, <2>1 DEF Chosen, Passed
<1>3. {Key(n) : n \in 1..Len(table)} = Due
    BY <1>2 DEF PointInv
<1>4. \A n, m \in 1..Len(table) : Key(n) = Key(m) => n = m
    BY DEF PointInv
<1> QED BY <1>3, <1>4 DEF EveryPointIsMeasured, Due, Chosen, Points, Key

\* The loops and the table hold together in every state.
LEMMA PointsInvariant == Spec => [](TypeOK /\ LoopInv /\ PointInv)
<1>1. Init => TypeOK /\ LoopInv /\ PointInv
  <2> SUFFICES ASSUME Init PROVE TypeOK /\ LoopInv /\ PointInv
      OBVIOUS
  <2>1. TypeOK
      BY InitInv DEF PenaltyInv
  <2>2. LoopInv
      BY DEF Init, LoopInv, Measuring
  <2>3. num_devices \in Nat /\ i = 0 /\ stage = "device" /\ Len(table) = 0
      BY PenaltyAssumption DEF Init
  <2>4. \A q \in Due : ~Passed(q)
    <3> TAKE q \in Due
    <3>1. q[1] \in Nat
        BY <2>1, <2>3, DueType
    <3> QED BY <2>3, <3>1 DEF Passed, Measuring
  <2>5. PointInv
      BY <2>3, <2>4 DEF PointInv
  <2> QED BY <2>1, <2>2, <2>5
<1>2. TypeOK /\ LoopInv /\ PointInv /\ [Next]_vars
        => (TypeOK /\ LoopInv /\ PointInv)'
    BY TypeStep, LoopStep, PointStep
<1> QED BY <1>1, <1>2, PTL DEF Spec
-----------------------------------------------------------------------------
(* The theorems.                                                           *)

\* The invariant holds.
THEOREM PenaltyInvariant == Spec => []PenaltyInv
<1>1. Init => PenaltyInv BY InitInv
<1>2. PenaltyInv /\ [Next]_vars => PenaltyInv' BY NextInv
<1> QED BY <1>1, <1>2, PTL DEF Spec

\* For every BPSIZE, number of branches and width, main's counter of
\* branches, which it increments and resets, gives each work-item the branch
\* of the definition by division.
THEOREM SelectorExact == Spec => []SelectorIsExact
<1>1. PenaltyInv => SelectorIsExact BY DEF PenaltyInv
<1> QED BY <1>1, PenaltyInvariant, PTL

\* Whichever and however many calls fail, a line without an error message is
\* of its own launch on the branches it states.
THEOREM LinesOfTheirLaunch == Spec => []LinesAreOfTheirLaunch
<1>1. PenaltyInv => LinesAreOfTheirLaunch BY DEF PenaltyInv
<1> QED BY <1>1, PenaltyInvariant, PTL

\* An uninitialised event is waited for only while no line of the device is
\* without an error.
THEOREM WildEventAtFirst == Spec => []WildEventOnlyAtFirst
<1>1. PenaltyInv => WildEventOnlyAtFirst
    BY DEF PenaltyInv, EventInv, WildEventOnlyAtFirst
<1> QED BY <1>1, PenaltyInvariant, PTL

\* Whatever fails on the way, at the end every device chosen has one line for
\* each number of branches and each width with which they all occur, and no
\* other line was printed: the bounds of the two loops, of which the inner one
\* divides BPSIZE by the number of branches, leave out no point.
THEOREM PointsMeasured == Spec => []EveryPointIsMeasured
<1>1. TypeOK /\ LoopInv /\ PointInv => EveryPointIsMeasured
  <2>1. CASE stage = "end"
      BY <2>1, AllPassed
  <2>2. CASE stage # "end"
      BY <2>2 DEF EveryPointIsMeasured
  <2> QED BY <2>1, <2>2
<1> QED BY <1>1, PointsInvariant, PTL
=============================================================================
