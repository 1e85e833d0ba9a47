-------------------------- MODULE ArithSpeedProofs --------------------------
(***************************************************************************)
(* Proofs about ArithSpeed, for every request, list of devices, number of  *)
(* operations in a kernel and of failing calls: the table follows the      *)
(* request, checked operations are performed, alarms have a cause, work    *)
(* sizes stay legal, and what is left at the end.                          *)
(***************************************************************************)
EXTENDS ArithSpeed, SequenceTheorems, WellFoundedInduction, TLAPS

\* Stages: of a call of run_benchmark, of the work for a line, in the loops.
Call  == {"generate", "prepare", "launch", "check"}
Work  == {"halve", "repeat", "crash"} \cup Call
Loops == {"sizes"} \cup Work

\* Vector widths: those of Widths, and ones that are larger.
Vecs == {1, 2, 4, 8, 16, 32, 64} \cup {v \in Nat : v >= 128}
Powers == {1, 2, 4, 8, 16, 32, 64, 128, 256, 512, 1024}

Place == [device : Nat, f : Nat, j : Nat, type : {"float", "double"},
          vec : Vecs, ws : {0, 1}]

PlaceOf(d, g, s, t, v, w) ==
    [device |-> d, f |-> g, j |-> s, type |-> t, vec |-> v, ws |-> w]

\* Where the loops are; outside of one its counter is about to start.
Here ==
    PlaceOf(i,
            IF pc \in {"function"} \cup Loops THEN f ELSE 1,
            IF pc \in {"function"} \cup Loops THEN j ELSE 1,
            IF pc \in Loops THEN type ELSE "float",
            IF pc \in Loops THEN vec ELSE 1,
            IF pc \in Loops THEN ws ELSE 0)

\* Whether a function is measured with a type.
Due(g, t) == t = "float" \/ (request.double /\ functions[g] \in Arithmetic)

Lines == [device : Nat, f : Nat, fct : Functions \cup {"???"}, j : Nat, size : Nat,
          type : {"float", "double"}, exact : BOOLEAN, vec : Vecs, ws : {0, 1},
          local : Nat, global : Nat, time : Nat \cup {NaN}, hit : BOOLEAN, made : Nat]

(* What the variables hold.                                                *)
TypeInv ==
    /\ request \in Requests /\ machine \in Machines
    /\ pc \in {"options", "device", "function", "exit"} \cup Loops
    /\ pc = "options" => functions = << >> /\ table = << >> /\ i = 1
    /\ pc # "options" =>
          functions \in [1..Len(request.functions) -> Functions \cup {"???"}]
    /\ i \in Nat \ {0} /\ f \in Nat \ {0} /\ j \in Nat \ {0}
    /\ type \in {"float", "double"} /\ vec \in Vecs /\ ws \in {0, 1}
    /\ k \in Nat /\ local \in Nat /\ global \in Nat /\ err \in {0, 1}
    /\ time \in Nat /\ hit \in BOOLEAN /\ failures \in Nat
    /\ table \in Seq(Lines)

(* Each loop is within its range.                                          *)
PlaceInv ==
    /\ pc \in {"options", "device"} => i <= Len(machine) + 1
    /\ pc \in {"function"} \cup Loops => i <= Len(machine)
    /\ pc = "exit" /\ i <= Len(machine) => failures > 0
    /\ pc = "exit" => i <= Len(machine) + 1
    /\ pc \in Loops =>
         f <= Len(functions) /\ j <= Len(request.sizes) /\ Due(f, type)
    /\ pc \in Call => fct # "???"

(* The lines are in order and before the loops' place.                     *)
OrderInv ==
    /\ \A n \in 1..Len(table) : Before(table[n], Here)
    /\ \A n \in 1..(Len(table) - 1) : Before(table[n], table[n + 1])

SameWidth(a, b) ==
    /\ a.device = b.device /\ a.f = b.f /\ a.j = b.j
    /\ a.type = b.type /\ a.vec = b.vec

(* Only what is due has lines, and many work-items only after a single one *)
(* that succeeded.                                                         *)
DueInv ==
    /\ \A n \in 1..Len(table) : Due(table[n].f, table[n].type)
    /\ \A n, m \in 1..Len(table) :
         SameWidth(table[n], table[m]) /\ table[n].ws = 1 /\ table[m].ws = 0 =>
           table[m].time # NaN
    /\ pc \in Loops /\ ws = 1 =>
         \A m \in 1..Len(table) :
           SameWidth(Here, table[m]) /\ table[m].ws = 0 => table[m].time # NaN

\* The lines a width needs that the loops have passed.
HasLines(d, g, s, t, v) ==
    /\ Before(PlaceOf(d, g, s, t, v, 0), Here) => Printed(d, g, s, t, v, 0) # {}
    /\ Before(PlaceOf(d, g, s, t, v, 1), Here) =>
         Printed(d, g, s, t, v, 1) # {} \/ Failed(d, g, s, t, v)

(* What is due before the loops' place has its lines.                      *)
CompleteInv ==
    pc # "options" =>
      \A d \in 1..Len(machine), g \in 1..Len(functions),
         s \in 1..Len(request.sizes), t \in {"float", "double"}, v \in Widths :
        Due(g, t) => HasLines(d, g, s, t, v)

Groups == IF request.groups > 0 THEN request.groups ELSE machine[i].units
FitsOnce == maxLocal \in Powers /\ (Groups + 2) * Bytes * vec <= machine[i].memory

(* The work sizes: no fewer work-items than in a group, and the same       *)
(* number of groups throughout when halving is exact.                      *)
SizeInv ==
    pc \in Work =>
      /\ local <= global
      /\ pc = "halve" => ws = 1
      /\ ws = 0 => local = 1 /\ global = 1
      /\ ws = 1 /\ FitsOnce =>
           /\ local \in Powers /\ global = Groups * local
           /\ pc # "halve" => ~TooLarge

\* What may be wrong with a line without a failure.
Cause(l) ==
    \/ l.size % Unroll(l.fct) # 0
    \/ l.size \div Unroll(l.fct) >= UIntMod
    \/ l.local = 0 \/ l.global % l.local # 0
    \/ l.fct \notin {"vec", "vliw"} /\ l.vec > 16
    \/ Overruns(l.fct, l.type, l.vec)

Counted == request.checks /\ fct = "vec" /\ size <= Whole

(* The result is the kernel's unless it was hit, an error not by a failure *)
(* has a cause, and a repeat that passed performed what it says.           *)
CheckInv ==
    /\ pc = "check" /\ exact =>
         \/ result = Result(fct, vec, size)
         \/ hit /\ result = Result(fct, vec, size) + 2
    /\ pc = "check" /\ Counted /\ hit => result = Result(fct, vec, size) + 2
    /\ err = 1 => pc = "repeat"
    /\ err = 1 /\ ~hit /\ exact => Cause(Line(NaN))
    /\ pc \in Work \ {"check", "crash"} /\ err = 0 /\ Counted => ~hit
    /\ pc \in Work /\ k > 0 /\ Counted => OpsMade(fct, size) = size

NoErrors == (\A n \in 1..Len(table) : table[n].time # NaN) /\ err = 0

\* What a call of run_benchmark has at each stage.
Acquired ==
    CASE pc = "prepare" -> Own({"data", "results", "kernel"})
      [] pc = "launch"  -> Own({"data", "results", "kernel", "input", "output"})
      [] pc = "check"   -> Own({"data", "results", "kernel", "input", "output", "event"})
      [] OTHER          -> {}

(* Without an error, each device left its information and context, and a   *)
(* call that is over left nothing.                                         *)
HeldInv ==
    NoErrors =>
      /\ pc \in {"options", "device"} =>
           held = ({"info"} \X (1..(i - 1))) \cup ({"context"} \X (1..(i - 1)))
      /\ pc \in {"function"} \cup (Loops \ {"crash"}) =>
           held = ({"info"} \X (1..i)) \cup ({"context"} \X (1..i)) \cup {<<"queue", i>>}
                    \cup Acquired
      /\ pc = "exit" /\ i > Len(machine) =>
           held = ({"info"} \X (1..(i - 1))) \cup ({"context"} \X (1..(i - 2)))

MainInv ==
    /\ TypeInv /\ PlaceInv /\ OrderInv /\ DueInv /\ CompleteInv /\ SizeInv /\ CheckInv
    /\ HeldInv /\ AlarmHasACause /\ CheckedMeansPerformed
-----------------------------------------------------------------------------
(* Induction.                                                              *)

\* A set of numbers has a least one.
LEMMA NatMin ==
    ASSUME NEW T \in SUBSET Nat, T # {}
    PROVE  \E x \in T : \A y \in T : x <= y
<1> DEFINE R == OpToRel(<, Nat)
<1>1. IsWellFoundedOn(R, Nat)
    BY NatLessThanWellFounded
<1>2. PICK x \in T : \A y \in T : ~(<<y, x>> \in R)
  <2> HIDE DEF R
  <2> QED BY <1>1, WFMin
<1>3. \A y \in T : ~(y < x)
    BY <1>2 DEF OpToRel
<1> QED BY <1>3

\* A set with 0 and every successor has all numbers.
LEMMA Inductive ==
    ASSUME NEW S, 0 \in S, \A n \in Nat : n \in S => n + 1 \in S
    PROVE  Nat \subseteq S
<1> SUFFICES ASSUME Nat \ S # {} PROVE FALSE
    OBVIOUS
<1>1. PICK x \in Nat \ S : \A y \in Nat \ S : x <= y
    BY NatMin
<1>2. x - 1 \in Nat /\ x - 1 \in S
    BY <1>1
<1> QED BY <1>1, <1>2
-----------------------------------------------------------------------------
(* What After computes.                                                    *)

\* What the last m operations make of some values, as After has it.
Ends(name, sign, n, g, m) ==
    [s \in Values \X Values |->
       IF m = 0 THEN s[1] ELSE g[m - 1][Apply(name, sign[n - m], s)]]

\* A function that has them up to the last p.
IsLast(name, sign, n, g, p) == g = [m \in 0..p |-> Ends(name, sign, n, g, m)]

\* There is one.
LEMMA LastExists ==
    ASSUME NEW name, NEW sign, NEW n \in Nat
    PROVE  \A p \in Nat : \E h : IsLast(name, sign, n, h, p)
<1> DEFINE S == {p \in Nat : \E h : IsLast(name, sign, n, h, p)}
<1>1. 0 \in S
  <2> DEFINE h == [m \in 0..0 |-> Ends(name, sign, n, << >>, 0)]
  <2>1. Ends(name, sign, n, << >>, 0) = Ends(name, sign, n, h, 0)
      BY DEF Ends
  <2>2. h = [m \in 0..0 |-> Ends(name, sign, n, h, m)]
      BY <2>1
  <2> QED BY <2>2 DEF IsLast
<1>2. ASSUME NEW p \in Nat, p \in S
      PROVE  p + 1 \in S
  <2>1. PICK g : IsLast(name, sign, n, g, p)
      BY <1>2
  <2> DEFINE h == [m \in 0..(p + 1) |-> IF m <= p THEN g[m] ELSE Ends(name, sign, n, g, p + 1)]
  <2>2. \A m \in 0..p : h[m] = g[m] /\ g[m] = Ends(name, sign, n, g, m)
      BY <2>1 DEF IsLast
  <2>3. h[p + 1] = Ends(name, sign, n, g, p + 1)
      OBVIOUS
  <2>4. h = [m \in 0..(p + 1) |-> h[m]]
      OBVIOUS
  <2> HIDE DEF h
  <2>5. Ends(name, sign, n, g, 0) = Ends(name, sign, n, h, 0)
      BY DEF Ends
  <2>6. \A m \in 1..(p + 1) : Ends(name, sign, n, g, m) = Ends(name, sign, n, h, m)
    <3> TAKE m \in 1..(p + 1)
    <3>1. h[m - 1] = g[m - 1]
        BY <2>2
    <3> QED BY <3>1 DEF Ends
  <2>7. \A m \in 0..(p + 1) : h[m] = Ends(name, sign, n, h, m)
      BY <2>2, <2>3, <2>5, <2>6
  <2>8. h = [m \in 0..(p + 1) |-> Ends(name, sign, n, h, m)]
      BY <2>4, <2>7, SMTT(30)
  <2> QED BY <2>8 DEF IsLast
<1> HIDE DEF S
<1>3. Nat \subseteq S
    BY <1>1, <1>2, Inductive, SMTT(30)
<1> QED BY <1>3 DEF S

\* After is what all n of them make of the initial values.
LEMMA AfterIsLast ==
    ASSUME NEW name, NEW sign, NEW n \in Nat
    PROVE  \E h : /\ After(name, sign, n) = h[n][<<1, 1>>]
                  /\ \A m \in 0..n, s \in Values \X Values :
                       h[m][s] = IF m = 0 THEN s[1]
                                 ELSE h[m - 1][Apply(name, sign[n - m], s)]
<1> DEFINE h == CHOOSE last : last =
                  [m \in 0..n |->
                     [s \in Values \X Values |->
                        IF m = 0 THEN s[1] ELSE last[m - 1][Apply(name, sign[n - m], s)]]]
<1>1. IsLast(name, sign, n, h, n)
  <2>1. PICK g : IsLast(name, sign, n, g, n)
      BY LastExists
  <2> QED BY <2>1 DEF IsLast, Ends
<1>2. After(name, sign, n) = h[n][<<1, 1>>]
    BY DEF After
<1> HIDE DEF h
<1>3. ASSUME NEW m \in 0..n, NEW s \in Values \X Values
      PROVE  h[m][s] = IF m = 0 THEN s[1] ELSE h[m - 1][Apply(name, sign[n - m], s)]
  <2>1. h[m] = Ends(name, sign, n, h, m)
      BY <1>1 DEF IsLast
  <2> QED BY <2>1 DEF Ends
<1> QED BY <1>2, <1>3, SMTT(30)

\* Counting down from 1 is exact as long as the type can tell.
LEMMA Countdown ==
    ASSUME NEW sign, NEW n \in 0..Whole
    PROVE  After("vec", sign, n) = 1 - n
<1>1. /\ Whole \in Nat /\ FltMax \in Nat /\ Whole < FltMax
      /\ n \in Nat
    BY KernelAssumption
<1>2. PICK h : /\ After("vec", sign, n) = h[n][<<1, 1>>]
               /\ \A m \in 0..n, s \in Values \X Values :
                    h[m][s] = IF m = 0 THEN s[1]
                              ELSE h[m - 1][Apply("vec", sign[n - m], s)]
    BY <1>1, AfterIsLast
<1> DEFINE S == {m \in Nat : m <= n => h[m][<<(1 - n) + m, 1>>] = 1 - n}
<1>3. \A m \in 0..n : <<(1 - n) + m, 1>> \in Values \X Values
    BY <1>1 DEF Values, Inf
<1>4. 0 \in S
    BY <1>1, <1>2, <1>3
<1>5. ASSUME NEW m \in Nat, m \in S
      PROVE  m + 1 \in S
  <2> SUFFICES ASSUME m + 1 <= n
               PROVE  h[m + 1][<<(1 - n) + (m + 1), 1>>] = 1 - n
      OBVIOUS
  <2> DEFINE a == (1 - n) + (m + 1)
  <2>1. a \in Int /\ a - 1 = (1 - n) + m /\ -Whole <= a - 1 /\ a <= 1
      BY <1>1
  <2>2. Apply("vec", sign[n - (m + 1)], <<a, 1>>) = <<a - 1, 1>>
    <3>1. Plus(a, -1) = a - 1
      <4>1. a \notin {Inf, -Inf} /\ (-1) \notin {Inf, -Inf}
          BY <1>1, <2>1 DEF Inf
      <4>2. Saturated(a + (-1)) = a - 1
          BY <1>1, <2>1 DEF Saturated
      <4>3. ~Lost(a, -1)
          BY <1>1, <2>1 DEF Lost
      <4> QED BY <4>1, <4>2, <4>3 DEF Plus
    <3> QED BY <3>1 DEF Apply
  <2>3. h[m + 1][<<a, 1>>] = h[m][<<a - 1, 1>>]
    <3>1. m + 1 \in 0..n /\ m + 1 # 0 /\ (m + 1) - 1 = m
        BY <1>1
    <3>2. <<a, 1>> \in Values \X Values
        BY <1>3, <3>1
    <3> HIDE DEF a
    <3> QED BY <1>2, <2>2, <3>1, <3>2
  <2> QED BY <1>5, <2>1, <2>3
<1> HIDE DEF S
<1>6. n \in S
    BY <1>1, <1>4, <1>5, Inductive
<1>7. (1 - n) + n = 1
    BY <1>1
<1> QED BY <1>1, <1>2, <1>6, <1>7 DEF S
-----------------------------------------------------------------------------
(* Kernel and check.                                                       *)

\* Products modulo 3 are products of what is modulo 3.
LEMMA ProductMod3 ==
    ASSUME NEW a \in Nat, NEW b \in Nat
    PROVE  (a * b) % 3 = ((a % 3) * (b % 3)) % 3
<1>1. PICK p \in Nat, q \in Nat, x \in 0..2, y \in 0..2 :
         a = (3 * p) + x /\ b = (3 * q) + y /\ x = a % 3 /\ y = b % 3
  <2>1. a = (3 * (a \div 3)) + (a % 3) /\ a % 3 \in 0..2 /\ a \div 3 \in Nat
      OBVIOUS
  <2>2. b = (3 * (b \div 3)) + (b % 3) /\ b % 3 \in 0..2 /\ b \div 3 \in Nat
      OBVIOUS
  <2> QED BY <2>1, <2>2
<1>2. PICK z \in Nat : a * b = (3 * z) + (x * y)
  <2>1. a * b = (3 * ((p * b) + (x * q))) + (x * y)
    <3>1. a * b = (3 * (p * b)) + (x * b)
        BY <1>1
    <3>2. x * b = (3 * (x * q)) + (x * y)
        BY <1>1
    <3> QED BY <3>1, <3>2
  <2>2. (p * b) + (x * q) \in Nat
      OBVIOUS
  <2> QED BY <2>1, <2>2
<1>3. x * y \in {0, 1, 2, 4}
  <2>1. x \in {0, 1, 2} /\ y \in {0, 1, 2}
      OBVIOUS
  <2> QED BY <2>1
<1>4. ((3 * z) + (x * y)) % 3 = (x * y) % 3
    BY <1>3
<1> QED BY <1>1, <1>2, <1>4

\* VLIW has the same signs in the kernel and in the check, for every width.
LEMMA SameSigns ==
    ASSUME NEW w \in Nat, NEW n \in Nat
    PROVE  KernelSign(w, n) = CheckSign(w, n)
<1> DEFINE r == n % ArithOps
<1>1. r \in Nat
    BY KernelAssumption
<1> HIDE DEF r
<1>2. (r * w) % 3 = ((r % 3) * (w % 3)) % 3
    BY <1>1, ProductMod3
<1>3. r % 3 \in {0, 1, 2} /\ w % 3 \in {0, 1, 2}
    BY <1>1
<1>4. KernelSign(w, n) = Sign(((r % 3) * (w % 3)) % 3)
    BY <1>2 DEF KernelSign, r
<1>5. CheckSign(w, n) = CASE w % 3 = 1 -> Sign(r % 3)
                          [] w % 3 = 2 -> Sign(IF r % 3 = 0 THEN 0 ELSE 3 - (r % 3))
                          [] OTHER     -> "+"
    BY DEF CheckSign, r
<1>6. CASE w % 3 = 0
  <2>1. ((r % 3) * (w % 3)) % 3 = 0
      BY <1>3, <1>6
  <2> QED BY <1>4, <1>5, <1>6, <2>1 DEF Sign
<1>7. CASE w % 3 = 1
  <2>1. ((r % 3) * (w % 3)) % 3 = r % 3
      BY <1>3, <1>7
  <2> QED BY <1>4, <1>5, <1>7, <2>1
<1>8. CASE w % 3 = 2
  <2>1. ((r % 3) * (w % 3)) % 3 = IF r % 3 = 0 THEN 0 ELSE 3 - (r % 3)
      BY <1>3, <1>8
  <2> QED BY <1>4, <1>5, <1>8, <2>1
<1> QED BY <1>3, <1>6, <1>7, <1>8

\* A number of operations that the kernel can make is the one it makes.
LEMMA OpsAgree ==
    ASSUME NEW g, NEW n \in Nat, n % Unroll(g) = 0, ~(n \div Unroll(g) >= UIntMod)
    PROVE  OpsMade(g, n) = n /\ OpsChecked(g, n) = n
<1>1. Unroll(g) \in Nat \ {0} /\ ArithOps \in Nat \ {0} /\ UIntMod \in Nat \ {0}
    BY KernelAssumption DEF Unroll
<1>2. n = ((n \div Unroll(g)) * Unroll(g)) + (n % Unroll(g)) /\ n \div Unroll(g) \in Nat
  <2> DEFINE u == Unroll(g)
  <2>1. u \in Nat \ {0}
      BY <1>1
  <2> HIDE DEF u
  <2>2. n = (u * (n \div u)) + (n % u) /\ n \div u \in Nat
      BY <2>1
  <2>3. u * (n \div u) = (n \div u) * u
      BY <2>1, <2>2
  <2> QED BY <2>2, <2>3 DEF u
<1>3. (n \div Unroll(g)) * Unroll(g) = n
    BY <1>1, <1>2
<1>4. (n \div Unroll(g)) % UIntMod = n \div Unroll(g)
  <2> DEFINE q == n \div Unroll(g)
  <2>1. q \in 0..(UIntMod - 1) /\ UIntMod \in Nat \ {0}
      BY <1>1, <1>2
  <2> HIDE DEF q
  <2>2. q % UIntMod = q
      BY <2>1
  <2> QED BY <2>2 DEF q
<1>5. g = "vliw" => Unroll(g) = ArithOps
    BY DEF Unroll, Arithmetic
<1> QED BY <1>3, <1>4, <1>5 DEF OpsMade, OpsChecked

\* Then kernel and check compute the same.
LEMMA ExpectedIsResult ==
    ASSUME NEW g, NEW w \in Nat, NEW n \in Nat,
           n % Unroll(g) = 0, ~(n \div Unroll(g) >= UIntMod)
    PROVE  Expected(g, w, n) = Result(g, w, n)
<1>1. OpsMade(g, n) = n /\ OpsChecked(g, n) = n
    BY OpsAgree
<1>2. [x \in 0..(n - 1) |-> IF g = "vliw" THEN KernelSign(w, x) ELSE "none"]
        = [x \in 0..(n - 1) |-> IF g = "vliw" THEN CheckSign(w, x) ELSE "none"]
    BY SameSigns
<1> QED BY <1>1, <1>2 DEF Expected, Result

\* The kernel makes no more operations than asked for.
LEMMA OpsBound ==
    ASSUME NEW g, NEW n \in Nat
    PROVE  OpsMade(g, n) \in 0..n
<1> DEFINE u == Unroll(g)
           q == n \div u
           m == q % UIntMod
<1>1. u \in Nat \ {0} /\ UIntMod \in Nat \ {0}
    BY KernelAssumption DEF Unroll
<1> HIDE DEF u
<1>2. q \in Nat /\ u * q <= n
  <2>1. n = (u * q) + (n % u) /\ n % u \in Nat /\ q \in Nat
      BY <1>1
  <2> QED BY <1>1, <2>1
<1> HIDE DEF q
<1>3. m \in Nat /\ m <= q
    BY <1>1, <1>2
<1> HIDE DEF m
<1>4. m * u \in Nat /\ m * u <= u * q
  <2>1. PICK z \in Nat : q = m + z
    <3>1. q - m \in Nat /\ q = m + (q - m)
        BY <1>2, <1>3
    <3> QED BY <3>1
  <2>2. u * q = (m * u) + (u * z) /\ u * z \in Nat /\ m * u \in Nat
      BY <1>1, <1>3, <2>1
  <2> QED BY <2>2
<1>5. m * u \in 0..n
    BY <1>1, <1>2, <1>4
<1> QED BY <1>5 DEF OpsMade, u, q, m

\* Counting down tells how many operations were made.
LEMMA CountdownTells ==
    ASSUME NEW w, NEW n \in 0..Whole
    PROVE  /\ Result("vec", w, n) = 1 - OpsMade("vec", n)
           /\ Expected("vec", w, n) = 1 - n
<1>1. n \in Nat /\ OpsMade("vec", n) \in 0..Whole
    BY OpsBound, KernelAssumption
<1>2. OpsChecked("vec", n) = n
    BY DEF OpsChecked
<1> QED BY <1>1, <1>2, Countdown DEF Result, Expected
-----------------------------------------------------------------------------
(* The order of the lines.                                                 *)

\* What can be put in order.
IsPlace(x) ==
    /\ x.device \in Nat /\ x.f \in Nat /\ x.j \in Nat
    /\ x.type \in {"float", "double"} /\ x.vec \in Nat /\ x.ws \in Nat

\* The order is one.
LEMMA BeforeTrans ==
    ASSUME NEW a, NEW b, NEW c, IsPlace(a), IsPlace(b), IsPlace(c),
           Before(a, b), Before(b, c)
    PROVE  Before(a, c)
<1> USE DEF IsPlace
<1>1. CASE a.device < c.device
    BY <1>1 DEF Before
<1>2. CASE ~(a.device < c.device)
  <2>1. a.device = b.device /\ b.device = c.device
      BY <1>2 DEF Before
  <2>2. CASE a.f < c.f
      BY <2>1, <2>2 DEF Before
  <2>3. CASE ~(a.f < c.f)
    <3>1. a.f = b.f /\ b.f = c.f
        BY <2>1, <2>3 DEF Before
    <3>2. CASE a.j < c.j
        BY <2>1, <3>1, <3>2 DEF Before
    <3>3. CASE ~(a.j < c.j)
      <4>1. a.j = b.j /\ b.j = c.j
          BY <2>1, <3>1, <3>3 DEF Before
      <4>2. CASE a.type # c.type
          BY <2>1, <3>1, <4>1, <4>2 DEF Before
      <4>3. CASE a.type = c.type
        <5>1. a.type = b.type
            BY <2>1, <3>1, <4>1, <4>3 DEF Before
        <5>2. a.vec < b.vec \/ (a.vec = b.vec /\ a.ws < b.ws)
            BY <2>1, <3>1, <4>1, <5>1 DEF Before
        <5>3. b.vec < c.vec \/ (b.vec = c.vec /\ b.ws < c.ws)
            BY <2>1, <3>1, <4>1, <4>3, <5>1 DEF Before
        <5> QED BY <2>1, <3>1, <4>1, <4>3, <5>2, <5>3 DEF Before
      <4> QED BY <4>2, <4>3
    <3> QED BY <3>2, <3>3
  <2> QED BY <2>2, <2>3
<1> QED BY <1>1, <1>2

\* Places and lines are such.
LEMMA Places ==
    ASSUME TypeInv
    PROVE  /\ IsPlace(Here)
           /\ \A n \in 1..Len(table) : table[n] \in Lines /\ IsPlace(table[n])
           /\ Len(table) \in Nat
<1>1. IsPlace(Here)
    BY DEF TypeInv, IsPlace, Here, PlaceOf, Vecs
<1>2. \A l \in Lines : IsPlace(l)
    BY DEF Lines, IsPlace, Vecs
<1>3. table \in Seq(Lines) /\ Len(table) \in Nat
    BY LenProperties DEF TypeInv
<1> QED BY <1>1, <1>2, <1>3, ElementOfSeq

\* The place after a step is one.
LEMMA PlaceAfter ==
    ASSUME TypeInv'
    PROVE  IsPlace(Here')
BY SMTT(30) DEF TypeInv, IsPlace, Here, PlaceOf, Vecs

\* Nothing but the stage within the loops changes.
LEMMA Stays ==
    ASSUME MainInv, pc # "options", pc' # "options",
           Here' = Here, table' = table, UNCHANGED <<request, machine, functions>>,
           pc' \in Loops /\ ws' = 1 => pc \in Loops /\ ws = 1
    PROVE  OrderInv' /\ DueInv' /\ CompleteInv'
<1> USE DEF MainInv
<1>1. OrderInv'
    BY DEF OrderInv
<1>2. DueInv'
  <2>1. \A g, t : Due(g, t)' = Due(g, t)
      BY DEF Due
  <2>2. \A n \in 1..Len(table) : Due(table[n].f, table[n].type)'
    <3> TAKE n \in 1..Len(table)
    <3>1. Due(table[n].f, table[n].type)
        BY DEF DueInv
    <3> QED BY <3>1 DEF Due
  <2> QED BY <2>2 DEF DueInv
<1>3. CompleteInv'
  <2>1. Widths' = Widths
      BY DEF Widths
  <2>2. \A g, t : Due(g, t)' = Due(g, t)
      BY DEF Due
  <2>3. \A d, g, s, t, v, w : Printed(d, g, s, t, v, w)' = Printed(d, g, s, t, v, w)
      BY DEF Printed
  <2>4. \A d, g, s, t, v : Failed(d, g, s, t, v)' = Failed(d, g, s, t, v)
      BY <2>3 DEF Failed
  <2>5. \A d, g, s, t, v : HasLines(d, g, s, t, v)' = HasLines(d, g, s, t, v)
      BY <2>3, <2>4 DEF HasLines
  <2> QED BY <2>1, <2>2, <2>5 DEF CompleteInv
<1> QED BY <1>1, <1>2, <1>3

\* A loop ends behind all that it goes through.
LEMMA MovesOn ==
    ASSUME MainInv, TypeInv', pc # "options", pc' \notin Loops, pc' # "options",
           Before(Here, Here'), table' = table, UNCHANGED <<request, machine, functions>>,
           \A d \in 1..Len(machine), g \in 1..Len(functions),
              s \in 1..Len(request.sizes), t \in {"float", "double"}, v \in Widths,
              w \in {0, 1} :
             Before(PlaceOf(d, g, s, t, v, w), Here') => Before(PlaceOf(d, g, s, t, v, w), Here)
    PROVE  OrderInv' /\ DueInv' /\ CompleteInv'
<1> USE DEF MainInv
<1>1. OrderInv'
  <2>1. \A n \in 1..Len(table) : Before(table[n], Here')
    <3> TAKE n \in 1..Len(table)
    <3>1. Before(table[n], Here) /\ IsPlace(table[n]) /\ IsPlace(Here)
        BY Places DEF OrderInv
    <3>2. IsPlace(Here')
        BY PlaceAfter
    <3> QED BY <3>1, <3>2, BeforeTrans
  <2> QED BY <2>1 DEF OrderInv
<1>2. DueInv'
  <2>1. \A n \in 1..Len(table) : Due(table[n].f, table[n].type)'
    <3> TAKE n \in 1..Len(table)
    <3>1. Due(table[n].f, table[n].type)
        BY DEF DueInv
    <3> QED BY <3>1 DEF Due
  <2> QED BY <2>1 DEF DueInv
<1>3. CompleteInv'
  <2>1. Widths' = Widths
      BY DEF Widths
  <2>2. \A g, t : Due(g, t)' = Due(g, t)
      BY DEF Due
  <2>3. \A d, g, s, t, v, w : Printed(d, g, s, t, v, w)' = Printed(d, g, s, t, v, w)
      BY DEF Printed
  <2>4. \A d, g, s, t, v : Failed(d, g, s, t, v)' = Failed(d, g, s, t, v)
      BY <2>3 DEF Failed
  <2> SUFFICES ASSUME NEW d \in 1..Len(machine), NEW g \in 1..Len(functions),
                      NEW s \in 1..Len(request.sizes), NEW t \in {"float", "double"},
                      NEW v \in Widths, Due(g, t)
               PROVE  HasLines(d, g, s, t, v)'
      BY <2>1, <2>2 DEF CompleteInv
  <2>5. HasLines(d, g, s, t, v)
      BY DEF CompleteInv
  <2> QED BY <2>3, <2>4, <2>5 DEF HasLines
<1> QED BY <1>1, <1>2, <1>3

\* What a new line adds.
LEMMA NewLine ==
    ASSUME TypeInv, NEW x, Line(x) \in Lines, table' = Append(table, Line(x))
    PROVE  /\ Len(table) \in Nat /\ Len(table') = Len(table) + 1
           /\ \A n \in 1..Len(table) : table'[n] = table[n]
           /\ table'[Len(table) + 1] = Line(x)
           /\ \A n \in 1..Len(table') : n \in 1..Len(table) \/ n = Len(table) + 1
           /\ \A d, g, s, t, v, w :
                /\ Printed(d, g, s, t, v, w) \subseteq Printed(d, g, s, t, v, w)'
                /\ <<i, f, j, type, vec, ws>> = <<d, g, s, t, v, w>> =>
                     Len(table) + 1 \in Printed(d, g, s, t, v, w)'
<1>1. table \in Seq(Lines) /\ Len(table) \in Nat
    BY LenProperties DEF TypeInv
<1>2. /\ Len(table') = Len(table) + 1
      /\ \A n \in 1..Len(table) : table'[n] = table[n]
      /\ table'[Len(table) + 1] = Line(x)
    BY <1>1, AppendProperties
<1>3. \A n \in 1..Len(table') : n \in 1..Len(table) \/ n = Len(table) + 1
    BY <1>1, <1>2
<1>4. ASSUME NEW d, NEW g, NEW s, NEW t, NEW v, NEW w
      PROVE  /\ Printed(d, g, s, t, v, w) \subseteq Printed(d, g, s, t, v, w)'
             /\ <<i, f, j, type, vec, ws>> = <<d, g, s, t, v, w>> =>
                  Len(table) + 1 \in Printed(d, g, s, t, v, w)'
  <2> DEFINE P(l) == <<l.device, l.f, l.j, l.type, l.vec, l.ws>> = <<d, g, s, t, v, w>>
  <2>1. Printed(d, g, s, t, v, w) = {n \in 1..Len(table) : P(table[n])}
      BY DEF Printed
  <2>2. Printed(d, g, s, t, v, w)' = {n \in 1..Len(table') : P(table'[n])}
      BY DEF Printed
  <2>3. P(Line(x)) <=> <<i, f, j, type, vec, ws>> = <<d, g, s, t, v, w>>
      BY DEF Line
  <2> HIDE DEF P
  <2>4. \A n \in 1..Len(table) : n \in 1..Len(table')
      BY <1>1, <1>2
  <2>5. Len(table) + 1 \in 1..Len(table')
      BY <1>1, <1>2
  <2> QED BY <1>2, <2>1, <2>2, <2>3, <2>4, <2>5
<1> QED BY <1>1, <1>2, <1>3, <1>4

\* A line is printed, and the loops move on by no more than it has.
LEMMA Prints ==
    ASSUME MainInv, TypeInv', pc = "repeat", pc' # "options",
           NEW x, Line(x) \in Lines, table' = Append(table, Line(x)),
           UNCHANGED <<request, machine, functions>>, Before(Here, Here'),
           \A d \in 1..Len(machine), g \in 1..Len(functions),
              s \in 1..Len(request.sizes), t \in {"float", "double"}, v \in Widths,
              w \in {0, 1} :
             Due(g, t) /\ Before(PlaceOf(d, g, s, t, v, w), Here') =>
               \/ Before(PlaceOf(d, g, s, t, v, w), Here)
               \/ /\ <<d, g, s, t, v>> = <<i, f, j, type, vec>>
                  /\ w = 1 => ws = 1 \/ x = NaN,
           pc' \in Loops /\ ws' = 1 => x # NaN /\ ws = 0 /\ SameWidth(Here, Here')
    PROVE  OrderInv' /\ DueInv' /\ CompleteInv'
<1> USE DEF MainInv
<1> DEFINE N == Len(table)
<1>1. /\ N \in Nat /\ Len(table') = N + 1
      /\ \A n \in 1..N : table'[n] = table[n]
      /\ table'[N + 1] = Line(x)
      /\ \A n \in 1..Len(table') : n \in 1..N \/ n = N + 1
    BY NewLine
<1>2. /\ Line(x).device = i /\ Line(x).f = f /\ Line(x).j = j /\ Line(x).type = type
      /\ Line(x).vec = vec /\ Line(x).ws = ws /\ Line(x).time = x
    BY DEF Line
<1>3. /\ Here.device = i /\ Here.f = f /\ Here.j = j /\ Here.type = type
      /\ Here.vec = vec /\ Here.ws = ws
    BY DEF Here, PlaceOf, Loops, Work
<1>4. pc \in Loops
    BY DEF Loops, Work
<1>5. i \in Nat /\ f \in Nat /\ j \in Nat /\ vec \in Nat /\ ws \in {0, 1}
      /\ type \in {"float", "double"}
    BY DEF TypeInv, Vecs
<1>6. \A n \in 1..N : IsPlace(table[n]) /\ table[n].ws \in {0, 1}
    BY Places DEF Lines
<1>7. \A n \in 1..N : Before(table[n], Here)
    BY DEF OrderInv
<1>8. OrderInv'
  <2>1. IsPlace(Here) /\ IsPlace(Here')
    <3>1. IsPlace(Here')
        BY PlaceAfter
    <3> QED BY <3>1, Places
  <2>2. \A n \in 1..N : Before(table[n], Here')
      BY <1>6, <1>7, <2>1, BeforeTrans
  <2>3. Before(Line(x), Here')
      BY <1>2, <1>3 DEF Before
  <2>4. \A n \in 1..Len(table') : Before(table'[n], Here')
      BY <1>1, <2>2, <2>3
  <2>5. ASSUME NEW n \in 1..(Len(table') - 1)
        PROVE  Before(table'[n], table'[n + 1])
    <3>1. n \in 1..N
        BY <1>1
    <3>2. CASE n = N
      <4>1. Before(table[n], Line(x))
          BY <1>2, <1>3, <1>7, <3>1 DEF Before
      <4> QED BY <1>1, <3>1, <3>2, <4>1
    <3>3. CASE n # N
      <4>1. n \in 1..(N - 1) /\ n + 1 \in 1..N
          BY <1>1, <3>1, <3>3
      <4>2. Before(table[n], table[n + 1])
          BY <4>1 DEF OrderInv
      <4> QED BY <1>1, <3>1, <4>1, <4>2
    <3> QED BY <3>2, <3>3
  <2> QED BY <2>4, <2>5 DEF OrderInv
<1>9. \A n \in 1..N : ~(SameWidth(Here, table[n]) /\ ws = 0 /\ table[n].ws = 1)
                        /\ ~(SameWidth(Here, table[n]) /\ table[n].ws = ws)
    BY <1>3, <1>5, <1>6, <1>7 DEF SameWidth, Before, IsPlace
<1>10. DueInv'
  <2>1. (\A n \in 1..Len(table) : Due(table[n].f, table[n].type))'
    <3> SUFFICES ASSUME NEW n \in 1..Len(table')
                 PROVE  Due(table[n].f, table[n].type)'
        OBVIOUS
    <3>1. Due(table'[n].f, table'[n].type)
      <4>1. CASE n \in 1..N
          BY <1>1, <4>1 DEF DueInv
      <4>2. CASE n = N + 1
          BY <1>1, <1>2, <1>4, <4>2 DEF PlaceInv
      <4> QED BY <1>1, <4>1, <4>2
    <3> QED BY <3>1 DEF Due
  <2>2. ASSUME NEW n \in 1..Len(table'), NEW m \in 1..Len(table'),
               SameWidth(table'[n], table'[m]), table'[n].ws = 1, table'[m].ws = 0
        PROVE  table'[m].time # NaN
    <3>1. CASE n \in 1..N /\ m \in 1..N
        BY <1>1, <2>2, <3>1 DEF DueInv
    <3>2. CASE n = N + 1 /\ m \in 1..N
      <4>1. SameWidth(Here, table[m]) /\ ws = 1 /\ table[m].ws = 0
          BY <1>1, <1>2, <1>3, <2>2, <3>2 DEF SameWidth
      <4>2. table[m].time # NaN
          BY <1>4, <3>2, <4>1 DEF DueInv
      <4> QED BY <1>1, <3>2, <4>2
    <3>3. CASE n \in 1..N /\ m = N + 1
      <4>1. SameWidth(Here, table[n]) /\ ws = 0 /\ table[n].ws = 1
          BY <1>1, <1>2, <1>3, <2>2, <3>3 DEF SameWidth
      <4> QED BY <1>9, <3>3, <4>1
    <3>4. CASE n = N + 1 /\ m = N + 1
        BY <2>2, <3>4
    <3> QED BY <1>1, <3>1, <3>2, <3>3, <3>4
  <2>3. ASSUME pc' \in Loops, ws' = 1, NEW m \in 1..Len(table'),
               SameWidth(Here', table'[m]), table'[m].ws = 0
        PROVE  table'[m].time # NaN
    <3>1. x # NaN /\ ws = 0 /\ SameWidth(Here, table'[m])
        BY <2>3 DEF SameWidth
    <3>2. CASE m \in 1..N
        BY <1>1, <1>9, <2>3, <3>1, <3>2
    <3>3. CASE m = N + 1
        BY <1>1, <1>2, <3>1, <3>3
    <3> QED BY <1>1, <3>2, <3>3
  <2> QED BY <2>1, <2>2, <2>3 DEF DueInv
<1>11. CompleteInv'
  <2>1. Widths' = Widths
      BY DEF Widths
  <2>2. \A g, t : Due(g, t)' = Due(g, t)
      BY DEF Due
  <2> SUFFICES ASSUME NEW d \in 1..Len(machine), NEW g \in 1..Len(functions),
                      NEW s \in 1..Len(request.sizes), NEW t \in {"float", "double"},
                      NEW v \in Widths, Due(g, t)
               PROVE  HasLines(d, g, s, t, v)'
      BY <2>1, <2>2 DEF CompleteInv
  <2>3. HasLines(d, g, s, t, v)
      BY DEF CompleteInv
  <2>4. \A w : /\ Printed(d, g, s, t, v, w) \subseteq Printed(d, g, s, t, v, w)'
               /\ <<i, f, j, type, vec, ws>> = <<d, g, s, t, v, w>> =>
                    N + 1 \in Printed(d, g, s, t, v, w)'
      BY NewLine
  <2>5. Failed(d, g, s, t, v) => Failed(d, g, s, t, v)'
    <3> SUFFICES ASSUME NEW n \in Printed(d, g, s, t, v, 0), table[n].time = NaN
                 PROVE  Failed(d, g, s, t, v)'
        BY DEF Failed
    <3>1. n \in 1..N /\ table'[n].time = NaN
        BY <1>1 DEF Printed
    <3>2. n \in Printed(d, g, s, t, v, 0)'
        BY <2>4
    <3> QED BY <3>1, <3>2 DEF Failed
  <2>6. ASSUME Before(PlaceOf(d, g, s, t, v, 0), Here')
        PROVE  Printed(d, g, s, t, v, 0)' # {}
    <3>1. \/ Before(PlaceOf(d, g, s, t, v, 0), Here)
          \/ <<d, g, s, t, v>> = <<i, f, j, type, vec>>
        BY <2>6
    <3>2. CASE Before(PlaceOf(d, g, s, t, v, 0), Here)
        BY <2>3, <2>4, <3>2 DEF HasLines
    <3>3. CASE <<d, g, s, t, v>> = <<i, f, j, type, vec>> /\ ws = 0
        BY <2>4, <3>3
    <3>4. CASE <<d, g, s, t, v>> = <<i, f, j, type, vec>> /\ ws = 1
      <4>1. Before(PlaceOf(d, g, s, t, v, 0), Here)
          BY <1>3, <3>4 DEF Before, PlaceOf
      <4> QED BY <3>2, <4>1
    <3> QED BY <1>5, <3>1, <3>2, <3>3, <3>4
  <2>7. ASSUME Before(PlaceOf(d, g, s, t, v, 1), Here')
        PROVE  Printed(d, g, s, t, v, 1)' # {} \/ Failed(d, g, s, t, v)'
    <3>1. \/ Before(PlaceOf(d, g, s, t, v, 1), Here)
          \/ <<d, g, s, t, v>> = <<i, f, j, type, vec>> /\ (ws = 1 \/ x = NaN)
        BY <2>7
    <3>2. CASE Before(PlaceOf(d, g, s, t, v, 1), Here)
        BY <2>3, <2>4, <2>5, <3>2 DEF HasLines
    <3>3. CASE <<d, g, s, t, v>> = <<i, f, j, type, vec>> /\ ws = 1
        BY <2>4, <3>3
    <3>4. CASE <<d, g, s, t, v>> = <<i, f, j, type, vec>> /\ ws = 0 /\ x = NaN
      <4>1. N + 1 \in Printed(d, g, s, t, v, 0)' /\ table'[N + 1].time = NaN
          BY <1>1, <1>2, <2>4, <3>4
      <4> QED BY <4>1 DEF Failed
    <3> QED BY <1>5, <3>1, <3>2, <3>3, <3>4
  <2> QED BY <2>6, <2>7 DEF HasLines
<1> QED BY <1>8, <1>10, <1>11
-----------------------------------------------------------------------------
(* What the variables hold.                                                *)

\* The request and the devices are of their types.
LEMMA Inputs ==
    ASSUME TypeInv
    PROVE  /\ request.functions \in Seq(STRING) /\ request.sizes \in Seq(Nat)
           /\ request.checks \in BOOLEAN /\ request.double \in BOOLEAN
           /\ request.maxVec \in Nat \ {0} /\ request.repeats \in Nat \ {0}
           /\ request.local \in Nat /\ request.groups \in Nat
           /\ machine \in Seq([items : Nat \ {0}, units : Nat \ {0}, memory : Nat])
           /\ Len(request.functions) \in Nat /\ Len(request.sizes) \in Nat
           /\ Len(machine) \in Nat
           /\ \A n \in 1..Len(machine) : 2 * 8 * request.maxVec <= machine[n].memory
           /\ pc # "options" => /\ functions \in Seq(Functions \cup {"???"})
                                /\ Len(functions) = Len(request.functions)
<1>1. /\ request.functions \in Seq(STRING) /\ request.sizes \in Seq(Nat)
      /\ request.checks \in BOOLEAN /\ request.double \in BOOLEAN
      /\ request.maxVec \in Nat \ {0} /\ request.repeats \in Nat \ {0}
      /\ request.local \in Nat /\ request.groups \in Nat
      /\ machine \in Seq([items : Nat \ {0}, units : Nat \ {0}, memory : Nat])
      /\ \A n \in 1..Len(machine) : 2 * 8 * request.maxVec <= machine[n].memory
    BY ArithAssumption DEF TypeInv
<1>2. Len(request.functions) \in Nat /\ Len(request.sizes) \in Nat /\ Len(machine) \in Nat
    BY <1>1, LenProperties
<1>3. ASSUME pc # "options"
      PROVE  functions \in Seq(Functions \cup {"???"}) /\ Len(functions) = Len(request.functions)
  <2>1. functions \in [1..Len(request.functions) -> Functions \cup {"???"}]
      BY <1>3 DEF TypeInv
  <2> QED BY <1>2, <2>1, IsASeq, LenProperties
<1> QED BY <1>1, <1>2, <1>3

\* What the loops are at.
LEMMA AtWork ==
    ASSUME TypeInv, PlaceInv, pc \in Loops
    PROVE  /\ fct \in Functions \cup {"???"} /\ size \in Nat
           /\ machine[i].items \in Nat \ {0} /\ machine[i].units \in Nat \ {0}
           /\ machine[i].memory \in Nat /\ 2 * 8 * request.maxVec <= machine[i].memory
           /\ maxLocal \in Nat \ {0} /\ Groups \in Nat \ {0}
           /\ maxGlobal \in Nat \ {0} /\ maxGlobal = Groups * maxLocal
           /\ Bytes \in {4, 8} /\ vec \in Nat \ {0} /\ exact \in BOOLEAN
<1>1. i \in 1..Len(machine) /\ f \in 1..Len(functions) /\ j \in 1..Len(request.sizes)
    BY Inputs DEF TypeInv, PlaceInv, Loops, Work, Call
<1>2. pc # "options"
    BY DEF Loops, Work, Call
<1>3. fct \in Functions \cup {"???"} /\ size \in Nat
  <2>1. functions[f] \in Functions \cup {"???"}
      BY <1>1, <1>2, Inputs, ElementOfSeq
  <2>2. request.sizes[j] \in Nat
      BY <1>1, Inputs, ElementOfSeq
  <2> QED BY <2>1, <2>2 DEF fct, size
<1>4. machine[i] \in [items : Nat \ {0}, units : Nat \ {0}, memory : Nat]
    BY <1>1, Inputs, ElementOfSeq
<1>5. maxLocal \in Nat \ {0}
    BY <1>4 DEF maxLocal
<1>6. Groups \in Nat \ {0} /\ maxGlobal = Groups * maxLocal
    BY <1>4, Inputs, SMTT(30) DEF Groups, maxGlobal
<1>7. Groups * maxLocal \in Nat \ {0}
    BY <1>5, <1>6
<1>8. exact \in BOOLEAN
    BY Zenon DEF exact
<1>9. Bytes \in {4, 8} /\ vec \in Nat \ {0}
    BY DEF Bytes, TypeInv, Vecs
<1>10. 2 * 8 * request.maxVec <= machine[i].memory
    BY <1>1, Inputs
<1> QED BY <1>3, <1>4, <1>5, <1>6, <1>7, <1>8, <1>9, <1>10

\* A line that is printed is one.
LEMMA LineType ==
    ASSUME TypeInv, PlaceInv, pc \in Loops, NEW x \in Nat \cup {NaN}
    PROVE  Line(x) \in Lines
<1>1. OpsMade(fct, size) \in Nat
  <2> DEFINE g == fct
             n == size
  <2>1. n \in Nat
      BY AtWork
  <2> HIDE DEF g, n
  <2>2. OpsMade(g, n) \in 0..n
      BY <2>1, OpsBound
  <2>3. OpsMade(g, n) \in Nat
      BY <2>1, <2>2
  <2> QED BY <2>3 DEF g, n
<1> QED BY <1>1, AtWork DEF Line, Lines, TypeInv

\* Twice a width is one.
LEMMA Doubles ==
    ASSUME NEW v \in Vecs
    PROVE  2 * v \in Vecs
BY DEF Vecs

\* The end of the innermost loop.
LEMMA MoveType ==
    ASSUME TypeInv, NextVec
    PROVE  /\ j' \in Nat \ {0} /\ type' \in {"float", "double"}
           /\ vec' \in Vecs /\ ws' \in {0, 1} /\ pc' \in {"function", "sizes"}
<1>1. CASE ~LastVec
    BY <1>1, Doubles DEF NextVec, Loop, TypeInv
<1>2. CASE LastVec /\ type = "float" /\ ~trans /\ request.double
    BY <1>2 DEF NextVec, Loop, TypeInv, Vecs
<1>3. CASE LastVec /\ ~(type = "float" /\ ~trans /\ request.double)
    BY <1>3 DEF NextVec, TypeInv
<1> QED BY <1>1, <1>2, <1>3

\* Each step keeps the variables' types.
LEMMA TypeStep ==
    ASSUME TypeInv, PlaceInv, Main
    PROVE  TypeInv'
<1> USE DEF TypeInv, Loops, Work, Call, input, position, sizing, budget
<1>1. CASE ReadFunctions
  <2>1. functions' \in [1..Len(request.functions) -> Functions \cup {"???"}]
    <3>1. Leftovers \subseteq Functions \cup {"???"}
        BY ArithAssumption
    <3>2. functions' \in [1..Len(request.functions) -> Functions \cup Leftovers]
        BY <1>1 DEF ReadFunctions
    <3> QED BY <3>1, <3>2
  <2> QED BY <1>1, <2>1 DEF ReadFunctions
<1>2. CASE BeginDevice
  <2>1. hit' \in BOOLEAN
      BY <1>2, Zenon DEF BeginDevice, Fails
  <2> QED BY <1>2, <2>1 DEF BeginDevice, Fails
<1>3. CASE BeginFunction
    BY <1>3 DEF BeginFunction, Loop, Vecs
<1>4. CASE NextFunction
    BY <1>4 DEF NextFunction
<1>5. CASE NextDevice
    BY <1>5 DEF NextDevice
<1>6. CASE Exit
    BY <1>6 DEF Exit
<1>7. CASE WorkSizes
  <2>1. maxLocal \in Nat /\ maxGlobal \in Nat
      BY <1>7, AtWork DEF WorkSizes
  <2>2. hit' \in BOOLEAN
      BY <1>7, Zenon DEF WorkSizes
  <2> QED BY <1>7, <2>1, <2>2 DEF WorkSizes
<1>8. CASE Halve
    BY <1>8 DEF Halve
<1>9. CASE BeginCall
    BY <1>9 DEF BeginCall
<1>10. CASE GenKernel
  <2>1. hit' \in BOOLEAN
      BY <1>10, Zenon DEF GenKernel, Fails
  <2> QED BY <1>10, <2>1 DEF GenKernel, ReturnError, Fails
<1>11. CASE Prepare
  <2>1. hit' \in BOOLEAN
      BY <1>11, Zenon DEF Prepare, Fails
  <2> QED BY <1>11, <2>1 DEF Prepare, ReturnError, Fails
<1>12. CASE Launch
  <2>1. hit' \in BOOLEAN
      BY <1>12, Zenon DEF Launch, Fails
  <2> QED BY <1>12, <2>1 DEF Launch, ReturnError, Fails
<1>13. CASE Check
  <2>1. time' \in Nat /\ k' \in Nat /\ pc' = "repeat" /\ err' \in {0, 1}
      BY <1>13 DEF Check, Passes, Refused, ReturnError
  <2> QED BY <1>13, <2>1 DEF Check
<1>14. CASE PrintError
  <2>1. Line(NaN) \in Lines /\ pc # "options"
      BY <1>14, LineType DEF PrintError
  <2>2. table' \in Seq(Lines)
      BY <1>14, <2>1, AppendProperties DEF PrintError
  <2>3. /\ j' \in Nat \ {0} /\ type' \in {"float", "double"}
        /\ vec' \in Vecs /\ ws' \in {0, 1} /\ pc' \in {"function", "sizes"}
      BY <1>14, MoveType DEF PrintError
  <2> QED BY <1>14, <2>1, <2>2, <2>3 DEF PrintError
<1>15. CASE PrintLine
  <2>1. Line(time) \in Lines /\ pc # "options"
      BY <1>15, LineType DEF PrintLine
  <2>2. table' \in Seq(Lines)
      BY <1>15, <2>1, AppendProperties DEF PrintLine
  <2>3. /\ j' \in Nat \ {0} /\ type' \in {"float", "double"}
        /\ vec' \in Vecs /\ ws' \in {0, 1} /\ pc' \in {"function", "sizes"}
    <3>1. CASE ws = 0
        BY <1>15, <3>1 DEF PrintLine, Loop
    <3>2. CASE ws # 0
        BY <1>15, <3>2, MoveType DEF PrintLine
    <3> QED BY <3>1, <3>2
  <2> QED BY <1>15, <2>1, <2>2, <2>3 DEF PrintLine
<1> QED BY <1>1, <1>2, <1>3, <1>4, <1>5, <1>6, <1>7, <1>8, <1>9, <1>10, <1>11, <1>12,
           <1>13, <1>14, <1>15 DEF Main

\* The end of the innermost loop is in range.
LEMMA MoveDue ==
    ASSUME TypeInv, PlaceInv, pc = "repeat", NextVec, UNCHANGED <<input, i, f>>
    PROVE  pc' \in Loops =>
             /\ j' = j /\ f' <= Len(functions') /\ j' <= Len(request'.sizes)
             /\ Due(f, type)'
<1> USE DEF input
<1>1. f <= Len(functions) /\ j <= Len(request.sizes) /\ Due(f, type)
    BY DEF PlaceInv, Loops, Work
<1>2. CASE ~LastVec
    BY <1>1, <1>2 DEF NextVec, Loop, Due
<1>3. CASE LastVec /\ type = "float" /\ ~trans /\ request.double
    BY <1>1, <1>3 DEF NextVec, Loop, Due, trans, fct
<1>4. CASE LastVec /\ ~(type = "float" /\ ~trans /\ request.double)
    BY <1>4 DEF NextVec, Loops, Work, Call
<1> QED BY <1>2, <1>3, <1>4

\* Each step keeps the loops in range.
LEMMA PlaceStep ==
    ASSUME TypeInv, PlaceInv, Main
    PROVE  PlaceInv'
<1> USE DEF PlaceInv, Loops, Work, Call, input, position, sizing, budget
<1>1. CASE ReadFunctions
    BY <1>1 DEF ReadFunctions
<1>2. CASE BeginDevice
  <2>1. pc' = "exit" => failures' > 0
      BY <1>2 DEF BeginDevice, Fails, TypeInv
  <2> QED BY <1>2, <2>1 DEF BeginDevice, TypeInv
<1>3. CASE BeginFunction
    BY <1>3 DEF BeginFunction, Loop, Due
<1>4. CASE NextFunction
    BY <1>4 DEF NextFunction
<1>5. CASE NextDevice
    BY <1>5, Inputs DEF NextDevice, TypeInv
<1>6. CASE Exit
    BY <1>6, Inputs DEF Exit, TypeInv
<1>7. CASE WorkSizes
    BY <1>7 DEF WorkSizes, Due
<1>8. CASE Halve
    BY <1>8 DEF Halve, Due
<1>9. CASE BeginCall
    BY <1>9 DEF BeginCall, Due, fct
<1>10. CASE GenKernel
    BY <1>10 DEF GenKernel, ReturnError, Due, fct
<1>11. CASE Prepare
    BY <1>11 DEF Prepare, ReturnError, Due, fct
<1>12. CASE Launch
    BY <1>12 DEF Launch, ReturnError, Due, fct
<1>13. CASE Check
  <2>1. pc' = "repeat"
      BY <1>13 DEF Check, Passes, Refused, ReturnError
  <2> QED BY <1>13, <2>1 DEF Check, Due
<1>14. CASE PrintError
  <2>1. pc' \in {"function", "sizes"} /\ i' = i /\ machine' = machine
      BY <1>14, MoveType DEF PrintError
  <2>2. pc' \in Loops =>
          /\ f' <= Len(functions') /\ j' <= Len(request'.sizes) /\ Due(f, type)'
      BY <1>14, MoveDue DEF PrintError
  <2> QED BY <1>14, <2>1, <2>2 DEF PrintError, Due
<1>15. CASE PrintLine
  <2>1. pc' \in {"function", "sizes"} /\ i' = i /\ machine' = machine
      BY <1>15, MoveType DEF PrintLine, Loop
  <2>2. pc' \in Loops =>
          /\ f' <= Len(functions') /\ j' <= Len(request'.sizes) /\ Due(f, type)'
    <3>1. CASE ws = 0
        BY <1>15, <3>1 DEF PrintLine, Loop, Due
    <3>2. CASE ws # 0
        BY <1>15, <3>2, MoveDue DEF PrintLine
    <3> QED BY <3>1, <3>2
  <2> QED BY <1>15, <2>1, <2>2 DEF PrintLine, Due
<1> QED BY <1>1, <1>2, <1>3, <1>4, <1>5, <1>6, <1>7, <1>8, <1>9, <1>10, <1>11, <1>12,
           <1>13, <1>14, <1>15 DEF Main
-----------------------------------------------------------------------------
(* The order of the lines, kept.                                           *)

\* No width is between one and its double, and none above the last.
LEMMA WidthsApart ==
    ASSUME TypeInv, NEW v \in Widths
    PROVE  /\ v \in Nat \ {0}
           /\ v < 2 * vec => v <= vec
           /\ LastVec => v <= vec
<1>1. v \in {1, 2, 4, 8, 16, 32, 64} /\ v <= request.maxVec
    BY DEF Widths
<1>2. vec \in {1, 2, 4, 8, 16, 32, 64} \/ (vec \in Nat /\ vec >= 128)
    BY DEF TypeInv, Vecs
<1>3. v < 2 * vec => v <= vec
    BY <1>1, <1>2
<1>4. LastVec => v < 2 * vec
    BY <1>1, <1>2, Inputs, SMTT(30) DEF LastVec
<1> QED BY <1>1, <1>3, <1>4

\* The end of the innermost loop passes only the lines of its width.
LEMMA NextWidth ==
    ASSUME TypeInv, PlaceInv, pc = "repeat", NextVec,
           UNCHANGED <<request, machine, functions, i, f>>
    PROVE  /\ Before(Here, Here') /\ pc' \in {"function", "sizes"}
           /\ pc' \in Loops => ws' = 0
           /\ \A d \in 1..Len(machine), g \in 1..Len(functions),
                 s \in 1..Len(request.sizes), t \in {"float", "double"}, v \in Widths,
                 w \in {0, 1} :
                Due(g, t) /\ Before(PlaceOf(d, g, s, t, v, w), Here') =>
                  \/ Before(PlaceOf(d, g, s, t, v, w), Here)
                  \/ <<d, g, s, t, v>> = <<i, f, j, type, vec>>
<1>1. /\ i \in Nat /\ f \in Nat /\ j \in Nat /\ vec \in Nat \ {0}
      /\ ws \in {0, 1} /\ type \in {"float", "double"}
    BY DEF TypeInv, Vecs
<1>2. Here = PlaceOf(i, f, j, type, vec, ws)
    BY DEF Here, Loops, Work
<1>3. CASE ~LastVec
  <2>1. Here' = PlaceOf(i, f, j, type, 2 * vec, 0) /\ pc' = "sizes" /\ ws' = 0
      BY <1>3 DEF NextVec, Loop, Here, Loops, PlaceOf
  <2>2. Before(Here, Here')
      BY <1>1, <1>2, <2>1 DEF Before, PlaceOf
  <2>3. ASSUME NEW d \in 1..Len(machine), NEW g \in 1..Len(functions),
               NEW s \in 1..Len(request.sizes), NEW t \in {"float", "double"},
               NEW v \in Widths, NEW w \in {0, 1}, Before(PlaceOf(d, g, s, t, v, w), Here')
        PROVE  \/ Before(PlaceOf(d, g, s, t, v, w), Here)
               \/ <<d, g, s, t, v>> = <<i, f, j, type, vec>>
    <3>1. v \in Nat /\ (v < 2 * vec => v <= vec)
        BY WidthsApart
    <3> QED BY <1>1, <1>2, <2>1, <2>3, <3>1 DEF Before, PlaceOf
  <2> QED BY <2>1, <2>2, <2>3
<1>4. CASE LastVec /\ type = "float" /\ ~trans /\ request.double
  <2>1. Here' = PlaceOf(i, f, j, "double", 1, 0) /\ pc' = "sizes" /\ ws' = 0
      BY <1>4 DEF NextVec, Loop, Here, Loops, PlaceOf
  <2>2. Before(Here, Here')
      BY <1>1, <1>2, <1>4, <2>1 DEF Before, PlaceOf
  <2>3. ASSUME NEW d \in 1..Len(machine), NEW g \in 1..Len(functions),
               NEW s \in 1..Len(request.sizes), NEW t \in {"float", "double"},
               NEW v \in Widths, NEW w \in {0, 1}, Before(PlaceOf(d, g, s, t, v, w), Here')
        PROVE  \/ Before(PlaceOf(d, g, s, t, v, w), Here)
               \/ <<d, g, s, t, v>> = <<i, f, j, type, vec>>
    <3>1. v \in Nat \ {0} /\ v <= vec
        BY <1>4, WidthsApart
    <3> QED BY <1>1, <1>2, <1>4, <2>1, <2>3, <3>1 DEF Before, PlaceOf
  <2> QED BY <2>1, <2>2, <2>3
<1>5. CASE LastVec /\ ~(type = "float" /\ ~trans /\ request.double)
  <2>1. Here' = PlaceOf(i, f, j + 1, "float", 1, 0) /\ pc' = "function" /\ pc' \notin Loops
      BY <1>5 DEF NextVec, Here, Loops, Work, Call, PlaceOf
  <2>2. Before(Here, Here')
      BY <1>1, <1>2, <2>1 DEF Before, PlaceOf
  <2>3. ASSUME NEW d \in 1..Len(machine), NEW g \in 1..Len(functions),
               NEW s \in 1..Len(request.sizes), NEW t \in {"float", "double"},
               NEW v \in Widths, NEW w \in {0, 1}, Due(g, t),
               Before(PlaceOf(d, g, s, t, v, w), Here')
        PROVE  \/ Before(PlaceOf(d, g, s, t, v, w), Here)
               \/ <<d, g, s, t, v>> = <<i, f, j, type, vec>>
    <3>1. v \in Nat \ {0} /\ v <= vec
        BY <1>5, WidthsApart
    <3>2. g = f /\ type = "float" => t = "float"
        BY <1>5, <2>3 DEF Due, trans, fct
    <3> QED BY <1>1, <1>2, <2>1, <2>3, <3>1, <3>2 DEF Before, PlaceOf
  <2> QED BY <2>1, <2>2, <2>3
<1> QED BY <1>3, <1>4, <1>5

\* The lines stay in order, those due and complete.
LEMMA LinesStep ==
    ASSUME MainInv, Main
    PROVE  OrderInv' /\ DueInv' /\ CompleteInv'
<1> USE DEF MainInv, input, position, sizing, budget
<1>0. TypeInv'
    BY TypeStep
<1>1. CASE ReadFunctions
  <2>1. table = << >> /\ table' = << >> /\ pc' = "device" /\ i' = 1 /\ Len(table') = 0
      BY <1>1 DEF ReadFunctions, TypeInv
  <2>2. OrderInv'
      BY <2>1 DEF OrderInv
  <2>3. DueInv'
      BY <2>1 DEF DueInv, Loops, Work, Call
  <2>4. ASSUME NEW d \in 1..Len(machine'), NEW g \in 1..Len(functions'),
               NEW s \in 1..Len(request'.sizes), NEW t \in {"float", "double"},
               NEW v \in Widths', NEW w \in {0, 1}
        PROVE  ~Before(PlaceOf(d, g, s, t, v, w), Here')
    <3>1. v \in Nat \ {0}
        BY DEF Widths
    <3>2. Here' = PlaceOf(1, 1, 1, "float", 1, 0)
        BY <2>1 DEF Here, PlaceOf, Loops, Work, Call
    <3> QED BY <3>1, <3>2 DEF Before, PlaceOf
  <2>5. CompleteInv'
      BY <2>4 DEF CompleteInv, HasLines, PlaceOf
  <2> QED BY <2>2, <2>3, <2>5
<1>2. CASE BeginDevice \/ Exit
    BY <1>2, Stays DEF BeginDevice, Exit, Here, PlaceOf, Loops, Work, Call
<1>3. CASE BeginFunction
    BY <1>3, Stays DEF BeginFunction, Loop, Here, PlaceOf, Loops, Work, Call
<1>4. CASE WorkSizes \/ Halve \/ BeginCall
    BY <1>4, Stays DEF WorkSizes, Halve, BeginCall, Here, PlaceOf, Loops, Work, Call
<1>5. CASE GenKernel \/ Prepare \/ Launch \/ Check
  <2>1. pc \in Call /\ pc' \in {"repeat", "crash"} \cup Call
      BY <1>5 DEF GenKernel, Prepare, Launch, Check, Passes, Refused, ReturnError, Call
  <2>2. UNCHANGED <<request, machine, functions, i, f, j, type, vec, ws, table>>
      BY <1>5 DEF GenKernel, Prepare, Launch, Check
  <2> QED BY <2>1, <2>2, Stays DEF Here, PlaceOf, Loops, Work, Call
<1>6. CASE NextFunction
  <2>1. /\ i \in Nat /\ f \in Nat \ {0} /\ j \in Nat \ {0} /\ j > Len(request.sizes)
        /\ pc = "function" /\ pc' = "function" /\ pc \notin Loops
      BY <1>6 DEF NextFunction, TypeInv, Loops, Work, Call
  <2>2. Here = PlaceOf(i, f, j, "float", 1, 0) /\ Here' = PlaceOf(i, f + 1, 1, "float", 1, 0)
      BY <1>6, <2>1 DEF NextFunction, Here, PlaceOf
  <2>3. ASSUME NEW d \in 1..Len(machine), NEW g \in 1..Len(functions),
               NEW s \in 1..Len(request.sizes), NEW t \in {"float", "double"},
               NEW v \in Widths, NEW w \in {0, 1}, Before(PlaceOf(d, g, s, t, v, w), Here')
        PROVE  Before(PlaceOf(d, g, s, t, v, w), Here)
    <3>1. v \in Nat \ {0} /\ Len(request.sizes) \in Nat
        BY WidthsApart, Inputs
    <3> QED BY <2>1, <2>2, <2>3, <3>1 DEF Before, PlaceOf
  <2>4. Before(Here, Here')
      BY <2>1, <2>2 DEF Before, PlaceOf
  <2>5. UNCHANGED <<request, machine, functions, table>>
      BY <1>6 DEF NextFunction
  <2> QED BY <1>0, <2>1, <2>3, <2>4, <2>5, MovesOn
<1>7. CASE NextDevice
  <2>1. /\ i \in Nat /\ f \in Nat \ {0} /\ j \in Nat \ {0} /\ f > Len(functions)
        /\ pc = "function" /\ pc' = "device" /\ pc \notin Loops /\ pc' \notin Loops
      BY <1>7 DEF NextDevice, TypeInv, Loops, Work, Call
  <2>2. Here = PlaceOf(i, f, j, "float", 1, 0) /\ Here' = PlaceOf(i + 1, 1, 1, "float", 1, 0)
      BY <1>7, <2>1 DEF NextDevice, Here, PlaceOf
  <2>3. ASSUME NEW d \in 1..Len(machine), NEW g \in 1..Len(functions),
               NEW s \in 1..Len(request.sizes), NEW t \in {"float", "double"},
               NEW v \in Widths, NEW w \in {0, 1}, Before(PlaceOf(d, g, s, t, v, w), Here')
        PROVE  Before(PlaceOf(d, g, s, t, v, w), Here)
    <3>1. v \in Nat \ {0} /\ Len(functions) \in Nat
        BY <2>1, WidthsApart, Inputs
    <3> QED BY <2>1, <2>2, <2>3, <3>1 DEF Before, PlaceOf
  <2>4. Before(Here, Here')
      BY <2>1, <2>2 DEF Before, PlaceOf
  <2>5. UNCHANGED <<request, machine, functions, table>>
      BY <1>7 DEF NextDevice
  <2> QED BY <1>0, <2>1, <2>3, <2>4, <2>5, MovesOn
<1>8. CASE PrintError
  <2>1. /\ pc = "repeat" /\ NextVec /\ table' = Append(table, Line(NaN))
        /\ UNCHANGED <<request, machine, functions, i, f>>
      BY <1>8 DEF PrintError
  <2>2. Line(NaN) \in Lines
      BY <2>1, LineType DEF Loops, Work
  <2>3. pc' # "options" /\ pc # "options" /\ (pc' \in Loops => ws' = 0) /\ Before(Here, Here')
      BY <2>1, NextWidth
  <2>4. \A d \in 1..Len(machine), g \in 1..Len(functions),
           s \in 1..Len(request.sizes), t \in {"float", "double"}, v \in Widths,
           w \in {0, 1} :
          Due(g, t) /\ Before(PlaceOf(d, g, s, t, v, w), Here') =>
            \/ Before(PlaceOf(d, g, s, t, v, w), Here)
            \/ /\ <<d, g, s, t, v>> = <<i, f, j, type, vec>>
               /\ w = 1 => ws = 1 \/ NaN = NaN
      BY <2>1, NextWidth
  <2> QED BY <1>0, <2>1, <2>2, <2>3, <2>4, Prints
<1>9. CASE PrintLine
  <2>1. /\ pc = "repeat" /\ table' = Append(table, Line(time))
        /\ UNCHANGED <<request, machine, functions, i, f>>
      BY <1>9 DEF PrintLine
  <2>2. Line(time) \in Lines /\ time # NaN
      BY <2>1, LineType DEF Loops, Work, TypeInv, NaN
  <2>3. CASE ws = 0
    <3>1. /\ Here = PlaceOf(i, f, j, type, vec, 0) /\ Here' = PlaceOf(i, f, j, type, vec, 1)
          /\ pc' = "sizes"
        BY <1>9, <2>1, <2>3 DEF PrintLine, Loop, Here, PlaceOf, Loops, Work
    <3>2. i \in Nat /\ f \in Nat /\ j \in Nat /\ vec \in Nat /\ type \in {"float", "double"}
        BY DEF TypeInv, Vecs
    <3>3. Before(Here, Here') /\ SameWidth(Here, Here')
        BY <3>1 DEF Before, SameWidth, PlaceOf
    <3>4. \A d \in 1..Len(machine), g \in 1..Len(functions),
             s \in 1..Len(request.sizes), t \in {"float", "double"}, v \in Widths,
             w \in {0, 1} :
            Due(g, t) /\ Before(PlaceOf(d, g, s, t, v, w), Here') =>
              \/ Before(PlaceOf(d, g, s, t, v, w), Here)
              \/ /\ <<d, g, s, t, v>> = <<i, f, j, type, vec>>
                 /\ w = 1 => ws = 1 \/ time = NaN
        BY <3>1, <3>2 DEF Before, PlaceOf
    <3> QED BY <1>0, <2>1, <2>2, <2>3, <3>1, <3>3, <3>4, Prints
  <2>4. CASE ws = 1
    <3>1. NextVec
        BY <1>9, <2>4 DEF PrintLine
    <3>2. pc' # "options" /\ (pc' \in Loops => ws' = 0) /\ Before(Here, Here')
        BY <2>1, <3>1, NextWidth
    <3>3. \A d \in 1..Len(machine), g \in 1..Len(functions),
             s \in 1..Len(request.sizes), t \in {"float", "double"}, v \in Widths,
             w \in {0, 1} :
            Due(g, t) /\ Before(PlaceOf(d, g, s, t, v, w), Here') =>
              \/ Before(PlaceOf(d, g, s, t, v, w), Here)
              \/ /\ <<d, g, s, t, v>> = <<i, f, j, type, vec>>
                 /\ w = 1 => ws = 1 \/ time = NaN
        BY <2>1, <2>4, <3>1, NextWidth
    <3> QED BY <1>0, <2>1, <2>2, <3>2, <3>3, Prints
  <2> QED BY <2>3, <2>4 DEF TypeInv
<1> QED BY <1>1, <1>2, <1>3, <1>4, <1>5, <1>6, <1>7, <1>8, <1>9 DEF Main
-----------------------------------------------------------------------------
(* The work sizes.                                                         *)

\* Halving a power of two, but 1.
LEMMA HalfPower ==
    ASSUME NEW p \in Powers, p # 1, NEW g \in Nat
    PROVE  p \div 2 \in Powers /\ (g * p) \div 2 = g * (p \div 2)
<1>1. p \in {2, 4, 8, 16, 32, 64, 128, 256, 512, 1024}
    BY DEF Powers
<1>2. p \div 2 \in Powers /\ p = 2 * (p \div 2) /\ p \div 2 \in Nat
    BY <1>1 DEF Powers
<1> DEFINE h == p \div 2
<1>3. g * p = 2 * (g * h) /\ g * h \in Nat
    BY <1>2
<1> HIDE DEF h
<1>4. (2 * (g * h)) \div 2 = g * h
    BY <1>3
<1> QED BY <1>2, <1>3, <1>4 DEF h

\* Halving keeps the work sizes as they must be.
LEMMA HalveSizes ==
    ASSUME TypeInv, PlaceInv, SizeInv, Halve
    PROVE  SizeInv'
<1>1. pc = "halve" /\ pc \in Work /\ pc \in Loops
    BY DEF Halve, Work, Loops
<1>2. UNCHANGED <<request, machine, i, type, vec, ws>>
    BY DEF Halve, input, position
<1>3. /\ maxLocal' = maxLocal /\ Groups' = Groups /\ Bytes' = Bytes
      /\ FitsOnce' = FitsOnce
    BY <1>2 DEF maxLocal, Groups, Bytes, FitsOnce
<1>4. local \in Nat /\ global \in Nat /\ local <= global /\ ws = 1 /\ Groups \in Nat
    BY <1>1, AtWork DEF SizeInv, TypeInv
<1>5. CASE TooLarge
  <2>1. global' = global \div 2 /\ local' = local \div 2 /\ pc' = pc
      BY <1>5 DEF Halve
  <2>2. local' <= global'
      BY <1>4, <2>1
  <2>3. ASSUME FitsOnce
        PROVE  local' \in Powers /\ global' = Groups * local'
    <3>1. local \in Powers /\ global = Groups * local
        BY <1>1, <1>4, <2>3 DEF SizeInv
    <3>2. local # 1
      <4>1. SUFFICES ASSUME local = 1 PROVE FALSE
          OBVIOUS
      <4>2. global = Groups
          BY <1>4, <3>1, <4>1
      <4>3. (Groups + 2) * Bytes * vec <= machine[i].memory
          BY <2>3 DEF FitsOnce
      <4>4. (Groups + 2) * Bytes * vec \in Int /\ machine[i].memory \in Int
          BY <1>1, <1>4, AtWork
      <4>5. (Groups + 2) * Bytes * vec > machine[i].memory
          BY <1>5, <4>2 DEF TooLarge
      <4> QED BY <4>3, <4>4, <4>5
    <3> QED BY <1>4, <2>1, <3>1, <3>2, HalfPower
  <2> QED BY <1>1, <1>2, <1>3, <1>4, <2>1, <2>2, <2>3 DEF SizeInv
<1>6. CASE ~TooLarge
  <2>1. pc' = "repeat" /\ local' = local /\ global' = global
      BY <1>6 DEF Halve, sizing
  <2>2. TooLarge' = TooLarge
      BY <1>2, <1>3, <2>1 DEF TooLarge
  <2> QED BY <1>1, <1>2, <1>3, <1>4, <1>6, <2>1, <2>2 DEF SizeInv
<1> QED BY <1>5, <1>6

\* Each step keeps the work sizes as they must be.
LEMMA SizeStep ==
    ASSUME TypeInv, PlaceInv, SizeInv, Main
    PROVE  SizeInv'
<1> USE DEF Loops, Work, Call, input, position, sizing, budget
<1>1. CASE \/ ReadFunctions \/ BeginDevice \/ BeginFunction \/ NextFunction
           \/ NextDevice \/ Exit
    BY <1>1 DEF ReadFunctions, BeginDevice, BeginFunction, Loop, NextFunction, NextDevice,
                Exit, SizeInv
<1>2. CASE WorkSizes
  <2>1. pc \in Loops /\ ws \in {0, 1}
      BY <1>2 DEF WorkSizes, TypeInv
  <2>2. CASE ws = 0
      BY <1>2, <2>2 DEF WorkSizes, SizeInv
  <2>3. CASE ws = 1
    <3>1. local' = maxLocal /\ global' = maxGlobal /\ pc' = "halve" /\ ws' = 1
        BY <1>2, <2>3 DEF WorkSizes
    <3>2. maxLocal' = maxLocal /\ Groups' = Groups
        BY <1>2 DEF WorkSizes, maxLocal, Groups
    <3>3. maxLocal \in Nat /\ Groups \in Nat \ {0} /\ maxGlobal = Groups * maxLocal
        BY <2>1, AtWork
    <3>4. Groups * maxLocal >= maxLocal
      <4>1. PICK n \in Nat : Groups = n + 1
          BY <3>3
      <4>2. Groups * maxLocal = (n * maxLocal) + maxLocal /\ n * maxLocal \in Nat
          BY <3>3, <4>1
      <4> QED BY <3>3, <4>2
    <3>5. FitsOnce' => maxLocal \in Powers
        BY <3>2 DEF FitsOnce
    <3> QED BY <3>1, <3>2, <3>3, <3>4, <3>5 DEF SizeInv
  <2> QED BY <2>1, <2>2, <2>3
<1>3. CASE Halve
    BY <1>3, HalveSizes
<1>4. CASE BeginCall \/ GenKernel \/ Prepare \/ Launch \/ Check
  <2>1. pc \in Work /\ pc # "halve" /\ pc' # "halve"
      BY <1>4 DEF BeginCall, GenKernel, Prepare, Launch, Check, Passes, Refused, ReturnError
  <2>2. UNCHANGED <<request, machine, i, type, vec, ws, local, global>>
      BY <1>4 DEF BeginCall, GenKernel, Prepare, Launch, Check
  <2>3. Groups' = Groups /\ TooLarge' = TooLarge /\ FitsOnce' = FitsOnce
      BY <2>2 DEF maxLocal, Groups, Bytes, FitsOnce, TooLarge
  <2> QED BY <2>1, <2>2, <2>3 DEF SizeInv
<1>5. CASE PrintError
  <2>1. pc' \in {"function", "sizes"}
      BY <1>5, MoveType DEF PrintError
  <2> QED BY <2>1 DEF SizeInv
<1>6. CASE PrintLine
  <2>1. pc' \in {"function", "sizes"}
      BY <1>6, MoveType DEF PrintLine, Loop
  <2> QED BY <2>1 DEF SizeInv
<1> QED BY <1>1, <1>2, <1>3, <1>4, <1>5, <1>6 DEF Main

\* Then halving is exact.
LEMMA SizesLegal ==
    ASSUME TypeInv, PlaceInv, SizeInv
    PROVE  PowersStayLegal
<1> SUFFICES ASSUME pc = "repeat", ws = 1, maxLocal \in Powers,
                    ((maxGlobal \div maxLocal) + 2) * Bytes * vec <= machine[i].memory
             PROVE  LegalLaunch /\ global \div local = maxGlobal \div maxLocal /\ ~TooLarge
    BY DEF PowersStayLegal, Powers
<1>1. pc \in Loops /\ pc \in Work /\ pc # "halve"
    BY DEF Loops, Work
<1>2. Groups \in Nat \ {0} /\ maxGlobal = Groups * maxLocal
    BY <1>1, AtWork
<1>3. \A p \in Powers : /\ (Groups * p) \div p = Groups /\ (Groups * p) % p = 0
                        /\ Groups * p > 0 /\ p > 0
    BY <1>2 DEF Powers
<1>4. maxGlobal \div maxLocal = Groups
    BY <1>2, <1>3
<1>5. FitsOnce
    BY <1>4 DEF FitsOnce
<1>6. local \in Powers /\ global = Groups * local /\ ~TooLarge
    BY <1>1, <1>5 DEF SizeInv
<1> QED BY <1>3, <1>4, <1>6 DEF LegalLaunch
-----------------------------------------------------------------------------
(* The checks.                                                             *)

\* The results of functions that are exact are numbers.
LEMMA CountedIsExact ==
    Counted => exact /\ request.checks /\ fct = "vec" /\ size <= Whole
BY DEF Counted, exact, Exact

\* A check that passes shows that the operations were made.
LEMMA PassTells ==
    ASSUME TypeInv, PlaceInv, CheckInv, Check, Passes, Counted
    PROVE  ~hit /\ OpsMade(fct, size) = size
<1>1. pc = "check" /\ pc \in Loops
    BY DEF Check, Loops, Work, Call
<1>2. exact /\ request.checks /\ fct = "vec" /\ size \in 0..Whole
  <2>1. size \in Nat /\ Whole \in Nat
      BY <1>1, AtWork, KernelAssumption
  <2> QED BY <2>1, CountedIsExact
<1>3. Expected(fct, vec, size) = result
    BY <1>2 DEF Passes, Differs
<1>4. /\ Result(fct, vec, size) = 1 - OpsMade(fct, size)
      /\ Expected(fct, vec, size) = 1 - size
  <2> DEFINE n == size
  <2>1. n \in 0..Whole
      BY <1>2
  <2> HIDE DEF n
  <2>2. Result("vec", vec, n) = 1 - OpsMade("vec", n) /\ Expected("vec", vec, n) = 1 - n
      BY <2>1, CountdownTells
  <2> QED BY <1>2, <2>2 DEF n
<1>5. OpsMade(fct, size) \in 0..size /\ size \in Nat
  <2> DEFINE n == size
             g == fct
  <2>1. n \in Nat
      BY <1>1, AtWork
  <2> HIDE DEF n, g
  <2>2. OpsMade(g, n) \in 0..n
      BY <2>1, OpsBound
  <2> QED BY <2>1, <2>2 DEF n, g
<1>6. \/ result = Result(fct, vec, size)
      \/ hit /\ result = Result(fct, vec, size) + 2
    BY <1>1, <1>2 DEF CheckInv
<1>7. hit => result = Result(fct, vec, size) + 2
    BY <1>1 DEF CheckInv
<1>8. result # Result(fct, vec, size) + 2
    BY <1>3, <1>4, <1>5
<1> QED BY <1>3, <1>4, <1>5, <1>6, <1>7, <1>8

\* A result refused though nothing failed has a cause.
LEMMA RefusedHasCause ==
    ASSUME TypeInv, PlaceInv, CheckInv, pc = "check", Refused, exact, ~hit
    PROVE  \/ size % Unroll(fct) # 0
           \/ size \div Unroll(fct) >= UIntMod
<1>1. size \in Nat /\ vec \in Nat
    BY AtWork DEF Loops, Work, Call
<1>2. result = Result(fct, vec, size)
    BY DEF CheckInv
<1>3. Expected(fct, vec, size) # result
    BY DEF Refused, Differs
<1> DEFINE g == fct
           n == size
           w == vec
<1>4. n \in Nat /\ w \in Nat
    BY <1>1
<1> HIDE DEF g, n, w
<1>5. n % Unroll(g) = 0 /\ ~(n \div Unroll(g) >= UIntMod) => Expected(g, w, n) = Result(g, w, n)
    BY <1>4, ExpectedIsResult
<1> QED BY <1>2, <1>3, <1>5 DEF g, n, w

\* What a line would say of the causes.
LEMMA CauseOf ==
    \A x : Cause(Line(x)) <=>
             \/ size % Unroll(fct) # 0
             \/ size \div Unroll(fct) >= UIntMod
             \/ local = 0 \/ global % local # 0
             \/ fct \notin {"vec", "vliw"} /\ vec > 16
             \/ Overruns(fct, type, vec)
BY DEF Cause, Line

\* Nothing but the stage of a call changes.
LEMMA CallStays ==
    ASSUME UNCHANGED <<request, machine, functions, i, f, j, type, vec, ws, local, global>>
    PROVE  /\ fct' = fct /\ size' = size /\ exact' = exact /\ Counted' = Counted
           /\ OpsMade(fct, size)' = OpsMade(fct, size)
           /\ Result(fct, vec, size)' = Result(fct, vec, size)
           /\ Cause(Line(NaN))' <=> Cause(Line(NaN))
<1>1. fct' = fct /\ size' = size
    BY DEF fct, size
<1>2. exact' = exact /\ Counted' = Counted
    BY <1>1 DEF exact, Counted
<1>3. Line(NaN)' = [Line(NaN) EXCEPT !.hit = hit']
    BY <1>1, <1>2 DEF Line, NaN
<1> QED BY <1>1, <1>2, <1>3 DEF Cause, Line

\* An error has a cause or a failure, and a repeat that passes has neither.
LEMMA CheckStep ==
    ASSUME TypeInv, PlaceInv, SizeInv, CheckInv, Main
    PROVE  CheckInv'
<1> USE DEF Loops, Work, Call, input, position, sizing, budget
<1>0. err \in {0, 1} /\ hit \in BOOLEAN /\ k \in Nat
    BY DEF TypeInv
<1>1. CASE \/ ReadFunctions \/ BeginDevice \/ BeginFunction \/ NextFunction
           \/ NextDevice \/ Exit
  <2>1. pc # "repeat" /\ pc' \notin Work /\ err' = err
      BY <1>1 DEF ReadFunctions, BeginDevice, BeginFunction, Loop, NextFunction, NextDevice, Exit
  <2> QED BY <1>0, <2>1 DEF CheckInv
<1>2. CASE WorkSizes
    BY <1>0, <1>2 DEF WorkSizes, CheckInv
<1>3. CASE Halve
  <2>1. /\ pc = "halve" /\ pc' \in {"halve", "repeat"} /\ err' = 0
        /\ UNCHANGED <<err, hit, k, result>>
      BY <1>0, <1>3 DEF Halve, CheckInv
  <2>2. UNCHANGED <<request, machine, functions, i, f, j, type, vec, ws>>
      BY <1>3 DEF Halve
  <2>3. /\ fct' = fct /\ size' = size /\ Counted' = Counted
        /\ OpsMade(fct, size)' = OpsMade(fct, size)
      BY <2>2 DEF Counted, fct, size
  <2>4. Counted => ~hit
      BY <2>1 DEF CheckInv
  <2>5. k > 0 /\ Counted => OpsMade(fct, size) = size
      BY <2>1 DEF CheckInv
  <2>6. hit' = hit /\ k' = k
      BY <2>1
  <2> QED BY <2>1, <2>3, <2>4, <2>5, <2>6 DEF CheckInv
<1>4. CASE BeginCall \/ GenKernel \/ Prepare \/ Launch \/ Check
  <2>1. UNCHANGED <<request, machine, functions, i, f, j, type, vec, ws, local, global>>
      BY <1>4 DEF BeginCall, GenKernel, Prepare, Launch, Check
  <2>2. /\ fct' = fct /\ size' = size /\ exact' = exact /\ Counted' = Counted
        /\ OpsMade(fct, size)' = OpsMade(fct, size)
        /\ Result(fct, vec, size)' = Result(fct, vec, size)
        /\ Cause(Line(NaN))' <=> Cause(Line(NaN))
      BY <2>1, CallStays
  <2>3. err = 0 /\ pc \in Work
      BY <1>0, <1>4 DEF BeginCall, GenKernel, Prepare, Launch, Check, CheckInv
  <2>4. CASE BeginCall
    <3>1. /\ pc = "repeat" /\ pc' \in {"crash", "generate"} /\ err' = 0
          /\ UNCHANGED <<hit, k>>
        BY <2>3, <2>4 DEF BeginCall
    <3> QED BY <2>2, <2>3, <3>1 DEF CheckInv
  <2>5. CASE GenKernel
    <3>1. k' = k /\ pc = "generate"
        BY <2>5 DEF GenKernel
    <3>2. CASE pc' = "prepare" /\ UNCHANGED <<err, budget>>
        BY <2>2, <2>3, <3>1, <3>2 DEF CheckInv
    <3>3. CASE /\ pc' = "repeat" /\ err' = 1
               /\ IF BadType \/ local = 0 \/ Overruns(fct, type, vec)
                  THEN UNCHANGED budget ELSE Fails
      <4>1. ~hit' => BadType \/ local = 0 \/ Overruns(fct, type, vec)
          BY <3>3 DEF Fails
      <4>2. ~hit' => Cause(Line(NaN))'
          BY <2>2, <4>1, CauseOf DEF BadType
      <4> QED BY <2>2, <2>3, <3>1, <3>3, <4>2 DEF CheckInv
    <3>4. CASE pc' = "crash" /\ UNCHANGED <<err, budget>>
        BY <2>2, <2>3, <3>1, <3>4 DEF CheckInv
    <3> QED BY <2>5, <3>2, <3>3, <3>4 DEF GenKernel, ReturnError
  <2>6. CASE Prepare
    <3>1. k' = k /\ pc = "prepare"
        BY <2>6 DEF Prepare
    <3>2. CASE pc' = "launch" /\ UNCHANGED <<err, budget>>
        BY <2>2, <2>3, <3>1, <3>2 DEF CheckInv
    <3>3. CASE pc' = "repeat" /\ err' = 1 /\ hit' = TRUE
        BY <2>2, <2>3, <3>1, <3>3 DEF CheckInv
    <3> QED BY <2>6, <3>2, <3>3 DEF Prepare, ReturnError, Fails
  <2>7. CASE Launch
    <3>1. k' = k /\ pc = "launch"
        BY <2>7 DEF Launch
    <3>2. CASE /\ pc' = "check" /\ err' = err
               /\ IF exact
                  THEN \/ result' = Result(fct, vec, size) /\ UNCHANGED budget
                       \/ result' = Result(fct, vec, size) + 2 /\ Fails
                  ELSE UNCHANGED <<result, budget>>
      <4>1. exact => \/ result' = Result(fct, vec, size) /\ hit' = hit
                     \/ result' = Result(fct, vec, size) + 2 /\ hit'
          BY <3>2 DEF Fails
      <4>2. Counted => exact /\ ~hit
          BY <2>3, <3>1, CountedIsExact DEF CheckInv
      <4> QED BY <2>2, <2>3, <3>1, <3>2, <4>1, <4>2 DEF CheckInv
    <3>3. CASE pc' = "repeat" /\ err' = 1 /\ ~LegalLaunch /\ UNCHANGED <<result, budget>>
      <4>1. local = 0 \/ global % local # 0
        <5>1. local \in Nat /\ global \in Nat /\ local <= global
            BY <2>3 DEF SizeInv, TypeInv
        <5> QED BY <3>3, <5>1 DEF LegalLaunch
      <4>2. Cause(Line(NaN))'
          BY <2>2, <4>1, CauseOf
      <4> QED BY <2>2, <2>3, <3>1, <3>3, <4>2 DEF CheckInv
    <3>4. CASE pc' = "repeat" /\ err' = 1 /\ hit' = TRUE
        BY <2>2, <2>3, <3>1, <3>4 DEF CheckInv
    <3> QED BY <2>7, <3>2, <3>3, <3>4 DEF Launch, ReturnError, Fails
  <2>8. CASE Check
    <3>1. pc = "check" /\ hit' = hit
        BY <2>8 DEF Check
    <3>2. CASE Passes
      <4>1. pc' = "repeat" /\ k' = k + 1 /\ err' = 0
          BY <2>3, <3>2 DEF Passes
      <4>2. Counted => ~hit /\ OpsMade(fct, size) = size
          BY <2>8, <3>2, PassTells
      <4> QED BY <2>2, <2>3, <3>1, <4>1, <4>2 DEF CheckInv
    <3>3. CASE Refused
      <4>1. pc' = "repeat" /\ k' = k /\ err' = 1
          BY <3>3 DEF Refused, ReturnError
      <4>2. exact /\ ~hit => Cause(Line(NaN))
          BY <3>1, <3>3, RefusedHasCause, CauseOf
      <4> QED BY <2>2, <2>3, <3>1, <4>1, <4>2 DEF CheckInv
    <3> QED BY <2>8, <3>2, <3>3 DEF Check
  <2> QED BY <1>4, <2>4, <2>5, <2>6, <2>7, <2>8
<1>5. CASE PrintError
  <2>1. pc' \in {"function", "sizes"} /\ err' = 0
      BY <1>5, MoveType DEF PrintError
  <2> QED BY <2>1 DEF CheckInv
<1>6. CASE PrintLine
  <2>1. pc' \in {"function", "sizes"} /\ err' = 0
      BY <1>6, MoveType DEF PrintLine, Loop
  <2> QED BY <2>1 DEF CheckInv
<1> QED BY <1>1, <1>2, <1>3, <1>4, <1>5, <1>6 DEF Main
-----------------------------------------------------------------------------
(* What the lines say.                                                     *)

\* A line added says what it must.
LEMMA LineSays ==
    ASSUME MainInv, NEW x, Line(x) \in Lines, table' = Append(table, Line(x)),
           request' = request,
           x = NaN /\ ~hit /\ exact => Cause(Line(x)),
           Counted /\ x # NaN => OpsMade(fct, size) = size /\ ~hit
    PROVE  AlarmHasACause' /\ CheckedMeansPerformed'
<1> USE DEF MainInv
<1>1. /\ Len(table) \in Nat /\ Len(table') = Len(table) + 1
      /\ \A n \in 1..Len(table) : table'[n] = table[n]
      /\ table'[Len(table) + 1] = Line(x)
      /\ \A n \in 1..Len(table') : n \in 1..Len(table) \/ n = Len(table) + 1
    BY NewLine
<1> DEFINE Alarm(l) == l.time = NaN /\ ~l.hit /\ l.exact => Cause(l)
           Made(l)  == request.checks /\ l.fct = "vec" /\ l.time # NaN /\ l.size <= Whole =>
                         l.made = l.size /\ ~l.hit
<1>2. AlarmHasACause <=> \A n \in 1..Len(table) : Alarm(table[n])
    BY DEF AlarmHasACause, Cause
<1>3. AlarmHasACause' <=> \A n \in 1..Len(table') : Alarm(table'[n])
    BY DEF AlarmHasACause, Cause
<1>4. CheckedMeansPerformed <=> \A n \in 1..Len(table) : Made(table[n])
    BY DEF CheckedMeansPerformed
<1>5. CheckedMeansPerformed' <=> \A n \in 1..Len(table') : Made(table'[n])
    BY DEF CheckedMeansPerformed
<1>6. Alarm(Line(x))
  <2>1. Line(x).time = x /\ Line(x).hit = hit /\ Line(x).exact = exact
      BY DEF Line
  <2> QED BY <2>1
<1>7. Made(Line(x))
  <2>1. /\ Line(x).time = x /\ Line(x).hit = hit /\ Line(x).fct = fct
        /\ Line(x).size = size /\ Line(x).made = OpsMade(fct, size)
      BY DEF Line
  <2> QED BY <2>1 DEF Counted
<1> HIDE DEF Alarm, Made
<1> QED BY <1>1, <1>2, <1>3, <1>4, <1>5, <1>6, <1>7

\* Each line printed says what it must.
LEMMA SaysStep ==
    ASSUME MainInv, Main
    PROVE  AlarmHasACause' /\ CheckedMeansPerformed'
<1> USE DEF MainInv
<1>1. CASE PrintError
  <2>1. pc = "repeat" /\ err = 1 /\ table' = Append(table, Line(NaN)) /\ request' = request
      BY <1>1 DEF PrintError, input, TypeInv
  <2>2. Line(NaN) \in Lines
      BY <2>1, LineType DEF Loops, Work
  <2>3. ~hit /\ exact => Cause(Line(NaN))
      BY <2>1 DEF CheckInv
  <2> QED BY <2>1, <2>2, <2>3, LineSays
<1>2. CASE PrintLine
  <2>1. /\ pc = "repeat" /\ err = 0 /\ table' = Append(table, Line(time))
        /\ request' = request /\ k = request.repeats
      BY <1>2 DEF PrintLine, input
  <2>2. Line(time) \in Lines
      BY <2>1, LineType DEF Loops, Work, TypeInv
  <2>3. time # NaN
      BY DEF TypeInv, NaN
  <2>4. k > 0
      BY <2>1, Inputs
  <2>5. Counted => OpsMade(fct, size) = size /\ ~hit
      BY <2>1, <2>4 DEF CheckInv, Work
  <2> QED BY <2>1, <2>2, <2>3, <2>5, LineSays
<1>3. CASE ~PrintError /\ ~PrintLine
  <2>1. table' = table
      BY <1>3 DEF Main, ReadFunctions, BeginDevice, BeginFunction, NextFunction, NextDevice,
                  Exit, WorkSizes, Halve, BeginCall, GenKernel, Prepare, Launch, Check
  <2>2. request' = request
      BY <1>3 DEF Main, ReadFunctions, BeginDevice, BeginFunction, NextFunction, NextDevice,
                  Exit, WorkSizes, Halve, BeginCall, GenKernel, Prepare, Launch, Check, input
  <2>3. AlarmHasACause'
      BY <2>1 DEF AlarmHasACause
  <2>4. CheckedMeansPerformed'
      BY <2>1, <2>2 DEF CheckedMeansPerformed
  <2> QED BY <2>3, <2>4
<1> QED BY <1>1, <1>2, <1>3
-----------------------------------------------------------------------------
(* What is held.                                                           *)

\* No line is taken back, and only the stages of a call are left with an
\* error.
LEMMA StillNone ==
    ASSUME MainInv, Main, NoErrors'
    PROVE  /\ NoErrors
           /\ ~PrintError
<1> USE DEF MainInv
<1>1. Len(table) \in Nat
    BY LenProperties DEF TypeInv
<1>2. CASE PrintError
  <2>1. pc = "repeat" /\ table' = Append(table, Line(NaN))
      BY <1>2 DEF PrintError
  <2>2. /\ Len(table') = Len(table) + 1 /\ table'[Len(table) + 1] = Line(NaN)
      BY <2>1, LineType, NewLine DEF Loops, Work
  <2>3. Len(table) + 1 \in 1..Len(table') /\ Line(NaN).time = NaN
      BY <1>1, <2>2 DEF Line
  <2> QED BY <2>2, <2>3 DEF NoErrors
<1>3. CASE PrintLine
  <2>1. pc = "repeat" /\ table' = Append(table, Line(time)) /\ err = 0
      BY <1>3 DEF PrintLine
  <2>2. Line(time) \in Lines
      BY <2>1, LineType DEF Loops, Work, TypeInv
  <2>3. Len(table') = Len(table) + 1 /\ \A n \in 1..Len(table) : table'[n] = table[n]
      BY <2>1, <2>2, NewLine
  <2>4. ~PrintError
      BY <2>1 DEF PrintError
  <2> QED BY <1>1, <2>1, <2>3, <2>4 DEF NoErrors
<1>4. CASE ~PrintError /\ ~PrintLine
  <2>1. table' = table
      BY <1>4 DEF Main, ReadFunctions, BeginDevice, BeginFunction, NextFunction, NextDevice,
                  Exit, WorkSizes, Halve, BeginCall, GenKernel, Prepare, Launch, Check
  <2>2. err = 0
    <3>1. pc # "repeat" \/ BeginCall
        BY <1>4 DEF Main, ReadFunctions, BeginDevice, BeginFunction, NextFunction, NextDevice,
                    Exit, WorkSizes, Halve, BeginCall, GenKernel, Prepare, Launch, Check
    <3> QED BY <3>1 DEF BeginCall, CheckInv, TypeInv
  <2> QED BY <1>4, <2>1, <2>2 DEF NoErrors
<1> QED BY <1>2, <1>3, <1>4

\* What is held grows with the devices and shrinks to what it was.
LEMMA HeldStep ==
    ASSUME MainInv, Main
    PROVE  HeldInv'
<1> USE DEF MainInv, Loops, Work, Call, input, position, sizing, budget
<1> SUFFICES ASSUME NoErrors'
             PROVE  HeldInv'
    BY DEF HeldInv
<1>0. NoErrors /\ ~PrintError /\ err' = 0
    BY StillNone DEF NoErrors
<1>1. i \in Nat \ {0} /\ (pc = "options" => i = 1)
    BY DEF TypeInv
<1>2. CASE ReadFunctions
  <2>1. held' = held /\ i' = i /\ pc = "options" /\ pc' = "device"
      BY <1>2 DEF ReadFunctions
  <2> QED BY <1>0, <2>1 DEF HeldInv
<1>3. CASE BeginDevice
  <2>1. CASE /\ held' = held \cup {<<"info", i>>, <<"context", i>>, <<"queue", i>>}
             /\ pc' = "function"
    <3>1. i' = i /\ pc = "device"
        BY <1>3 DEF BeginDevice
    <3>2. held = ({"info"} \X (1..(i - 1))) \cup ({"context"} \X (1..(i - 1)))
        BY <1>0, <3>1 DEF HeldInv
    <3>3. /\ {"info"} \X (1..i) = ({"info"} \X (1..(i - 1))) \cup {<<"info", i>>}
          /\ {"context"} \X (1..i) = ({"context"} \X (1..(i - 1))) \cup {<<"context", i>>}
        BY <1>1
    <3>4. Acquired' = {}
        BY <2>1 DEF Acquired
    <3>5. held' = ({"info"} \X (1..i)) \cup ({"context"} \X (1..i)) \cup {<<"queue", i>>}
        BY <2>1, <3>2, <3>3
    <3> QED BY <2>1, <3>1, <3>4, <3>5 DEF HeldInv
  <2>2. CASE pc' = "exit"
    <3>1. i' = i /\ i <= Len(machine) /\ machine' = machine /\ Len(machine) \in Nat
        BY <1>3, Inputs DEF BeginDevice
    <3> QED BY <1>1, <2>2, <3>1 DEF HeldInv
  <2> QED BY <1>3, <2>1, <2>2 DEF BeginDevice
<1>4. CASE BeginFunction \/ NextFunction \/ WorkSizes \/ Halve \/ BeginCall \/ PrintLine
  <2>1. held' = held /\ i' = i
      BY <1>4 DEF BeginFunction, NextFunction, WorkSizes, Halve, BeginCall, PrintLine
  <2>2. pc \in {"function", "sizes", "halve", "repeat"}
      BY <1>4 DEF BeginFunction, NextFunction, WorkSizes, Halve, BeginCall, PrintLine
  <2>3. pc' \in {"function", "sizes", "halve", "repeat", "generate", "crash"}
      BY <1>4, MoveType
         DEF BeginFunction, NextFunction, WorkSizes, Halve, BeginCall, PrintLine, Loop
  <2>4. Acquired = {} /\ Acquired' = {}
      BY <2>2, <2>3 DEF Acquired
  <2>5. held = ({"info"} \X (1..i)) \cup ({"context"} \X (1..i)) \cup {<<"queue", i>>}
      BY <1>0, <2>2, <2>4 DEF HeldInv
  <2> QED BY <2>1, <2>3, <2>4, <2>5 DEF HeldInv
<1>5. CASE GenKernel \/ Prepare \/ Launch \/ Check
  <2> DEFINE Base == ({"info"} \X (1..i)) \cup ({"context"} \X (1..i)) \cup {<<"queue", i>>}
  <2>1. /\ i' = i /\ calls' = calls /\ pc \in Call
        /\ \A objects : Own(objects)' = Own(objects)
      BY <1>5 DEF GenKernel, Prepare, Launch, Check, Own
  <2>2. held = Base \cup Acquired
      BY <1>0, <2>1 DEF HeldInv
  <2>3. \/ GenKernel /\ held' = held \cup Own({"data", "results", "kernel"}) /\ pc' = "prepare"
        \/ Prepare /\ held' = held \cup Own({"input", "output"}) /\ pc' = "launch"
        \/ Launch /\ held' = held \cup Own({"event"}) /\ pc' = "check"
        \/ Check /\ Return /\ pc' = "repeat"
        \/ pc' = "crash"
      BY <1>0, <1>5 DEF GenKernel, Prepare, Launch, Check, Passes, Refused, ReturnError
  <2>4. \/ held' = Base \cup Acquired' /\ pc' \in {"prepare", "launch", "check", "repeat"}
        \/ pc' = "crash"
    <3>1. CASE GenKernel /\ held' = held \cup Own({"data", "results", "kernel"})
                         /\ pc' = "prepare"
      <4>1. Acquired = {} /\ Acquired' = Own({"data", "results", "kernel"})
          BY <2>1, <3>1 DEF GenKernel, Acquired, Own
      <4> HIDE DEF Base
      <4> QED BY <2>2, <3>1, <4>1
    <3>2. CASE Prepare /\ held' = held \cup Own({"input", "output"}) /\ pc' = "launch"
      <4>1. /\ Acquired = Own({"data", "results", "kernel"})
            /\ Acquired' = Own({"data", "results", "kernel", "input", "output"})
          BY <2>1, <3>2 DEF Prepare, Acquired, Own
      <4>2. Own({"data", "results", "kernel"}) \cup Own({"input", "output"})
              = Own({"data", "results", "kernel", "input", "output"})
          BY DEF Own
      <4> HIDE DEF Base
      <4> QED BY <2>2, <3>2, <4>1, <4>2
    <3>3. CASE Launch /\ held' = held \cup Own({"event"}) /\ pc' = "check"
      <4>1. /\ Acquired = Own({"data", "results", "kernel", "input", "output"})
            /\ Acquired' = Own({"data", "results", "kernel", "input", "output", "event"})
          BY <2>1, <3>3 DEF Launch, Acquired, Own
      <4>2. Own({"data", "results", "kernel", "input", "output"}) \cup Own({"event"})
              = Own({"data", "results", "kernel", "input", "output", "event"})
          BY DEF Own
      <4> HIDE DEF Base
      <4> QED BY <2>2, <3>3, <4>1, <4>2
    <3>4. CASE Check /\ Return /\ pc' = "repeat"
      <4>1. /\ Acquired = Own({"data", "results", "kernel", "input", "output", "event"})
            /\ Acquired' = {}
          BY <3>4 DEF Check, Acquired
      <4>2. Base \cap Own({"data", "results", "kernel", "input", "output", "event"}) = {}
        <5>1. \A h \in Base : h[1] \in {"info", "context", "queue"}
            OBVIOUS
        <5>2. \A h \in Own({"data", "results", "kernel", "input", "output", "event"}) :
                h[1] \in {"data", "results", "kernel", "input", "output", "event"}
            BY DEF Own
        <5> HIDE DEF Base
        <5> QED BY <5>1, <5>2
      <4> HIDE DEF Base
      <4> QED BY <2>2, <3>4, <4>1, <4>2 DEF Return
    <3> QED BY <2>3, <3>1, <3>2, <3>3, <3>4
  <2> QED BY <2>1, <2>4 DEF HeldInv
<1>6. CASE NextDevice
  <2>1. pc = "function" /\ pc' = "device" /\ i' = i + 1 /\ held' = held \ {<<"queue", i>>}
      BY <1>6 DEF NextDevice
  <2>2. Acquired = {}
      BY <2>1 DEF Acquired
  <2>3. held = ({"info"} \X (1..i)) \cup ({"context"} \X (1..i)) \cup {<<"queue", i>>}
      BY <1>0, <2>1, <2>2 DEF HeldInv
  <2>4. held' = ({"info"} \X (1..i)) \cup ({"context"} \X (1..i))
      BY <2>1, <2>3
  <2> QED BY <1>1, <2>1, <2>4 DEF HeldInv
<1>7. CASE Exit
  <2>1. pc = "device" /\ pc' = "exit" /\ i' = i /\ held' = held \ {<<"context", i - 1>>}
      BY <1>7 DEF Exit
  <2>2. held = ({"info"} \X (1..(i - 1))) \cup ({"context"} \X (1..(i - 1)))
      BY <1>0, <2>1 DEF HeldInv
  <2>3. 1..(i - 2) = (1..(i - 1)) \ {i - 1}
      BY <1>1
  <2>4. held' = ({"info"} \X (1..(i - 1))) \cup ({"context"} \X (1..(i - 2)))
      BY <2>1, <2>2, <2>3
  <2> QED BY <2>1, <2>4 DEF HeldInv
<1> QED BY <1>0, <1>2, <1>3, <1>4, <1>5, <1>6, <1>7 DEF Main
-----------------------------------------------------------------------------
(* The theorems.                                                           *)

\* The invariant holds at the start.
LEMMA MainStart ==
    ASSUME Init
    PROVE  MainInv
<1> USE DEF Init
<1>1. TypeInv
  <2>1. hit \in BOOLEAN
      BY Zenon
  <2>2. table \in Seq(Lines)
      BY EmptySeq
  <2> QED BY <2>1, <2>2 DEF TypeInv, Vecs
<1>2. PlaceInv
  <2>1. Len(machine) \in Nat
      BY <1>1, Inputs
  <2> QED BY <2>1 DEF PlaceInv, Loops, Work, Call
<1>3. OrderInv /\ DueInv /\ CompleteInv
  <2>1. Len(table) = 0
      OBVIOUS
  <2> QED BY <2>1 DEF OrderInv, DueInv, CompleteInv, Loops, Work, Call
<1>4. SizeInv /\ CheckInv
    BY DEF SizeInv, CheckInv, Loops, Work, Call
<1>5. HeldInv
  <2>1. 1..(i - 1) = {}
      OBVIOUS
  <2>2. held = ({"info"} \X (1..(i - 1))) \cup ({"context"} \X (1..(i - 1)))
      BY <2>1
  <2> QED BY <2>2 DEF HeldInv, Loops, Work, Call
<1>6. AlarmHasACause /\ CheckedMeansPerformed
  <2>1. Len(table) = 0
      OBVIOUS
  <2> QED BY <2>1 DEF AlarmHasACause, CheckedMeansPerformed
<1> QED BY <1>1, <1>2, <1>3, <1>4, <1>5, <1>6 DEF MainInv

\* Each step keeps the invariant.
LEMMA MainStep ==
    ASSUME MainInv, [Next]_vars
    PROVE  MainInv'
<1>1. CASE Main
    BY <1>1, TypeStep, PlaceStep, LinesStep, SizeStep, CheckStep, HeldStep, SaysStep
       DEF MainInv
<1>2. CASE UNCHANGED vars
  <2> USE <1>2 DEF MainInv, vars, input, position, sizing, budget
  <2>1. fct' = fct /\ size' = size /\ exact' = exact
      BY DEF fct, size, exact
  <2>2. TypeInv'
      BY DEF TypeInv
  <2>3. PlaceInv'
      BY <2>1 DEF PlaceInv, Due
  <2>4. Here' = Here
      BY DEF Here, PlaceOf
  <2>5. OrderInv' /\ DueInv' /\ CompleteInv'
    <3>1. OrderInv'
        BY <2>4 DEF OrderInv
    <3>2. DueInv'
        BY <2>4 DEF DueInv, Due
    <3>3. CompleteInv'
      <4>1. CASE pc = "options"
          BY <4>1 DEF CompleteInv
      <4>2. CASE pc # "options"
        <5>1. pc' # "options" /\ (pc' \in Loops /\ ws' = 1 => pc \in Loops /\ ws = 1)
            BY <4>2
        <5> QED BY <2>4, <4>2, <5>1, Stays
      <4> QED BY <4>1, <4>2
    <3> QED BY <3>1, <3>2, <3>3
  <2>6. SizeInv'
      BY DEF SizeInv, FitsOnce, Groups, maxLocal, Bytes, TooLarge
  <2>7. CheckInv'
    <3>1. Counted' = Counted /\ Cause(Line(NaN))' = Cause(Line(NaN))
        BY <2>1 DEF Counted, Cause, Line
    <3> QED BY <2>1, <3>1 DEF CheckInv
  <2>8. HeldInv'
      BY DEF HeldInv, NoErrors, Acquired, Own
  <2>9. AlarmHasACause' /\ CheckedMeansPerformed'
      BY DEF AlarmHasACause, CheckedMeansPerformed
  <2> QED BY <2>2, <2>3, <2>5, <2>6, <2>7, <2>8, <2>9
<1> QED BY <1>1, <1>2 DEF Next

\* It always holds.
LEMMA Always == Spec => []MainInv
BY MainStart, MainStep, PTL DEF Spec

\* The lines are ordered, due and complete.
LEMMA LinesFollow ==
    ASSUME MainInv
    PROVE  LinesFollowTheRequest
<1> USE DEF MainInv
<1>1. \A n \in 1..(Len(table) - 1) : Before(table[n], table[n + 1])
    BY DEF OrderInv
<1>2. ASSUME pc = "exit", i > Len(machine),
             NEW d \in 1..Len(machine), NEW g \in 1..Len(functions),
             NEW s \in 1..Len(request.sizes), NEW t \in {"float", "double"}, NEW v \in Widths
      PROVE  /\ (Printed(d, g, s, t, v, 0) # {}) <=> Due(g, t)
             /\ (Printed(d, g, s, t, v, 1) # {}) <=> (Due(g, t) /\ ~Failed(d, g, s, t, v))
  <2>1. \A w : Before(PlaceOf(d, g, s, t, v, w), Here)
    <3>1. Here.device = i /\ i \in Nat /\ Len(machine) \in Nat
        BY Inputs DEF Here, PlaceOf, TypeInv
    <3> QED BY <1>2, <3>1 DEF Before, PlaceOf
  <2>2. Due(g, t) => /\ Printed(d, g, s, t, v, 0) # {}
                     /\ Printed(d, g, s, t, v, 1) # {} \/ Failed(d, g, s, t, v)
      BY <1>2, <2>1 DEF CompleteInv, HasLines
  <2>3. \A w : Printed(d, g, s, t, v, w) # {} => Due(g, t)
    <3> SUFFICES ASSUME NEW w, NEW n \in Printed(d, g, s, t, v, w)
                 PROVE  Due(g, t)
        OBVIOUS
    <3>1. n \in 1..Len(table) /\ table[n].f = g /\ table[n].type = t
        BY DEF Printed
    <3> QED BY <3>1 DEF DueInv
  <2>4. ~(Printed(d, g, s, t, v, 1) # {} /\ Failed(d, g, s, t, v))
    <3> SUFFICES ASSUME NEW n \in Printed(d, g, s, t, v, 1),
                        NEW m \in Printed(d, g, s, t, v, 0), table[m].time = NaN
                 PROVE  FALSE
        BY DEF Failed
    <3>1. /\ n \in 1..Len(table) /\ m \in 1..Len(table)
          /\ table[n].ws = 1 /\ table[m].ws = 0 /\ SameWidth(table[n], table[m])
        BY DEF Printed, SameWidth
    <3> QED BY <3>1 DEF DueInv
  <2> QED BY <2>2, <2>3, <2>4
<1> QED BY <1>1, <1>2 DEF LinesFollowTheRequest, Due

\* What is left at the end.
LEMMA ContextsRemain ==
    ASSUME MainInv
    PROVE  OnlyContextsRemain
<1> USE DEF MainInv
<1>1. ASSUME pc = "repeat", \A n \in 1..Len(table) : table[n].time # NaN, err = 0
      PROVE  \A h \in held : h[1] \in {"info", "context", "queue"}
  <2>1. Acquired = {}
      BY <1>1 DEF Acquired
  <2>2. held = ({"info"} \X (1..i)) \cup ({"context"} \X (1..i)) \cup {<<"queue", i>>}
      BY <1>1, <2>1 DEF HeldInv, NoErrors, Loops, Work
  <2> QED BY <2>2
<1>2. ASSUME pc = "exit", \A n \in 1..Len(table) : table[n].time # NaN, failures = 0
      PROVE  held = ({"info"} \X (1..Len(machine)))
                      \cup ({"context"} \X (1..(Len(machine) - 1)))
  <2>1. i = Len(machine) + 1 /\ Len(machine) \in Nat
      BY <1>2, Inputs DEF PlaceInv, TypeInv
  <2>2. err = 0
      BY <1>2 DEF CheckInv, TypeInv
  <2>3. held = ({"info"} \X (1..(i - 1))) \cup ({"context"} \X (1..(i - 2)))
      BY <1>2, <2>1, <2>2 DEF HeldInv, NoErrors
  <2>4. i - 1 = Len(machine) /\ i - 2 = Len(machine) - 1
      BY <2>1
  <2> QED BY <2>3, <2>4
<1> QED BY <1>1, <1>2 DEF OnlyContextsRemain

\* The table lists every function, size, type and width asked for on every
\* device in the order of main's loops, whatever fails on the way: a line for
\* one work-item and, unless that is an error, one for many.
THEOREM RequestListed == Spec => []LinesFollowTheRequest
<1>1. MainInv => LinesFollowTheRequest
    BY LinesFollow
<1> QED BY <1>1, Always, PTL

\* Where no call failed and no result was wrong, a function with exact results
\* is refused only for a known reason: the host's check computes what the
\* kernel does for every width and number of operations that is a multiple of
\* the kernel's.
THEOREM AlarmsExplained == Spec => []AlarmHasACause
<1>1. MainInv => AlarmHasACause
    BY DEF MainInv
<1> QED BY <1>1, Always, PTL

\* A line of a checked function that counts down is of as many operations as
\* it says, however many those are, as long as the type can tell.
THEOREM CheckedPerformed == Spec => []CheckedMeansPerformed
<1>1. MainInv => CheckedMeansPerformed
    BY DEF MainInv
<1> QED BY <1>1, Always, PTL

\* Halving both work sizes, however often, keeps them legal and the number of
\* groups, when a group has a power of two of work-items and one of each fits.
THEOREM SizesStayLegal == Spec => []PowersStayLegal
<1>1. MainInv => PowersStayLegal
    BY SizesLegal DEF MainInv
<1> QED BY <1>1, Always, PTL

\* When nothing failed, a call gives everything back before the next one, and
\* the device information and the contexts of all devices but the last remain.
THEOREM ContextsAloneRemain == Spec => []OnlyContextsRemain
<1>1. MainInv => OnlyContextsRemain
    BY ContextsRemain
<1> QED BY <1>1, Always, PTL
=============================================================================
