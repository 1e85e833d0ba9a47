------------------------- MODULE LatencyChaseProofs -------------------------
(***************************************************************************)
(* Proofs about LatencyChase, for every value of its constants: the chain  *)
(* of the cache-step layout is one cycle through all the cells of every    *)
(* block of at least two steps, so the assertion on the host's walk fails  *)
(* only on a block of one step, and no walk leaves the block.  The result  *)
(* is the sum the host expects, and the loads are those counted.           *)
(***************************************************************************)
EXTENDS LatencyChase, WellFoundedInduction, TLAPS

(* Arithmetic.                                                             *)

\* Quotient and remainder.
LEMMA DivMod ==
    \A a \in Int, b \in Nat \ {0} :
        /\ a = (b * (a \div b)) + (a % b)
        /\ a % b \in 0..(b - 1)
        /\ a \div b \in Int
  OBVIOUS

\* The remainder is determined by any way of writing the number.
LEMMA ModIs ==
    \A q \in Int, b \in Nat \ {0} :
        \A r \in 0..(b - 1) : ((q * b) + r) % b = r
  OBVIOUS

\* A number below the modulus is its own remainder.
LEMMA ModSmall ==
    \A b \in Nat \ {0} : \A a \in 0..(b - 1) : a % b = a
  OBVIOUS

\* A number between one and two moduli is reduced once.
LEMMA ModOnce ==
    \A a \in Int, b \in Nat \ {0} : b <= a /\ a < 2 * b => a % b = a - b
  OBVIOUS

\* Adding the modulus does not change the remainder.
LEMMA ModPlus == \A a \in Int, b \in Nat \ {0} : (a + b) % b = a % b
<1> SUFFICES ASSUME NEW a \in Int, NEW b \in Nat \ {0}
             PROVE  (a + b) % b = a % b
    OBVIOUS
<1> DEFINE q == a \div b
           r == a % b
<1>1. a = (b * q) + r /\ r \in 0..(b - 1) /\ q \in Int
    BY DivMod
<1> HIDE DEF q, r
<1>2. a + b = ((q + 1) * b) + r /\ q + 1 \in Int
    BY <1>1
<1>3. (((q + 1) * b) + r) % b = r
    BY <1>1, <1>2, ModIs, Zenon
<1> QED BY <1>2, <1>3, Zenon DEF r

\* Two multiples of b less than b apart are equal.
LEMMA CloseMultiples ==
    \A p, q \in Int, b \in Nat \ {0} :
        q * b < (p * b) + b /\ p * b < (q * b) + b => p = q
<1> SUFFICES ASSUME NEW p \in Int, NEW q \in Int, NEW b \in Nat \ {0},
                    q * b < (p * b) + b, p * b < (q * b) + b
             PROVE  p = q
    OBVIOUS
<1>1. ASSUME p < q PROVE FALSE
  <2>1. q = p + 1 + (q - p - 1) /\ q - p - 1 \in Nat BY <1>1
  <2>2. q * b = (p * b) + b + ((q - p - 1) * b) BY <2>1
  <2>3. (q - p - 1) * b >= 0 BY <2>1
  <2> QED BY <2>2, <2>3
<1>2. ASSUME q < p PROVE FALSE
  <2>1. p = q + 1 + (p - q - 1) /\ p - q - 1 \in Nat BY <1>2
  <2>2. p * b = (q * b) + b + ((p - q - 1) * b) BY <2>1
  <2>3. (p - q - 1) * b >= 0 BY <2>1
  <2> QED BY <2>2, <2>3
<1> QED BY <1>1, <1>2

\* Numbers with one remainder that are less than a modulus apart are equal.
LEMMA ModApart ==
    \A i, j \in Int, b \in Nat \ {0} :
        i % b = j % b /\ i < j + b /\ j < i + b => i = j
<1> SUFFICES ASSUME NEW i \in Int, NEW j \in Int, NEW b \in Nat \ {0},
                    i % b = j % b, i < j + b, j < i + b
             PROVE  i = j
    OBVIOUS
<1> DEFINE p == i \div b
           q == j \div b
<1>1. i = (b * p) + (i % b) /\ i % b \in 0..(b - 1) /\ p \in Int BY DivMod
<1>2. j = (b * q) + (j % b) /\ q \in Int BY DivMod
<1>3. q * b < (p * b) + b /\ p * b < (q * b) + b BY <1>1, <1>2
<1> HIDE DEF p, q
<1>4. p = q BY <1>1, <1>2, <1>3, CloseMultiples
<1> QED BY <1>1, <1>2, <1>4
-----------------------------------------------------------------------------
(* Rows of a block of N cells.                                             *)

\* The sizes of a block of at least two steps.
Blocks == {n \in Nat : n % K = 0 /\ n >= 2 * K}

\* Rows are numbered from 0 to K-1.
LEMMA RowType == \A i \in Int : Row(i) \in 0..(K - 1)
  BY DivMod, WidthAssumption DEF Row

\* A stride stays in its row.
LEMMA RowStride == \A i \in Int : Row(i + K) = Row(i)
<1> SUFFICES ASSUME NEW i \in Int PROVE Row(i + K) = Row(i)
    OBVIOUS
<1>1. (i + K) - 1 = (i - 1) + K /\ i - 1 \in Int /\ K \in Nat \ {0}
    BY WidthAssumption
<1>2. ((i - 1) + K) % K = (i - 1) % K BY <1>1, ModPlus, Zenon
<1> QED BY <1>1, <1>2, Zenon DEF Row

\* The first cells of the block start the rows.
LEMMA RowStart == \A d \in 1..K : Row(d) = d - 1
  BY ModSmall, WidthAssumption DEF Row

\* A cell d places before the end of the block is in the row that ends there.
LEMMA RowEnd ==
    \A N \in Blocks, d \in 1..K : Row((N - K) + d) = d - 1
<1> SUFFICES ASSUME NEW N \in Blocks, NEW d \in 1..K
             PROVE  Row((N - K) + d) = d - 1
    OBVIOUS
<1> DEFINE m == N \div K
<1>0. K \in Nat \ {0} /\ N \in Nat BY WidthAssumption DEF Blocks
<1>1. N = K * m /\ m \in Int BY <1>0, DivMod DEF Blocks
<1> HIDE DEF m
<1>2. ((N - K) + d) - 1 = ((m - 1) * K) + (d - 1) BY <1>0, <1>1
<1>3. m - 1 \in Int /\ d - 1 \in 0..(K - 1) BY <1>0, <1>1
<1>4. (((m - 1) * K) + (d - 1)) % K = d - 1 BY <1>0, <1>3, ModIs
<1> QED BY <1>2, <1>4 DEF Row

\* In a row, a cell less than a stride after another is that cell.
LEMMA RowApart ==
    \A i, j \in Int : Row(i) = Row(j) /\ i <= j /\ j < i + K => i = j
<1> SUFFICES ASSUME NEW i \in Int, NEW j \in Int,
                    Row(i) = Row(j), i <= j, j < i + K
             PROVE  i = j
    OBVIOUS
<1>1. (i - 1) % K = (j - 1) % K BY DEF Row
<1>2. /\ i - 1 \in Int /\ j - 1 \in Int /\ K \in Nat \ {0}
      /\ i - 1 < (j - 1) + K /\ j - 1 < (i - 1) + K
    BY WidthAssumption
<1>3. i - 1 = j - 1 BY <1>1, <1>2, ModApart, Zenon
<1> QED BY <1>3

\* A cell the stride leads out of the block from is the last of its row, and
\* the reduction leads to the first cell of the next row.
LEMMA RowTurn ==
    \A N \in Blocks, i \in Nat :
        i < N /\ i + K > N =>
            /\ Row(i) = i + K - N - 1
            /\ Row(i + K - (N - 1)) = Row(i) + 1
            /\ i + K - (N - 1) \in 2..K
            /\ (i + K) % (N - 1) = i + K - (N - 1)
<1> SUFFICES ASSUME NEW N \in Blocks, NEW i \in Nat, i < N, i + K > N
             PROVE  /\ Row(i) = i + K - N - 1
                    /\ Row(i + K - (N - 1)) = Row(i) + 1
                    /\ i + K - (N - 1) \in 2..K
                    /\ (i + K) % (N - 1) = i + K - (N - 1)
    OBVIOUS
<1> DEFINE d == i + K - N
<1>0. K \in Nat /\ K > 1 /\ N \in Nat /\ N >= 2 * K
    BY WidthAssumption DEF Blocks
<1>1. d \in 1..(K - 1) /\ i = (N - K) + d BY <1>0
<1>2. Row(i) = d - 1 BY <1>0, <1>1, RowEnd
<1>3. Row(d + 1) = d BY <1>0, <1>1, RowStart
<1>4. i + K - (N - 1) = d + 1 BY <1>0
<1>5. (i + K) % (N - 1) = (i + K) - (N - 1)
  <2>1. /\ i + K \in Int /\ N - 1 \in Nat \ {0}
        /\ N - 1 <= i + K /\ i + K < 2 * (N - 1)
      BY <1>0
  <2> QED BY <2>1, ModOnce, Zenon
<1> QED BY <1>0, <1>1, <1>2, <1>3, <1>4, <1>5

\* The cell the chain closes from is the last of the last row.
LEMMA RowClose == \A N \in Blocks : Row(N - K) = K - 1
<1> SUFFICES ASSUME NEW N \in Blocks PROVE Row(N - K) = K - 1
    OBVIOUS
<1>0. K \in Nat /\ K > 1 /\ N \in Nat BY WidthAssumption DEF Blocks
<1>1. Row((N - K) + K) = K - 1 BY <1>0, RowEnd
<1> QED BY <1>0, <1>1, RowStride

\* Coming a stride further links one cell more.
LEMMA BeforeStride ==
    \A i, j \in Int : Before(j, i + K) <=> Before(j, i) \/ j = i
<1> SUFFICES ASSUME NEW i \in Int, NEW j \in Int
             PROVE  Before(j, i + K) <=> Before(j, i) \/ j = i
    OBVIOUS
<1>1. Row(i + K) = Row(i) BY RowStride
<1>2. K \in Nat /\ K > 0 BY WidthAssumption
<1>3. Row(i) = Row(j) /\ i <= j /\ j < i + K => i = j BY RowApart
<1>4. Row(i) \in Int /\ Row(j) \in Int BY RowType, <1>2
<1> QED BY <1>1, <1>2, <1>3, <1>4 DEF Before

\* So does turning into the next row.
LEMMA BeforeTurn ==
    \A N \in Blocks, i \in Nat, j \in Nat \ {0} :
        i < N /\ i + K > N /\ j < N =>
          (Before(j, i + K - (N - 1)) <=> Before(j, i) \/ j = i)
<1> SUFFICES ASSUME NEW N \in Blocks, NEW i \in Nat, NEW j \in Nat \ {0},
                    i < N, i + K > N, j < N
             PROVE  Before(j, i + K - (N - 1)) <=> Before(j, i) \/ j = i
    OBVIOUS
<1> DEFINE t == i + K - (N - 1)
<1>1. K \in Nat /\ K > 1 /\ N \in Nat BY WidthAssumption DEF Blocks
<1>2. Row(i) = t - 2 /\ Row(t) = t - 1 /\ t \in 2..K
  <2>1. /\ Row(i) = i + K - N - 1
        /\ Row(i + K - (N - 1)) = Row(i) + 1
        /\ i + K - (N - 1) \in 2..K
      BY RowTurn
  <2>2. Row(t) = Row(i) + 1 /\ t \in 2..K BY <2>1
  <2>3. Row(i) = t - 2 BY <1>1, <2>1
  <2> HIDE DEF t
  <2> QED BY <1>1, <2>2, <2>3
<1>3. Row(j) \in Int BY RowType, <1>1
<1>4. Row(j) = Row(i) /\ i <= j => i = j
    BY <1>1, RowApart
<1>5. Row(j) = Row(t) => ~(j < t)
  <2>1. SUFFICES ASSUME Row(j) = Row(t), j < t PROVE FALSE OBVIOUS
  <2>2. j \in 1..K BY <1>1, <1>2, <2>1
  <2>3. Row(j) = j - 1 BY <2>2, RowStart
  <2> QED BY <1>1, <1>2, <2>1, <2>3
<1> HIDE DEF t
<1>6. Before(j, t) <=> Before(j, i) \/ j = i
    BY <1>1, <1>2, <1>3, <1>4, <1>5 DEF Before
<1> QED BY <1>6 DEF t

\* At the end of the last row every cell is linked.
LEMMA BeforeClose ==
    \A N \in Blocks, j \in Nat \ {0} :
        j < N => Before(j, N - K) \/ j = N - K
<1> SUFFICES ASSUME NEW N \in Blocks, NEW j \in Nat \ {0}, j < N
             PROVE  Before(j, N - K) \/ j = N - K
    OBVIOUS
<1>1. K \in Nat /\ K > 1 /\ N \in Nat /\ N - K \in Int
    BY WidthAssumption DEF Blocks
<1>2. Row(N - K) = K - 1 BY RowClose
<1>3. Row(j) \in 0..(K - 1) BY RowType, <1>1
<1>4. Row(N - K) = Row(j) /\ N - K <= j => N - K = j BY <1>1, RowApart
<1> QED BY <1>1, <1>2, <1>3, <1>4 DEF Before
-----------------------------------------------------------------------------
(* Sizes.                                                                  *)

\* Rounding down to a multiple of K.
LEMMA RoundDown ==
    \A e \in Nat : e - (e % K) \in 0..e /\ (e - (e % K)) % K = 0
<1> SUFFICES ASSUME NEW e \in Nat
             PROVE  e - (e % K) \in 0..e /\ (e - (e % K)) % K = 0
    OBVIOUS
<1> DEFINE q == e \div K
           r == e % K
<1>0. K \in Nat \ {0} BY WidthAssumption
<1>1. e = (K * q) + r /\ r \in 0..(K - 1) /\ q \in Int BY <1>0, DivMod
<1> HIDE DEF q, r
<1>2. q >= 0
  <2>1. SUFFICES ASSUME q <= -1 PROVE FALSE BY <1>1
  <2>2. -1 - q \in Nat /\ K * q = -K - (K * (-1 - q)) BY <1>0, <1>1, <2>1
  <2>3. K * (-1 - q) >= 0 BY <1>0, <2>2
  <2> QED BY <1>0, <1>1, <2>2, <2>3
<1>3. K * q >= 0 BY <1>0, <1>1, <1>2
<1>4. e - r = (q * K) + 0 BY <1>0, <1>1
<1>5. 0 \in 0..(K - 1) BY <1>0
<1>6. ((q * K) + 0) % K = 0 BY <1>0, <1>1, <1>5, ModIs, Zenon
<1>7. e - r \in 0..e /\ (e - r) % K = 0
    BY <1>0, <1>1, <1>3, <1>4, <1>6
<1> QED BY <1>7 DEF r

\* A multiple of K is 0, K, or at least two steps.
LEMMA StepSizes ==
    \A n \in Nat : n % K = 0 => n = 0 \/ n = K \/ n \in Blocks
<1> SUFFICES ASSUME NEW n \in Nat, n % K = 0, n # 0, n # K
             PROVE  n >= 2 * K
    BY DEF Blocks
<1> DEFINE q == n \div K
<1>0. K \in Nat /\ K > 0 BY WidthAssumption
<1>1. n = K * q /\ q \in Int BY <1>0, DivMod
<1> HIDE DEF q
<1>2. q # 0 /\ q # 1 BY <1>0, <1>1
<1>3. q > 0
  <2>1. SUFFICES ASSUME q <= 0 PROVE FALSE BY <1>1
  <2>2. K * (0 - q) >= 0 /\ K * q = 0 - (K * (0 - q)) BY <1>0, <1>1, <2>1
  <2> QED BY <1>0, <1>1, <2>1, <2>2
<1>4. q - 2 \in Nat BY <1>1, <1>2, <1>3
<1>5. K * q = (2 * K) + (K * (q - 2)) /\ K * (q - 2) >= 0 BY <1>0, <1>1, <1>4
<1> QED BY <1>0, <1>1, <1>4, <1>5

\* Multiples of a number are that number apart.
LEMMA MultiplesApart ==
    \A a, b \in Nat, k \in Nat \ {0} :
        a % k = 0 /\ b % k = 0 /\ a < b => a + k <= b
<1> SUFFICES ASSUME NEW a \in Nat, NEW b \in Nat, NEW k \in Nat \ {0},
                    a % k = 0, b % k = 0, a < b, ~(a + k <= b)
             PROVE  FALSE
    OBVIOUS
<1>1. a % k = b % k /\ a < b + k /\ b < a + k /\ a \in Int /\ b \in Int
    OBVIOUS
<1>2. a = b BY <1>1, ModApart, Zenon
<1> QED BY <1>2

\* A multiple of a multiple.
LEMMA ModDivides ==
    \A a, b, c \in Nat \ {0} : a % b = 0 /\ b % c = 0 => a % c = 0
<1> SUFFICES ASSUME NEW a \in Nat \ {0}, NEW b \in Nat \ {0},
                    NEW c \in Nat \ {0}, a % b = 0, b % c = 0
             PROVE  a % c = 0
    OBVIOUS
<1> DEFINE p == a \div b
           q == b \div c
<1>1. a = b * p /\ p \in Int BY DivMod
<1>2. b = c * q /\ q \in Int BY DivMod
<1> HIDE DEF p, q
<1>3. a = ((q * p) * c) + 0 /\ q * p \in Int /\ 0 \in 0..(c - 1)
    BY <1>1, <1>2
<1>4. (((q * p) * c) + 0) % c = 0 BY <1>3, ModIs, Zenon
<1> QED BY <1>3, <1>4

\* What the fitted size is, whatever was asked for.
LEMMA FittedSize ==
    \A c \in Calls : FittedElems(c) \in 0..(UIntMod - 1) /\ FittedElems(c) % K = 0
<1> SUFFICES ASSUME NEW c \in Calls
             PROVE  /\ FittedElems(c) \in 0..(UIntMod - 1)
                    /\ FittedElems(c) % K = 0
    OBVIOUS
<1> DEFINE size == IF c.size > Limit(c) THEN Limit(c) ELSE c.size
           elems == (size \div WordBytes) % UIntMod
<1>1. c.size \in Int /\ c.mem \in Int
  <2>1. c.size \in Requests /\ c.mem \in MemSizes BY DEF Calls
  <2>2. c.size \in 0..(ULongMod - 1) /\ c.mem \in 0..(ULongMod - 1)
      BY <2>1, InputAssumption
  <2> QED BY <2>2, BytesAssumption
<1>2. (c.mem - Headroom) % ULongMod \in Int
  <2>1. c.mem - Headroom \in Int /\ ULongMod \in Nat \ {0}
      BY <1>1, BytesAssumption
  <2> QED BY <2>1, DivMod, SMTT(30)
<1>3. ((c.mem - Headroom) % ULongMod) \div 2 \in Int BY <1>2
<1>4. Limit(c) \in Int BY <1>2, <1>3 DEF Limit
<1>5. size \in Int BY <1>1, <1>4
<1> HIDE DEF size
<1>6. size \div WordBytes \in Int BY <1>5, DivMod, BytesAssumption
<1>7. elems \in 0..(UIntMod - 1) BY <1>6, DivMod, WidthAssumption
<1>8. FittedElems(c) = elems - (elems % K) BY DEF FittedElems, size
<1> HIDE DEF elems
<1>9. /\ elems - (elems % K) \in 0..elems
      /\ (elems - (elems % K)) % K = 0
    BY <1>7, RoundDown
<1> QED BY <1>7, <1>8, <1>9, WidthAssumption
-----------------------------------------------------------------------------
(* Every step preserves the invariant.                                     *)

\* The low word of the iterations is a natural number.
LEMMA IterationsType == call \in Calls =>
    call.iterations \in Nat /\ KernelIterations \in Nat
<1> SUFFICES ASSUME call \in Calls
             PROVE  call.iterations \in Nat /\ KernelIterations \in Nat
    OBVIOUS
<1>1. call.iterations \in Iterations BY DEF Calls
<1>2. call.iterations \in 0..(ULongMod - 1) BY <1>1, InputAssumption
<1>3. call.iterations \in Nat BY <1>2, BytesAssumption
<1> QED BY <1>3, DivMod, WidthAssumption DEF KernelIterations

\* The call starts in a state of the invariant.
LEMMA InitInv == Init => ChaseInv
<1> SUFFICES ASSUME Init PROVE ChaseInv
    OBVIOUS
<1>0. 0 % K = 0 BY ModSmall, WidthAssumption
<1>1. KernelIterations \in Nat BY IterationsType DEF Init
<1>2. TypeOK
    BY <1>1, WidthAssumption, BytesAssumption
    DEF Init, TypeOK, Cells, Steps, Layouts
<1> QED
    BY <1>0, <1>2 DEF Init, ChaseInv, SizeInv, BuildInv, LaidInv, WalkInv,
       KernelInv, StopsOnlyOnTinyBlocks, Layouts

\* Fitting the size.
LEMMA AdjustSizeInv == ChaseInv /\ AdjustSize => ChaseInv'
<1> SUFFICES ASSUME ChaseInv, AdjustSize PROVE ChaseInv'
    OBVIOUS
<1> USE DEF hostVars, kernelVars
<1>1. numElems' \in 0..(UIntMod - 1) /\ numElems' % K = 0
    BY FittedSize DEF AdjustSize, ChaseInv, TypeOK
<1>2. pc' \in Layouts BY DEF AdjustSize, ChaseInv, TypeOK, Calls
<1>3. KernelIterations' = KernelIterations BY DEF AdjustSize, KernelIterations
<1>4. TypeOK'
    BY <1>1, <1>2, <1>3 DEF AdjustSize, ChaseInv, TypeOK, Cells, Steps, Layouts
<1> QED
    BY <1>1, <1>2, <1>3, <1>4 DEF AdjustSize, ChaseInv, SizeInv, BuildInv,
       LaidInv, WalkInv, KernelInv, StopsOnlyOnTinyBlocks, Layouts, Cells

\* A cell plus K is a number of the unsigned type: no wrap.
LEMMA NewIndex ==
    ChaseInv /\ pc = "chain" =>
        /\ index \in Nat /\ index < numElems /\ newindex = index + K
        /\ numElems \in Nat /\ (numElems = K \/ numElems \in Blocks)
<1> SUFFICES ASSUME ChaseInv, pc = "chain"
             PROVE  /\ index \in Nat /\ index < numElems
                    /\ newindex = index + K
                    /\ numElems \in Nat
                    /\ numElems = K \/ numElems \in Blocks
    OBVIOUS
<1>1. /\ numElems \in 0..(UIntMod - 1) /\ numElems % K = 0
      /\ index \in 0..(numElems - 1)
    BY DEF ChaseInv, TypeOK, SizeInv, Cells
<1>2. numElems + K <= UIntMod
  <2>1. /\ numElems \in Nat /\ UIntMod \in Nat /\ numElems < UIntMod
        /\ numElems % K = 0 /\ UIntMod % K = 0 /\ K \in Nat \ {0}
      BY <1>1, WidthAssumption
  <2> QED BY <2>1, MultiplesApart, Zenon
<1>3. index + K \in 0..(UIntMod - 1)
    BY <1>1, <1>2, WidthAssumption
<1>4. (index + K) % UIntMod = index + K
    BY <1>3, ModSmall, WidthAssumption
<1> QED
    BY <1>1, <1>4, StepSizes, WidthAssumption DEF newindex

\* The store outside an empty block.
LEMMA StoreOutsideInv == ChaseInv /\ StoreOutside => ChaseInv'
<1> SUFFICES ASSUME ChaseInv, StoreOutside PROVE ChaseInv'
    OBVIOUS
<1> USE DEF hostVars, kernelVars
<1>1. KernelIterations' = KernelIterations
    BY DEF StoreOutside, KernelIterations
<1>2. TypeOK'
    BY <1>1 DEF StoreOutside, ChaseInv, TypeOK, Cells, Steps, Layouts
<1> QED
    BY <1>1, <1>2 DEF StoreOutside, ChaseInv, SizeInv, BuildInv,
       LaidInv, WalkInv, KernelInv, StopsOnlyOnTinyBlocks, Layouts

\* The sequential layout.
LEMMA FillSequentialInv == ChaseInv /\ FillSequential => ChaseInv'
<1> SUFFICES ASSUME ChaseInv, FillSequential PROVE ChaseInv'
    OBVIOUS
<1> USE DEF hostVars, kernelVars
<1>1. KernelIterations' = KernelIterations
    BY DEF FillSequential, KernelIterations
<1>2. data' \in [Cells -> Cells]
    BY WidthAssumption DEF FillSequential, ChaseInv, TypeOK, Cells
<1>3. TypeOK'
    BY <1>1, <1>2 DEF FillSequential, ChaseInv, TypeOK, Cells, Steps, Layouts
<1>4. LaidInv'
    BY DEF FillSequential, ChaseInv, BuildInv, LaidInv, OneStep, Cells, Layouts
<1> QED
    BY <1>1, <1>3, <1>4 DEF FillSequential, ChaseInv, SizeInv, BuildInv,
       WalkInv, KernelInv, StopsOnlyOnTinyBlocks, Layouts

\* The first link of the cache-step layout.
LEMMA FirstHopInv == ChaseInv /\ FirstHop => ChaseInv'
<1> SUFFICES ASSUME ChaseInv, FirstHop PROVE ChaseInv'
    OBVIOUS
<1> USE DEF hostVars, kernelVars
<1>1. KernelIterations' = KernelIterations
    BY DEF FirstHop, KernelIterations
<1>2. /\ numElems \in Nat /\ numElems >= K /\ K \in Nat /\ K > 1
      /\ index = 1 /\ data = [i \in Cells |-> Garbage]
      /\ call.layout = "cache_step"
    BY StepSizes, WidthAssumption
    DEF FirstHop, ChaseInv, TypeOK, SizeInv, BuildInv, Layouts, Blocks
<1>3. 0 \in Cells /\ 1 \in Cells BY <1>2 DEF Cells
<1>4. data' \in [Cells -> Cells \cup {Garbage}] /\ data'[0] = 1
    BY <1>2, <1>3 DEF FirstHop
<1>5. \A j \in Cells \ {0} : data'[j] = Garbage
    BY <1>2 DEF FirstHop
<1>6. \A j \in Cells \ {0} : ~Before(j, index)
  <2>1. Row(1) = 0 BY <1>2, RowStart
  <2>2. \A j \in Cells : Row(j) >= 0 BY <1>2, RowType DEF Cells
  <2>3. \A j \in Cells : Row(j) \in Int BY <1>2, RowType DEF Cells
  <2> QED BY <1>2, <2>1, <2>2, <2>3 DEF Before, Cells
<1>7. TypeOK'
    BY <1>1, <1>2, <1>3, <1>4
    DEF FirstHop, ChaseInv, TypeOK, Cells, Steps, Layouts
<1>8. BuildInv'
    BY <1>2, <1>4, <1>5, <1>6 DEF FirstHop, BuildInv, Cells, Layouts, Before
<1> QED
    BY <1>1, <1>7, <1>8 DEF FirstHop, ChaseInv, SizeInv, LaidInv,
       WalkInv, KernelInv, StopsOnlyOnTinyBlocks, Layouts

\* A link to a cell of the block, which is linked next: given that exactly
\* the cell left becomes linked and gets its successor.
LEMMA ChainToInv ==
    ASSUME NEW t \in Cells, ChaseInv, ChainTo(t), index # 0,
           numElems # K =>
             /\ t # 0
             /\ t = Succ(index, numElems)
             /\ \A j \in Cells \ {0} :
                  Before(j, t) <=> Before(j, index) \/ j = index
    PROVE  ChaseInv'
<1> USE DEF hostVars, kernelVars
<1>1. KernelIterations' = KernelIterations
    BY DEF ChainTo, KernelIterations
<1>2. pc = "chain" /\ pc' = "chain" /\ index \in Cells
    BY DEF ChainTo, ChaseInv, TypeOK
<1>3. numElems \in Nat /\ (numElems = K \/ numElems \in Blocks)
    BY <1>2, NewIndex
<1>4. data' = [data EXCEPT ![index] = t]
      /\ data \in [Cells -> Cells \cup {Garbage}]
    BY DEF ChainTo, ChaseInv, TypeOK
<1>5. data' \in [Cells -> Cells \cup {Garbage}] BY <1>2, <1>4
<1>6. TypeOK'
    BY <1>1, <1>2, <1>5 DEF ChainTo, ChaseInv, TypeOK, Cells, Steps, Layouts
<1>7. BuildInv'
  <2>1. numElems > 0 /\ call.layout = "cache_step" /\ data[0] = 1
      BY <1>2 DEF ChaseInv, BuildInv
  <2>2. CASE numElems = K
    <3>1. 0 \in Cells BY <1>3, <2>1 DEF Cells
    <3>2. data'[0] = 1 BY <1>4, <2>1, <3>1
    <3> QED BY <1>2, <2>1, <2>2, <3>2 DEF ChainTo, BuildInv, Layouts
  <2>3. CASE numElems # K
    <3>1. \A j \in Cells \ {0} :
             data[j] = IF Before(j, index) THEN Succ(j, numElems) ELSE Garbage
        BY <1>2, <2>3 DEF ChaseInv, BuildInv
    <3>2. 0 \in Cells BY <1>3, <2>1 DEF Cells
    <3>3. data'[0] = 1 BY <1>2, <1>4, <2>1, <3>1, <3>2
    <3>4. \A j \in Cells \ {0} :
             data'[j] = IF Before(j, t) THEN Succ(j, numElems) ELSE Garbage
      <4>1. SUFFICES ASSUME NEW j \in Cells \ {0}
                     PROVE  data'[j] = IF Before(j, t) THEN Succ(j, numElems)
                                                       ELSE Garbage
          OBVIOUS
      <4>2. CASE j = index
          BY <1>2, <1>4, <2>3, <4>2
      <4>3. CASE j # index
        <5>1. data'[j] = data[j] BY <1>4, <4>3
        <5>2. Before(j, t) <=> Before(j, index) BY <2>3, <4>3
        <5> QED BY <3>1, <5>1, <5>2
      <4> QED BY <4>2, <4>3
    <3>5. index' = t /\ numElems' = numElems /\ call' = call BY DEF ChainTo
    <3> QED
        BY <1>2, <2>1, <2>3, <3>3, <3>4, <3>5
        DEF BuildInv, Cells, Before, Succ, Row, Layouts
  <2> QED BY <2>2, <2>3
<1> QED
    BY <1>1, <1>2, <1>6, <1>7 DEF ChainTo, ChaseInv, SizeInv, LaidInv,
       WalkInv, KernelInv, StopsOnlyOnTinyBlocks

\* A stride along a row.
LEMMA ChainStrideInv == ChaseInv /\ ChainStride => ChaseInv'
<1> SUFFICES ASSUME ChaseInv, ChainStride PROVE ChaseInv'
    OBVIOUS
<1>1. /\ index \in Nat /\ index < numElems /\ newindex = index + K
      /\ numElems \in Nat /\ (numElems = K \/ numElems \in Blocks)
    BY NewIndex DEF ChainStride, ChainTo
<1>2. K \in Nat /\ K > 1 BY WidthAssumption
<1>3. index + K < numElems /\ ChainTo(index + K)
    BY <1>1 DEF ChainStride
<1>4. numElems # K /\ index + K \in Cells BY <1>1, <1>2, <1>3 DEF Cells
<1>5. index # 0
    BY <1>4 DEF ChaseInv, BuildInv, ChainStride, ChainTo
<1>6. index + K # 0 /\ index + K = Succ(index, numElems)
    BY <1>1, <1>2, <1>3 DEF Succ
<1>7. \A j \in Cells \ {0} :
         Before(j, index + K) <=> Before(j, index) \/ j = index
    BY <1>1, BeforeStride DEF Cells
<1> QED BY <1>3, <1>4, <1>5, <1>6, <1>7, ChainToInv

\* The reduction: a turn into the next row or, on a block of one step, to
\* the next cell.
LEMMA ChainWrapInv == ChaseInv /\ ChainWrap => ChaseInv'
<1> SUFFICES ASSUME ChaseInv, ChainWrap PROVE ChaseInv'
    OBVIOUS
<1> DEFINE t == (index + K) % (numElems - 1)
<1>1. /\ index \in Nat /\ index < numElems /\ newindex = index + K
      /\ numElems \in Nat /\ (numElems = K \/ numElems \in Blocks)
    BY NewIndex DEF ChainWrap, ChainTo
<1>2. K \in Nat /\ K > 1 BY WidthAssumption
<1>3. index + K > numElems /\ ChainTo(t)
    BY <1>1 DEF ChainWrap
<1>4. numElems > 1 BY <1>1, <1>2 DEF Blocks
<1>5. t \in Cells
  <2>1. index + K \in Int /\ numElems - 1 \in Nat \ {0} BY <1>1, <1>2, <1>4
  <2>2. t \in 0..((numElems - 1) - 1) BY <2>1, DivMod, Zenon
  <2> HIDE DEF t
  <2> QED BY <1>1, <1>4, <2>2 DEF Cells
<1>6. index # 0
    BY <1>1, <1>2, <1>3 DEF ChaseInv, BuildInv, ChainWrap, ChainTo
<1>7. ASSUME numElems # K
      PROVE  /\ t # 0
             /\ t = Succ(index, numElems)
             /\ \A j \in Cells \ {0} :
                  Before(j, t) <=> Before(j, index) \/ j = index
  <2>1. numElems \in Blocks BY <1>1, <1>7
  <2>2. /\ t = index + K - (numElems - 1)
        /\ index + K - (numElems - 1) \in 2..K
      BY <1>1, <1>3, <2>1, RowTurn
  <2>3. \A j \in Cells \ {0} :
           Before(j, index + K - (numElems - 1))
             <=> Before(j, index) \/ j = index
      BY <1>1, <1>3, <2>1, BeforeTurn DEF Cells
  <2>4. index + K - (numElems - 1) = Succ(index, numElems)
      BY <1>1, <1>2, <1>3 DEF Succ
  <2> HIDE DEF t
  <2> QED BY <1>2, <2>2, <2>3, <2>4
<1> HIDE DEF t
<1> QED BY <1>3, <1>5, <1>6, <1>7, ChainToInv

\* The closing link.
LEMMA ChainCloseInv == ChaseInv /\ ChainClose => ChaseInv'
<1> SUFFICES ASSUME ChaseInv, ChainClose PROVE ChaseInv'
    OBVIOUS
<1> USE DEF hostVars, kernelVars
<1>1. /\ index \in Nat /\ index < numElems /\ newindex = index + K
      /\ numElems \in Nat /\ (numElems = K \/ numElems \in Blocks)
    BY NewIndex DEF ChainClose
<1>2. K \in Nat /\ K > 1 BY WidthAssumption
<1>3. KernelIterations' = KernelIterations
    BY DEF ChainClose, KernelIterations
<1>4. /\ index = numElems - K /\ index \in Cells /\ 0 \in Cells
      /\ pc = "chain" /\ data' = [data EXCEPT ![index] = 0]
      /\ data \in [Cells -> Cells \cup {Garbage}]
    BY <1>1, <1>2 DEF ChainClose, ChaseInv, TypeOK, Cells
<1>5. data' \in [Cells -> Cells \cup {Garbage}] BY <1>4
<1>6. TypeOK'
    BY <1>3, <1>5 DEF ChainClose, ChaseInv, TypeOK, Cells, Steps, Layouts
<1>7. numElems # K => /\ data'[0] = 1
                      /\ \A j \in Cells \ {0} : data'[j] = Succ(j, numElems)
  <2> SUFFICES ASSUME numElems # K
               PROVE  /\ data'[0] = 1
                      /\ \A j \in Cells \ {0} : data'[j] = Succ(j, numElems)
      OBVIOUS
  <2>1. numElems \in Blocks BY <1>1
  <2>2. /\ data[0] = 1 /\ index # 0
        /\ \A j \in Cells \ {0} :
             data[j] = IF Before(j, index) THEN Succ(j, numElems) ELSE Garbage
      BY <1>4 DEF ChaseInv, BuildInv
  <2>3. \A j \in Cells \ {0} : Before(j, index) \/ j = index
      BY <1>1, <1>4, <2>1, BeforeClose DEF Cells
  <2>4. Succ(index, numElems) = 0 BY <1>1, <1>2, <1>4 DEF Succ
  <2> QED BY <1>4, <2>2, <2>3, <2>4
<1>8. numElems = K => data'[0] = 0 BY <1>1, <1>2, <1>4
<1>9. LaidInv'
  <2>1. call' = call /\ numElems' = numElems /\ call.layout = "cache_step"
        /\ numElems > 0
      BY <1>4 DEF ChainClose, ChaseInv, BuildInv
  <2> QED BY <1>7, <1>8, <2>1 DEF LaidInv, OneStep, Cells, Succ
<1> QED
    BY <1>3, <1>6, <1>9 DEF ChainClose, ChaseInv, SizeInv, BuildInv,
       WalkInv, KernelInv, StopsOnlyOnTinyBlocks, Layouts

\* A block that is laid out has a link in every cell a walk can come to:
\* every cell, or cell 0 alone when the block has a single step.
LEMMA LaidCells ==
    ChaseInv /\ pc \in {"start", "walk", "copy", "kernel"} =>
        /\ 0 \in Cells /\ 1 \in Cells
        /\ numElems \in Nat /\ (numElems = K \/ numElems \in Blocks)
        /\ OneStep => data[0] = 0
        /\ ~OneStep => data \in [Cells -> Cells] /\ data[0] = 1
<1> SUFFICES ASSUME ChaseInv, pc \in {"start", "walk", "copy", "kernel"}
             PROVE  /\ 0 \in Cells /\ 1 \in Cells
                    /\ numElems \in Nat
                    /\ numElems = K \/ numElems \in Blocks
                    /\ OneStep => data[0] = 0
                    /\ ~OneStep => data \in [Cells -> Cells] /\ data[0] = 1
    OBVIOUS
<1>1. K \in Nat /\ K > 1 BY WidthAssumption
<1>2. /\ numElems \in Nat /\ numElems > 0
      /\ numElems = K \/ numElems \in Blocks
    BY StepSizes, WidthAssumption
    DEF ChaseInv, TypeOK, SizeInv, LaidInv
<1>3. numElems >= K /\ 0 \in Cells /\ 1 \in Cells
    BY <1>1, <1>2 DEF Blocks, Cells
<1>4. data \in [Cells -> Cells \cup {Garbage}] BY DEF ChaseInv, TypeOK
<1>5. OneStep => data[0] = 0 BY DEF ChaseInv, LaidInv
<1>6. CASE call.layout = "sequential"
  <2>1. data = [i \in Cells |-> IF i = numElems - 1 THEN 0 ELSE i + 1]
      BY <1>6 DEF ChaseInv, LaidInv
  <2>2. data \in [Cells -> Cells] BY <1>2, <1>3, <2>1 DEF Cells
  <2>3. data[0] = 1 BY <1>1, <1>2, <1>3, <2>1
  <2> QED BY <1>2, <1>3, <1>5, <2>2, <2>3
<1>7. CASE call.layout = "cache_step" /\ ~OneStep
  <2>1. numElems # K /\ data[0] = 1
        /\ \A j \in Cells \ {0} : data[j] = Succ(j, numElems)
      BY <1>7 DEF ChaseInv, LaidInv, OneStep
  <2>2. \A j \in Cells \ {0} : Succ(j, numElems) \in Cells
    <3>1. SUFFICES ASSUME NEW j \in Cells \ {0}
                   PROVE  Succ(j, numElems) \in Cells
        OBVIOUS
    <3>2. j \in Nat /\ j < numElems BY <1>2 DEF Cells
    <3>3. CASE j + K <= numElems
        BY <1>1, <1>2, <1>3, <3>2, <3>3 DEF Succ, Cells
    <3>4. CASE j + K > numElems
      <4>1. numElems >= 2 * K BY <1>2, <2>1 DEF Blocks
      <4> QED BY <1>1, <1>2, <3>2, <3>4, <4>1 DEF Succ, Cells
    <3> QED BY <1>1, <1>2, <3>2, <3>3, <3>4
  <2>3. \A j \in Cells : data[j] \in Cells BY <1>3, <2>1, <2>2
  <2>4. data \in [Cells -> Cells] BY <1>4, <2>3
  <2> QED BY <1>2, <1>3, <1>5, <2>1, <2>4
<1>8. call.layout \in Layouts BY DEF ChaseInv, TypeOK, Calls
<1> QED BY <1>2, <1>3, <1>5, <1>6, <1>7, <1>8 DEF Layouts, OneStep

\* The host starts at the successor of cell 0.
LEMMA StartWalkInv == ChaseInv /\ StartWalk => ChaseInv'
<1> SUFFICES ASSUME ChaseInv, StartWalk PROVE ChaseInv'
    OBVIOUS
<1> USE DEF hostVars, kernelVars
<1>1. KernelIterations' = KernelIterations
    BY DEF StartWalk, KernelIterations
<1>2. K \in Nat /\ K > 1 /\ UIntMod \in Nat BY WidthAssumption
<1>3. /\ 0 \in Cells /\ 1 \in Cells
      /\ numElems \in Nat /\ (numElems = K \/ numElems \in Blocks)
      /\ OneStep => data[0] = 0
      /\ ~OneStep => data[0] = 1
    BY LaidCells DEF StartWalk
<1>4. numElems \in 0..(UIntMod - 1) BY DEF ChaseInv, TypeOK
<1>5. 1 \in 0..(UIntMod - 1) /\ 0 \in 0..(UIntMod - 1)
    BY <1>2, <1>3, <1>4 DEF Cells
<1>6. TypeOK'
    BY <1>1, <1>3, <1>5
    DEF StartWalk, ChaseInv, TypeOK, Cells, Steps, Layouts
<1>7. Row(1) = 0 BY <1>2, RowStart
<1>8. WalkInv'
    BY <1>2, <1>3, <1>7 DEF StartWalk, WalkInv, OneStep, Row
<1> QED
    BY <1>1, <1>6, <1>8 DEF StartWalk, ChaseInv, SizeInv, BuildInv, LaidInv,
       KernelInv, StopsOnlyOnTinyBlocks, OneStep, Cells, Layouts, Succ

\* The number of hops to cell i determines whether the cycle closes there,
\* and what it is for the successor of i.
LEMMA HopCount ==
    ASSUME NEW N \in Blocks, NEW i \in Nat \ {0}, NEW n \in Nat, i < N,
           K * (n - 1) = (Row(i) * (N - 1)) + (i - 1)
    PROVE  /\ n < N
           /\ Succ(i, N) = 0 => n + 1 = N
           /\ Succ(i, N) # 0 =>
                K * n = (Row(Succ(i, N)) * (N - 1)) + (Succ(i, N) - 1)
<1>1. K \in Nat /\ K > 1 /\ N \in Nat /\ N >= 2 * K
    BY WidthAssumption DEF Blocks
<1>2. Row(i) \in 0..(K - 1) BY RowType, <1>1
<1>3. K * n = K * (n - 1) + K BY <1>1
<1>4. n < N
  <2>1. SUFFICES ASSUME n >= N PROVE FALSE BY <1>1
  <2>2. ((K - 1) - Row(i)) * (N - 1) >= 0 BY <1>1, <1>2
  <2>3. Row(i) * (N - 1) <= (K - 1) * (N - 1) BY <1>1, <1>2, <2>2
  <2>4. (K - 1) * (N - 1) = (K * (N - 1)) - (N - 1) BY <1>1
  <2>5. (n - N) * K >= 0 BY <1>1, <2>1
  <2>6. K * (n - 1) >= K * (N - 1) BY <1>1, <2>5
  <2> QED BY <1>1, <1>2, <2>3, <2>4, <2>6
<1>5. CASE i + K < N
  <2>1. Succ(i, N) = i + K BY <1>5 DEF Succ
  <2>2. Row(i + K) = Row(i) BY RowStride
  <2>3. i + K # 0 BY <1>1
  <2> QED BY <1>1, <1>2, <1>3, <1>4, <2>1, <2>2, <2>3
<1>6. CASE i + K > N
  <2> DEFINE t == i + K - (N - 1)
  <2>1. Row(t) = Row(i) + 1 /\ t \in 2..K BY <1>6, RowTurn
  <2>2. Succ(i, N) = t BY <1>1, <1>6 DEF Succ
  <2>3. t - 1 = (i - 1) + K - (N - 1) BY <1>1
  <2> HIDE DEF t
  <2>4. (Row(i) + 1) * (N - 1) = (Row(i) * (N - 1)) + (N - 1) BY <1>1, <1>2
  <2>5. Row(i) * (N - 1) \in Int BY <1>1, <1>2
  <2>6. K * n = ((Row(i) + 1) * (N - 1)) + (t - 1)
      BY <1>1, <1>3, <2>3, <2>4, <2>5
  <2> QED BY <1>1, <1>4, <2>1, <2>2, <2>6
<1>7. CASE i + K = N
  <2>1. i = N - K /\ Succ(i, N) = 0 BY <1>1, <1>7 DEF Succ
  <2>2. Row(i) = K - 1 BY <2>1, RowClose
  <2>3. (K - 1) * (N - 1) = (K * (N - 1)) - (N - 1) BY <1>1
  <2>4. K * (N - 1) = K * (n + 1 - 1)
      BY <1>1, <1>3, <2>1, <2>2, <2>3
  <2>5. K * (N - (n + 1)) = 0 BY <1>1, <2>4
  <2>6. N - (n + 1) = 0 BY <1>1, <2>5
  <2> QED BY <1>1, <1>4, <2>1, <2>6
<1> QED BY <1>1, <1>5, <1>6, <1>7

\* A hop of the host's walk.
LEMMA WalkHopInv == ChaseInv /\ WalkHop => ChaseInv'
<1> SUFFICES ASSUME ChaseInv, WalkHop PROVE ChaseInv'
    OBVIOUS
<1> USE DEF hostVars, kernelVars
<1>1. KernelIterations' = KernelIterations
    BY DEF WalkHop, KernelIterations
<1>2. K \in Nat /\ K > 1 /\ UIntMod \in Nat \ {0} BY WidthAssumption
<1>3. pc = "walk" /\ next # 0 /\ next \in Cells /\ ~OneStep
    BY DEF WalkHop, ChaseInv, TypeOK, WalkInv
<1>4. /\ numElems \in Nat /\ (numElems = K \/ numElems \in Blocks)
      /\ data \in [Cells -> Cells]
    BY <1>3, LaidCells
<1>5. numElems \in 0..(UIntMod - 1) /\ opcount \in 0..(UIntMod - 1)
      /\ expected \in 0..(UIntMod - 1)
    BY DEF ChaseInv, TypeOK
<1>6. next' = data[next] /\ next' \in Cells BY <1>3, <1>4 DEF WalkHop
<1>7. /\ opcount < numElems
      /\ next' = 0 => opcount + 1 = numElems
      /\ next' # 0 /\ call.layout = "sequential" => opcount + 1 = next'
      /\ next' # 0 /\ call.layout = "cache_step" =>
           K * ((opcount + 1) - 1)
             = (Row(next') * (numElems - 1)) + (next' - 1)
  <2>1. CASE call.layout = "sequential"
    <3>1. data = [i \in Cells |-> IF i = numElems - 1 THEN 0 ELSE i + 1]
        BY <1>3, <2>1 DEF ChaseInv, LaidInv
    <3>2. opcount = next BY <1>3, <2>1 DEF ChaseInv, WalkInv
    <3> QED BY <1>3, <1>4, <1>6, <2>1, <3>1, <3>2 DEF Cells
  <2>2. CASE call.layout = "cache_step"
    <3>1. numElems \in Blocks BY <1>3, <1>4, <2>2 DEF OneStep
    <3>2. next' = Succ(next, numElems)
        BY <1>3, <1>6, <2>2 DEF ChaseInv, LaidInv, OneStep
    <3>3. K * (opcount - 1) = (Row(next) * (numElems - 1)) + (next - 1)
        BY <1>3, <2>2 DEF ChaseInv, WalkInv
    <3>4. next \in Nat \ {0} /\ next < numElems /\ opcount \in Nat
        BY <1>3, <1>4, <1>5 DEF Cells
    <3>5. /\ opcount < numElems
          /\ next' = 0 => opcount + 1 = numElems
          /\ next' # 0 =>
               K * opcount = (Row(next') * (numElems - 1)) + (next' - 1)
        BY <3>1, <3>2, <3>3, <3>4, HopCount
    <3>6. (opcount + 1) - 1 = opcount BY <3>4
    <3> QED BY <2>2, <3>5, <3>6
  <2>3. call.layout \in Layouts BY DEF ChaseInv, TypeOK, Calls
  <2> QED BY <2>1, <2>2, <2>3 DEF Layouts
<1>8. opcount' = opcount + 1 /\ opcount' \in 0..(UIntMod - 1)
  <2>1. opcount + 1 \in 0..(UIntMod - 1) BY <1>2, <1>4, <1>5, <1>7
  <2>2. (opcount + 1) % UIntMod = opcount + 1 BY <1>2, <2>1, ModSmall, Zenon
  <2> QED BY <2>1, <2>2 DEF WalkHop
<1>9. expected' \in 0..(UIntMod - 1)
  <2>1. expected + next' \in Int BY <1>4, <1>5, <1>6 DEF Cells
  <2>2. (expected + next') % UIntMod \in 0..(UIntMod - 1)
      BY <1>2, <2>1, DivMod, Zenon
  <2> QED BY <1>5, <2>2 DEF WalkHop
<1>10. TypeOK'
    BY <1>1, <1>6, <1>8, <1>9
    DEF WalkHop, ChaseInv, TypeOK, Cells, Steps, Layouts
<1>11. WalkInv'
    BY <1>3, <1>7, <1>8 DEF WalkHop, WalkInv, OneStep, Row
<1> QED
    BY <1>1, <1>3, <1>10, <1>11 DEF WalkHop, ChaseInv, SizeInv, BuildInv,
       LaidInv, KernelInv, StopsOnlyOnTinyBlocks, OneStep, Cells, Layouts, Succ

\* The assertion: the one block whose chain is not a full cycle stops here.
LEMMA EndWalkInv == ChaseInv /\ EndWalk => ChaseInv'
<1> SUFFICES ASSUME ChaseInv, EndWalk PROVE ChaseInv'
    OBVIOUS
<1> USE DEF hostVars, kernelVars
<1>1. KernelIterations' = KernelIterations
    BY DEF EndWalk, KernelIterations
<1>2. K \in Nat /\ K > 1 /\ UIntMod \in Nat \ {0} BY WidthAssumption
<1>3. pc = "walk" /\ next = 0 /\ call' = call /\ numElems' = numElems
    BY DEF EndWalk
<1>4. expected' \in 0..(UIntMod - 1)
  <2>1. call.iterations \in Int /\ expected \in Int
      BY IterationsType DEF ChaseInv, TypeOK
  <2>2. expected * call.iterations \in Int BY <2>1
  <2>3. (expected * call.iterations) % UIntMod \in 0..(UIntMod - 1)
      BY <1>2, <2>2, DivMod, Zenon
  <2> QED BY <2>3 DEF EndWalk
<1>5. 0 \in Cells BY <1>3, LaidCells
<1>6. pc' \in {"abort", "copy", "kernel"} BY DEF EndWalk
<1>7. shared' = [i \in Cells |-> Garbage] BY DEF EndWalk
<1>8. knext = 0 /\ copied = 0 /\ hop = 0
    BY <1>3 DEF ChaseInv, KernelInv
<1>9. TypeOK'
    BY <1>1, <1>3, <1>4, <1>5, <1>6, <1>7, <1>8
    DEF EndWalk, ChaseInv, TypeOK, Cells, Steps, Layouts
<1>10. /\ pc' = "abort" => OneStep
       /\ pc' # "abort" => ~OneStep /\ opcount = numElems
    BY <1>2, <1>3 DEF EndWalk, ChaseInv, WalkInv, OneStep
<1>11. 0 % CopyUnroll = 0 BY ModSmall, WidthAssumption
<1>12. KernelInv'
  <2>1. /\ data' = data /\ opcount' = opcount
        /\ copied' = 0 /\ knext' = 0 /\ hop' = 0
        /\ pc' = "copy" => call.mt = "local"
        /\ pc' = "kernel" => call.mt # "local"
        /\ OneStep' <=> OneStep
      BY <1>3, <1>8 DEF EndWalk, OneStep
  <2>2. pc' = "kernel" => (Traversed = data)'
      BY <1>3, <2>1 DEF Traversed
  <2>3. 0 <= numElems BY <1>2 DEF ChaseInv, TypeOK
  <2>4. 0..(0 - 1) = {} OBVIOUS
  <2> QED
      BY <1>3, <1>6, <1>10, <1>11, <2>1, <2>2, <2>3, <2>4 DEF KernelInv
<1>13. LaidInv'
    BY <1>3, <1>6 DEF EndWalk, ChaseInv, LaidInv, OneStep, Cells, Succ
<1> QED
    BY <1>3, <1>6, <1>9, <1>10, <1>12, <1>13 DEF EndWalk, ChaseInv, SizeInv,
       BuildInv, WalkInv, StopsOnlyOnTinyBlocks, OneStep, Layouts

\* One unrolled block of the copy into local memory.
LEMMA CopyBlockInv == ChaseInv /\ CopyBlock => ChaseInv'
<1> SUFFICES ASSUME ChaseInv, CopyBlock PROVE ChaseInv'
    OBVIOUS
<1> USE DEF hostVars, kernelVars
<1>1. KernelIterations' = KernelIterations
    BY DEF CopyBlock, KernelIterations
<1>2. /\ pc = "copy" /\ pc' = "copy" /\ copied < numElems
      /\ copied' = copied + CopyUnroll
      /\ call' = call /\ numElems' = numElems /\ data' = data
      /\ opcount' = opcount /\ knext' = knext /\ hop' = hop
    BY DEF CopyBlock
<1>3. /\ copied \in Nat /\ copied % CopyUnroll = 0 /\ call.mt = "local"
      /\ \A i \in 0..(copied - 1) : shared[i] = data[i]
      /\ ~OneStep /\ opcount = numElems /\ knext = 0 /\ hop = 0
    BY <1>2 DEF ChaseInv, TypeOK, KernelInv
<1>4. numElems \in Nat /\ numElems % K = 0
      /\ K \in Nat \ {0} /\ CopyUnroll \in Nat \ {0} /\ K % CopyUnroll = 0
    BY WidthAssumption DEF ChaseInv, TypeOK, SizeInv
<1>5. numElems % CopyUnroll = 0
  <2>1. numElems \in Nat \ {0} BY <1>2, <1>3, <1>4
  <2> QED BY <1>4, <2>1, ModDivides, Zenon
<1>6. copied + CopyUnroll <= numElems
    BY <1>2, <1>3, <1>4, <1>5, MultiplesApart, Zenon
<1>7. (copied + CopyUnroll) % CopyUnroll = 0
  <2>1. copied \in Int BY <1>3
  <2> QED BY <1>3, <1>4, <2>1, ModPlus, Zenon
<1>8. shared' = [i \in Cells |-> IF i \in copied..(copied + CopyUnroll - 1)
                                 THEN data[i] ELSE shared[i]]
    BY DEF CopyBlock
<1>9. data \in [Cells -> Cells] BY <1>2, <1>3, LaidCells
<1>10. shared \in [Cells -> Cells \cup {Garbage}]
    BY <1>2 DEF ChaseInv, TypeOK
<1>11. shared' \in [Cells -> Cells \cup {Garbage}] BY <1>8, <1>9, <1>10
<1>12. \A i \in 0..(copied' - 1) : shared'[i] = data[i]
    BY <1>2, <1>3, <1>4, <1>6, <1>8 DEF Cells
<1>13. copied' \in Nat BY <1>2, <1>3, <1>4
<1>14. TypeOK'
    BY <1>1, <1>2, <1>11, <1>13 DEF CopyBlock, ChaseInv, TypeOK, Cells, Steps
<1>15. KernelInv'
    BY <1>1, <1>2, <1>3, <1>6, <1>7, <1>12 DEF KernelInv, OneStep
<1> QED
    BY <1>2, <1>14, <1>15 DEF CopyBlock, ChaseInv, SizeInv, BuildInv,
       LaidInv, WalkInv, StopsOnlyOnTinyBlocks, OneStep, Cells, Layouts, Succ

\* The end of the copy.
LEMMA CopyDoneInv == ChaseInv /\ CopyDone => ChaseInv'
<1> SUFFICES ASSUME ChaseInv, CopyDone PROVE ChaseInv'
    OBVIOUS
<1> USE DEF hostVars, kernelVars
<1>1. KernelIterations' = KernelIterations
    BY DEF CopyDone, KernelIterations
<1>2. /\ pc = "copy" /\ pc' = "kernel" /\ copied >= numElems
      /\ copied \in Nat /\ copied <= numElems /\ call.mt = "local"
      /\ \A i \in 0..(copied - 1) : shared[i] = data[i]
      /\ ~OneStep /\ opcount = numElems /\ hop = 0
    BY DEF CopyDone, ChaseInv, TypeOK, KernelInv
<1>3. numElems \in Nat /\ data \in [Cells -> Cells]
      /\ shared \in [Cells -> Cells \cup {Garbage}]
    BY <1>2, LaidCells DEF ChaseInv, TypeOK
<1>4. copied = numElems BY <1>2, <1>3
<1>5. shared = data BY <1>2, <1>3, <1>4 DEF Cells
<1>6. TypeOK'
    BY <1>1, <1>2 DEF CopyDone, ChaseInv, TypeOK, Cells, Steps, Layouts
<1>7. KernelInv'
    BY <1>1, <1>2, <1>4, <1>5 DEF CopyDone, KernelInv, OneStep, Traversed
<1> QED
    BY <1>2, <1>6, <1>7 DEF CopyDone, ChaseInv, SizeInv, BuildInv,
       LaidInv, WalkInv, StopsOnlyOnTinyBlocks, OneStep, Cells, Layouts, Succ

\* A load of the kernel.
LEMMA LoadInv == ChaseInv /\ Load => ChaseInv'
<1> SUFFICES ASSUME ChaseInv, Load PROVE ChaseInv'
    OBVIOUS
<1> USE DEF hostVars, kernelVars
<1>1. KernelIterations' = KernelIterations /\ Traversed' = Traversed
    BY DEF Load, KernelIterations, Traversed
<1>2. /\ pc = "kernel" /\ pc' = "kernel" /\ ~OneStep /\ Traversed = data
      /\ knext \in Cells
    BY DEF Load, ChaseInv, TypeOK, KernelInv
<1>3. data \in [Cells -> Cells] BY <1>2, LaidCells
<1>4. knext' \in Cells BY <1>2, <1>3 DEF Load
<1>5. hop' \in 0..K /\ loads' \in Nat
    BY WidthAssumption DEF Load, ChaseInv, TypeOK
<1>6. TypeOK'
    BY <1>1, <1>2, <1>4, <1>5 DEF Load, ChaseInv, TypeOK, Cells, Steps, Layouts
<1>7. KernelInv'
    BY <1>1, <1>2 DEF Load, ChaseInv, KernelInv, OneStep
<1> QED
    BY <1>2, <1>6, <1>7 DEF Load, ChaseInv, SizeInv, BuildInv,
       LaidInv, WalkInv, StopsOnlyOnTinyBlocks, OneStep, Cells, Layouts, Succ

\* The end of an unrolled block of the kernel.
LEMMA AccumulateInv == ChaseInv /\ Accumulate => ChaseInv'
<1> SUFFICES ASSUME ChaseInv, Accumulate PROVE ChaseInv'
    OBVIOUS
<1> USE DEF hostVars, kernelVars
<1>1. KernelIterations' = KernelIterations /\ Traversed' = Traversed
    BY DEF Accumulate, KernelIterations, Traversed
<1>2. K \in Nat /\ K > 1 /\ UIntMod \in Nat \ {0} BY WidthAssumption
<1>3. pc = "kernel" /\ pc' = "kernel" /\ hop = K
    BY DEF Accumulate
<1>4. iter < KernelIterations /\ KernelIterations \in Nat
    BY <1>2, <1>3, IterationsType DEF ChaseInv, TypeOK, KernelInv
<1>5. iter' \in 0..KernelIterations
    BY <1>4 DEF Accumulate, ChaseInv, TypeOK
<1>6. res' \in 0..(UIntMod - 1)
  <2>1. res + knext \in Int BY <1>3 DEF ChaseInv, TypeOK, Cells
  <2>2. (res + knext) % UIntMod \in 0..(UIntMod - 1)
      BY <1>2, <2>1, DivMod, Zenon
  <2> QED BY <2>2 DEF Accumulate
<1>7. TypeOK'
    BY <1>1, <1>2, <1>3, <1>5, <1>6
    DEF Accumulate, ChaseInv, TypeOK, Cells, Steps, Layouts
<1>8. KernelInv'
    BY <1>1, <1>3 DEF Accumulate, ChaseInv, KernelInv, OneStep
<1> QED
    BY <1>3, <1>7, <1>8 DEF Accumulate, ChaseInv, SizeInv, BuildInv,
       LaidInv, WalkInv, StopsOnlyOnTinyBlocks, OneStep, Cells, Layouts, Succ

\* The return.
LEMMA ReturnInv == ChaseInv /\ Return => ChaseInv'
<1> SUFFICES ASSUME ChaseInv, Return PROVE ChaseInv'
    OBVIOUS
<1> USE DEF hostVars, kernelVars
<1>1. KernelIterations' = KernelIterations
    BY DEF Return, KernelIterations
<1>2. ops' \in 0..(ULongMod - 1)
  <2>1. call.iterations \in Int /\ opcount \in Int /\ ULongMod \in Nat \ {0}
      BY IterationsType, BytesAssumption DEF ChaseInv, TypeOK
  <2>2. call.iterations * opcount \in Int BY <2>1
  <2>3. (call.iterations * opcount) % ULongMod \in 0..(ULongMod - 1)
      BY <2>1, <2>2, DivMod, Zenon
  <2> QED BY <2>3 DEF Return
<1>3. pc = "kernel" /\ pc' = "done" BY DEF Return
<1>4. TypeOK'
    BY <1>1, <1>2, <1>3 DEF Return, ChaseInv, TypeOK, Cells, Steps, Layouts
<1> QED
    BY <1>1, <1>3, <1>4 DEF Return, ChaseInv, SizeInv, BuildInv, LaidInv,
       WalkInv, KernelInv, StopsOnlyOnTinyBlocks, OneStep, Layouts
-----------------------------------------------------------------------------
(* The theorems.                                                           *)

\* Every step of the call preserves the invariant.
LEMMA NextInv == ChaseInv /\ [Next]_vars => ChaseInv'
<1> SUFFICES ASSUME ChaseInv, [Next]_vars PROVE ChaseInv'
    OBVIOUS
<1>1. CASE AdjustSize BY <1>1, AdjustSizeInv
<1>2. CASE Layout
    BY <1>2, StoreOutsideInv, FillSequentialInv, FirstHopInv,
       ChainStrideInv, ChainWrapInv, ChainCloseInv DEF Layout
<1>3. CASE Walk
    BY <1>3, StartWalkInv, WalkHopInv, EndWalkInv DEF Walk
<1>4. CASE Kernel
    BY <1>4, CopyBlockInv, CopyDoneInv, LoadInv, AccumulateInv, ReturnInv
    DEF Kernel
<1>5. CASE UNCHANGED vars
  <2>1. KernelIterations' = KernelIterations /\ (OneStep' <=> OneStep)
        /\ Traversed' = Traversed /\ Cells' = Cells
      BY <1>5 DEF vars, KernelIterations, OneStep, Traversed, Cells
  <2> QED
      BY <1>5, <2>1 DEF vars, ChaseInv, TypeOK, SizeInv, BuildInv, LaidInv,
         WalkInv, KernelInv, StopsOnlyOnTinyBlocks, Before, Row, Succ
<1> QED BY <1>1, <1>2, <1>3, <1>4, <1>5 DEF Next

\* The invariant holds of every call, for every width of the integers, every
\* cache step and every set of sizes, devices and iteration counts.
THEOREM ChaseInvariant == Spec => []ChaseInv
  BY InitInv, NextInv, PTL DEF Spec

\* No walk, of the host or of the kernel, and no store into a block that is
\* not empty leaves the block.
THEOREM TypeCorrect == Spec => []TypeOK
<1>1. ChaseInv => TypeOK BY DEF ChaseInv
<1> QED BY <1>1, ChaseInvariant, PTL

\* The assertion of mem_latency.cpp:146 can fail only on a block of one cache
\* step, and the layout stores outside the block only when it is empty.
THEOREM AssertionHolds == Spec => []StopsOnlyOnTinyBlocks
<1>1. ChaseInv => StopsOnlyOnTinyBlocks BY DEF ChaseInv
<1> QED BY <1>1, ChaseInvariant, PTL

\* index + CACHE_STEP_WIDTH never wraps in the 32 bits of a cl_uint.
THEOREM NoWrap == Spec => []NextIndexDoesNotWrap
<1>1. ChaseInv => NextIndexDoesNotWrap
    BY NewIndex DEF NextIndexDoesNotWrap
<1> QED BY <1>1, ChaseInvariant, PTL

\* The kernel chases the host's chain, from global or from local memory.
THEOREM CopyExact == Spec => []CopyIsExact
<1>1. ChaseInv => CopyIsExact BY DEF ChaseInv, KernelInv, CopyIsExact
<1> QED BY <1>1, ChaseInvariant, PTL

\* Every hop of the cache-step layout but the first one crosses at least
\* CACHE_STEP_WIDTH - 1 words.
THEOREM FarHops == Spec => []HopsLeaveTheLine
<1>1. ChaseInv => HopsLeaveTheLine
  <2> SUFFICES ASSUME ChaseInv, pc = "walk", call.layout = "cache_step",
                      numElems >= 2 * K, NEW i \in Cells \ {0}
               PROVE  data[i] >= i + (K - 1) \/ data[i] <= i - (K - 1)
      BY DEF HopsLeaveTheLine
  <2>1. K \in Nat /\ K > 1 /\ numElems \in Nat
      BY WidthAssumption DEF ChaseInv, TypeOK
  <2>2. numElems # K BY <2>1
  <2>3. data[i] = Succ(i, numElems) BY <2>2 DEF ChaseInv, LaidInv
  <2>4. i \in Nat /\ i > 0 /\ i < numElems BY <2>1 DEF Cells
  <2> QED BY <2>1, <2>3, <2>4 DEF Succ
<1> QED BY <1>1, ChaseInvariant, PTL

\* While the chain of a block of at least two steps is built, no cell is
\* linked twice, and none is left out.
THEOREM LinkedOnce == Spec => EachCellLinkedOnce
<1> DEFINE Once == pc = "chain" /\ numElems >= 2 * K =>
         /\ \A i \in Cells : data[i] # Garbage => data'[i] = data[i]
         /\ pc' = "start" => \A i \in Cells : data'[i] # Garbage
<1>1. ChaseInv /\ ChaseInv' /\ [Next]_vars => [Once]_vars
  <2> SUFFICES ASSUME ChaseInv, ChaseInv', Next, pc = "chain",
                      numElems >= 2 * K
               PROVE  /\ \A i \in Cells : data[i] # Garbage => data'[i] = data[i]
                      /\ pc' = "start" => \A i \in Cells : data'[i] # Garbage
      OBVIOUS
  <2>1. /\ data' = [data EXCEPT ![index] = data'[index]]
        /\ numElems' = numElems /\ call' = call
    <3>1. data \in [Cells -> Cells \cup {Garbage}] /\ index \in Cells
        BY DEF ChaseInv, TypeOK
    <3>2. CASE \E t : ChainTo(t) BY <3>1, <3>2 DEF ChainTo
    <3>3. CASE ChainClose BY <3>1, <3>3 DEF ChainClose
    <3> QED
        BY <3>2, <3>3 DEF Next, Layout, Walk, Kernel, AdjustSize,
           StoreOutside, FillSequential, FirstHop, ChainStride, ChainWrap,
           StartWalk, WalkHop, EndWalk, CopyBlock, CopyDone, Load,
           Accumulate, Return, Over, Layouts
  <2>2. K \in Nat /\ K > 1 /\ numElems # K /\ call.layout = "cache_step"
        /\ 0 \in Cells /\ data[0] = 1 /\ index \in Cells \ {0}
        /\ data[index] = Garbage
    <3>1. K \in Nat /\ K > 1 /\ numElems \in Nat
        BY WidthAssumption DEF ChaseInv, TypeOK
    <3>2. numElems # K /\ 0 \in Cells BY <3>1 DEF Cells
    <3>3. index \in Cells \ {0} BY <3>2 DEF ChaseInv, TypeOK, BuildInv
    <3>4. ~Before(index, index)
        BY <3>1, <3>3, RowType DEF Before, Cells
    <3> QED BY <3>1, <3>2, <3>3, <3>4 DEF ChaseInv, BuildInv
  <2>3. data \in [Cells -> Cells \cup {Garbage}] BY DEF ChaseInv, TypeOK
  <2>4. \A i \in Cells : data[i] # Garbage => data'[i] = data[i]
      BY <2>1, <2>2, <2>3
  <2>5. ASSUME pc' = "start", NEW i \in Cells PROVE data'[i] # Garbage
    <3>1. data'[0] = 1 /\ \A j \in Cells \ {0} : data'[j] = Succ(j, numElems)
        BY <2>1, <2>2, <2>5 DEF ChaseInv, LaidInv, Cells, Succ
    <3>2. numElems \in Nat /\ i \in Int BY DEF Cells, ChaseInv, TypeOK
    <3>3. \A j \in Int : Succ(j, numElems) \in Int BY <2>2, <3>2 DEF Succ
    <3>4. data'[i] \in Int BY <3>1, <3>2, <3>3
    <3> QED BY <3>4, GarbageAssumption
  <2> QED BY <2>4, <2>5
<1>2. [][ChaseInv /\ ChaseInv' /\ [Next]_vars]_vars => [][Once]_vars
    BY <1>1, PTL
<1> QED BY <1>2, ChaseInvariant, PTL DEF Spec, EachCellLinkedOnce

\* The block never exceeds what the device reports.
THEOREM BlockFits == Spec => []FitsTheDevice
<1> DEFINE Fit == /\ call \in Calls
                  /\ numElems = IF pc = "adjust" THEN 0 ELSE FittedElems(call)
<1>1. Init => Fit BY DEF Init
<1>2. Fit /\ [Next]_vars => Fit'
  <2> SUFFICES ASSUME Fit, [Next]_vars PROVE Fit'
      OBVIOUS
  <2>1. call' = call BY DEF Next, Layout, Walk, Kernel, vars, AdjustSize,
           StoreOutside, FillSequential, FirstHop, ChainStride, ChainWrap,
           ChainTo, ChainClose, StartWalk, WalkHop, EndWalk, CopyBlock,
           CopyDone, Load, Accumulate, Return
  <2>2. CASE AdjustSize
    <3>1. call.layout \in Layouts BY DEF Calls
    <3>2. pc' # "adjust" BY <2>2, <3>1 DEF AdjustSize, Layouts
    <3> QED BY <2>1, <2>2, <3>2 DEF AdjustSize
  <2>3. CASE ~AdjustSize
    <3>1. numElems' = numElems /\ (pc' = "adjust" <=> pc = "adjust")
        BY <2>3 DEF Next, Layout, Walk, Kernel, vars,
           StoreOutside, FillSequential, FirstHop, ChainStride, ChainWrap,
           ChainTo, ChainClose, StartWalk, WalkHop, EndWalk, CopyBlock,
           CopyDone, Load, Accumulate, Return, Layouts
    <3> QED BY <2>1, <3>1
  <2> QED BY <2>2, <2>3
<1>3. Fit => FitsTheDevice
  <2> SUFFICES ASSUME Fit, call.mem >= Headroom
               PROVE  numElems * WordBytes <=
                        IF call.mt = "local" /\ call.accelerator
                        THEN call.mem \div 2 ELSE call.mem - Headroom
      BY DEF FitsTheDevice
  <2> DEFINE size == IF call.size > Limit(call) THEN Limit(call)
                                                ELSE call.size
             words == size \div WordBytes
             elems == words % UIntMod
             room  == IF call.mt = "local" /\ call.accelerator
                      THEN call.mem \div 2 ELSE call.mem - Headroom
  <2>1. /\ call.size \in 0..(ULongMod - 1) /\ call.mem \in 0..(ULongMod - 1)
        /\ Headroom \in Nat /\ WordBytes \in Nat \ {0} /\ ULongMod \in Nat
        /\ UIntMod \in Nat \ {0}
    <3>1. call.size \in Requests /\ call.mem \in MemSizes BY DEF Calls
    <3>2. call.size \in 0..(ULongMod - 1) /\ call.mem \in 0..(ULongMod - 1)
        BY <3>1, InputAssumption
    <3> QED BY <3>2, BytesAssumption, WidthAssumption
  <2>2. (call.mem - Headroom) % ULongMod = call.mem - Headroom
    <3>1. call.mem - Headroom \in 0..(ULongMod - 1)
          /\ ULongMod \in Nat \ {0}
        BY <2>1
    <3> QED BY <3>1, ModSmall, Zenon
  <2>3. Limit(call) \in Nat /\ Limit(call) <= room /\ room \in Nat
      BY <2>1, <2>2 DEF Limit
  <2>4. size \in Nat /\ size <= room BY <2>1, <2>3
  <2> HIDE DEF size, room
  <2>5. words \in Int /\ WordBytes * words <= size BY <2>1, <2>4, DivMod
  <2>6. words >= 0
    <3>1. SUFFICES ASSUME words <= -1 PROVE FALSE BY <2>5
    <3>2. size < WordBytes * (words + 1)
      <4>1. size = (WordBytes * words) + (size % WordBytes)
            /\ size % WordBytes \in 0..(WordBytes - 1)
          BY <2>1, <2>4, DivMod
      <4> QED BY <2>1, <2>5, <4>1
    <3>3. WordBytes * (0 - (words + 1)) >= 0 BY <2>1, <2>5, <3>1
    <3> QED BY <2>1, <2>4, <2>5, <3>2, <3>3
  <2> HIDE DEF words
  <2>7. elems \in Nat /\ elems <= words
    <3>1. /\ words = (UIntMod * (words \div UIntMod)) + elems
          /\ elems \in 0..(UIntMod - 1) /\ words \div UIntMod \in Int
        BY <2>1, <2>5, DivMod
    <3>2. CASE words < UIntMod
      <4>1. words \in 0..(UIntMod - 1) BY <2>1, <2>5, <2>6, <3>2
      <4> QED BY <2>1, <4>1, ModSmall
    <3>3. CASE words >= UIntMod BY <2>1, <2>5, <3>1, <3>3
    <3> QED BY <2>1, <2>5, <3>2, <3>3
  <2> HIDE DEF elems
  <2>8. numElems \in Nat /\ numElems <= elems
    <3>1. CASE pc = "adjust" BY <2>7, <3>1
    <3>2. CASE pc # "adjust"
      <4>1. numElems = elems - (elems % K)
          BY <3>2 DEF FittedElems, elems, words, size
      <4>2. elems - (elems % K) \in 0..elems BY <2>7, RoundDown
      <4> QED BY <2>7, <4>1, <4>2
    <3> QED BY <3>1, <3>2
  <2>9. numElems * WordBytes <= WordBytes * words
    <3>1. (words - numElems) * WordBytes >= 0 BY <2>1, <2>5, <2>7, <2>8
    <3> QED BY <2>1, <2>5, <2>8, <3>1
  <2> QED BY <2>1, <2>3, <2>4, <2>5, <2>8, <2>9 DEF room
<1> QED BY <1>1, <1>2, <1>3, PTL DEF Spec
-----------------------------------------------------------------------------
(* The sums.                                                               *)

\* The cells of the chain d of N cells, in the order a walk comes to them,
\* and what it has summed on the way to each.
Hops(d, N) == LET hops[n \in 0..N] == IF n = 0 THEN 0 ELSE d[hops[n - 1]]
              IN  hops
Sums(d, N) == LET sums[n \in 0..N] ==
                    IF n = 0 THEN 0
                    ELSE sums[n - 1] + IF n % K = 0 THEN Hops(d, N)[n] ELSE 0
              IN  sums

\* A walk is at cell c, which is not the first, after n hops.
Placed(c, n) ==
    /\ call.layout = "sequential" => n = c
    /\ call.layout = "cache_step" => K * (n - 1) = (Row(c) * (numElems - 1)) + (c - 1)

\* The loads of the iteration the kernel is in.
turn == loads - (iter * numElems)

\* What the kernel has not added yet of what it has come to.
Pending == IF hop = K THEN knext ELSE 0

(* The sum the host expects is that of its walk, for all the iterations.   *)
ExpectedInv ==
    /\ pc = "walk" /\ ~OneStep =>
         /\ opcount \in 1..numElems
         /\ next = Hops(data, numElems)[opcount]
         /\ expected = Sums(data, numElems)[opcount] % UIntMod
    /\ pc \in {"copy", "kernel"} =>
         expected = (Sums(data, numElems)[numElems] * call.iterations) % UIntMod

(* The kernel walks the same chain, and adds where the host did.           *)
TurnInv ==
    /\ pc \notin {"kernel", "done"} => loads = 0 /\ iter = 0 /\ res = 0
    /\ pc = "kernel" =>
         /\ turn \in 0..numElems /\ hop <= turn /\ (turn - hop) % K = 0
         /\ turn > 0 => iter < KernelIterations
         /\ knext = 0 => (turn = 0 /\ hop = 0) \/ (turn = numElems /\ hop = K)
         /\ knext # 0 => Placed(knext, turn)
         /\ knext = Hops(data, numElems)[turn]
         /\ res = ((iter * Sums(data, numElems)[numElems])
                     + Sums(data, numElems)[turn] - Pending) % UIntMod

ReturnedInv == ResultAgrees /\ OpsArePerformed

SumInv == ExpectedInv /\ TurnInv /\ ReturnedInv
-----------------------------------------------------------------------------
(* The walk, as a sequence of cells.                                       *)

\* A set of numbers has a least one.
LEMMA LeastNat ==
    ASSUME NEW T \in SUBSET Nat, T # {}
    PROVE  \E x \in T : \A y \in T : x <= y
<1> DEFINE R == OpToRel(<, Nat)
<1>1. IsWellFoundedOn(R, Nat)
    BY NatLessThanWellFounded
<1>2. PICK x \in T : \A y \in T : ~(<<y, x>> \in R)
  <2> HIDE DEF R
  <2> QED BY <1>1, WFMin
<1>3. \A y \in T : ~(y < x)
    BY <1>2 DEF OpToRel
<1> QED BY <1>3

\* Functions on the numbers up to p that start at 0, and go on by d, or by
\* adding what e says.
IsIterated(h, d, p) == h = [n \in 0..p |-> IF n = 0 THEN 0 ELSE d[h[n - 1]]]
IsSummed(s, e, p)   == s = [n \in 0..p |-> IF n = 0 THEN 0 ELSE s[n - 1] + e[n]]

\* There are such, for every p.
LEMMA IteratedExists ==
    ASSUME NEW d, NEW q \in Nat
    PROVE  \E h : IsIterated(h, d, q)
<1> DEFINE T == {p \in Nat : ~\E h : IsIterated(h, d, p)}
<1> SUFFICES ASSUME T # {} PROVE FALSE
    OBVIOUS
<1>1. PICK p \in T : \A y \in T : p <= y
    BY LeastNat
<1>2. CASE p = 0
  <2> DEFINE h == [n \in 0..0 |-> 0]
  <2>1. h = [n \in 0..0 |-> IF n = 0 THEN 0 ELSE d[h[n - 1]]]
      OBVIOUS
  <2> QED BY <1>2, <2>1 DEF IsIterated
<1>3. CASE p # 0
  <2>1. p \in Nat /\ p - 1 \in Nat /\ p - 1 \notin T
      BY <1>1, <1>3
  <2>2. PICK g : IsIterated(g, d, p - 1)
      BY <2>1
  <2>3. \A n \in 0..(p - 1) : g[n] = IF n = 0 THEN 0 ELSE d[g[n - 1]]
      BY <2>2 DEF IsIterated
  <2> DEFINE h == [n \in 0..p |-> IF n < p THEN g[n] ELSE d[g[n - 1]]]
  <2>4. \A n \in 0..(p - 1) : h[n] = g[n]
      BY <2>1
  <2>5. h[p] = d[g[p - 1]]
      BY <2>1
  <2>6. h = [n \in 0..p |-> h[n]]
      OBVIOUS
  <2> HIDE DEF h
  <2>7. \A n \in 0..p : h[n] = IF n = 0 THEN 0 ELSE d[h[n - 1]]
    <3> TAKE n \in 0..p
    <3>1. CASE n < p
      <4>1. n \in 0..(p - 1) /\ (n # 0 => n - 1 \in 0..(p - 1))
          BY <2>1, <3>1
      <4> QED BY <2>3, <2>4, <4>1
    <3>2. CASE n = p
      <4>1. p - 1 \in 0..(p - 1)
          BY <2>1
      <4> QED BY <1>3, <2>4, <2>5, <3>2, <4>1
    <3> QED BY <2>1, <3>1, <3>2
  <2>8. h = [n \in 0..p |-> IF n = 0 THEN 0 ELSE d[h[n - 1]]]
      BY <2>6, <2>7
  <2> QED BY <2>8 DEF IsIterated
<1> QED BY <1>2, <1>3

\* There are sums, for every p.
LEMMA SummedExists ==
    ASSUME NEW e, NEW q \in Nat
    PROVE  \E s : IsSummed(s, e, q)
<1> DEFINE T == {p \in Nat : ~\E s : IsSummed(s, e, p)}
<1> SUFFICES ASSUME T # {} PROVE FALSE
    OBVIOUS
<1>1. PICK p \in T : \A y \in T : p <= y
    BY LeastNat
<1>2. CASE p = 0
  <2> DEFINE h == [n \in 0..0 |-> 0]
  <2>1. h = [n \in 0..0 |-> IF n = 0 THEN 0 ELSE h[n - 1] + e[n]]
      OBVIOUS
  <2> QED BY <1>2, <2>1 DEF IsSummed
<1>3. CASE p # 0
  <2>1. p \in Nat /\ p - 1 \in Nat /\ p - 1 \notin T
      BY <1>1, <1>3
  <2>2. PICK g : IsSummed(g, e, p - 1)
      BY <2>1
  <2>3. \A n \in 0..(p - 1) : g[n] = IF n = 0 THEN 0 ELSE g[n - 1] + e[n]
      BY <2>2 DEF IsSummed
  <2> DEFINE h == [n \in 0..p |-> IF n < p THEN g[n] ELSE g[n - 1] + e[n]]
  <2>4. \A n \in 0..(p - 1) : h[n] = g[n]
      BY <2>1
  <2>5. h[p] = g[p - 1] + e[p]
      BY <2>1
  <2>6. h = [n \in 0..p |-> h[n]]
      OBVIOUS
  <2> HIDE DEF h
  <2>7. \A n \in 0..p : h[n] = IF n = 0 THEN 0 ELSE h[n - 1] + e[n]
    <3> TAKE n \in 0..p
    <3>1. CASE n < p
      <4>1. n \in 0..(p - 1) /\ (n # 0 => n - 1 \in 0..(p - 1))
          BY <2>1, <3>1
      <4> QED BY <2>3, <2>4, <4>1
    <3>2. CASE n = p
      <4>1. p - 1 \in 0..(p - 1)
          BY <2>1
      <4> QED BY <1>3, <2>4, <2>5, <3>2, <4>1
    <3> QED BY <2>1, <3>1, <3>2
  <2>8. h = [n \in 0..p |-> IF n = 0 THEN 0 ELSE h[n - 1] + e[n]]
      BY <2>6, <2>7
  <2> QED BY <2>8 DEF IsSummed
<1> QED BY <1>2, <1>3

\* The cells a walk comes to.
LEMMA HopsAre ==
    ASSUME NEW d, NEW N \in Nat
    PROVE  /\ Hops(d, N)[0] = 0
           /\ \A n \in 1..N : Hops(d, N)[n] = d[Hops(d, N)[n - 1]]
<1> DEFINE h == CHOOSE hops : hops = [n \in 0..N |-> IF n = 0 THEN 0 ELSE d[hops[n - 1]]]
<1>1. IsIterated(h, d, N)
  <2>1. PICK g : IsIterated(g, d, N)
      BY IteratedExists
  <2> QED BY <2>1 DEF IsIterated
<1>2. Hops(d, N) = h
    BY DEF Hops
<1> HIDE DEF h
<1>3. \A n \in 0..N : h[n] = IF n = 0 THEN 0 ELSE d[h[n - 1]]
    BY <1>1 DEF IsIterated
<1> QED BY <1>2, <1>3

\* The sums on the way.
LEMMA SumsAre ==
    ASSUME NEW d, NEW N \in Nat
    PROVE  /\ Sums(d, N)[0] = 0
           /\ \A n \in 1..N : Sums(d, N)[n] =
                Sums(d, N)[n - 1] + IF n % K = 0 THEN Hops(d, N)[n] ELSE 0
<1> DEFINE e == [n \in 0..N |-> IF n % K = 0 THEN Hops(d, N)[n] ELSE 0]
           s == CHOOSE sums : sums = [n \in 0..N |->
                    IF n = 0 THEN 0
                    ELSE sums[n - 1] + IF n % K = 0 THEN Hops(d, N)[n] ELSE 0]
<1>1. PICK g : IsSummed(g, e, N)
  <2> HIDE DEF e
  <2> QED BY SummedExists
<1>2. g = [n \in 0..N |-> IF n = 0 THEN 0
                          ELSE g[n - 1] + IF n % K = 0 THEN Hops(d, N)[n] ELSE 0]
    BY <1>1 DEF IsSummed
<1>3. s = [n \in 0..N |-> IF n = 0 THEN 0
                          ELSE s[n - 1] + IF n % K = 0 THEN Hops(d, N)[n] ELSE 0]
    BY <1>2
<1>4. Sums(d, N) = s
    BY DEF Sums
<1> HIDE DEF e, s
<1>5. \A n \in 0..N : s[n] = IF n = 0 THEN 0
                             ELSE s[n - 1] + IF n % K = 0 THEN Hops(d, N)[n] ELSE 0
    BY <1>3
<1> QED BY <1>4, <1>5

\* A walk stays within the block, and what it sums is a number.
LEMMA HopsType ==
    ASSUME NEW N \in Nat \ {0}, NEW d \in [0..(N - 1) -> 0..(N - 1)]
    PROVE  \A n \in 0..N : Hops(d, N)[n] \in 0..(N - 1) /\ Sums(d, N)[n] \in Int
<1> DEFINE h == Hops(d, N)
           s == Sums(d, N)
           T == {n \in 0..N : ~(h[n] \in 0..(N - 1) /\ s[n] \in Int)}
<1>1. /\ h[0] = 0 /\ \A n \in 1..N : h[n] = d[h[n - 1]]
      /\ s[0] = 0 /\ \A n \in 1..N : s[n] = s[n - 1] + IF n % K = 0 THEN h[n] ELSE 0
    BY HopsAre, SumsAre, ZenonT(40)
<1> HIDE DEF h, s
<1>2. T = {}
  <2> SUFFICES ASSUME T # {} PROVE FALSE
      OBVIOUS
  <2>1. PICK x \in T : \A y \in T : x <= y
    <3>1. T \in SUBSET Nat
        OBVIOUS
    <3> QED BY <3>1, LeastNat
  <2>2. x # 0
    <3>1. h[0] \in 0..(N - 1) /\ s[0] \in Int
        BY <1>1
    <3> QED BY <3>1
  <2>3. x \in 1..N /\ x - 1 \in 0..N /\ x - 1 \notin T
      BY <2>1, <2>2
  <2>4. h[x - 1] \in 0..(N - 1) /\ s[x - 1] \in Int
      BY <2>3
  <2>5. h[x] \in 0..(N - 1)
      BY <1>1, <2>3, <2>4
  <2>6. s[x] \in Int
    <3>1. s[x] = s[x - 1] + IF x % K = 0 THEN h[x] ELSE 0
        BY <1>1, <2>3
    <3>2. h[x] \in Int /\ s[x - 1] \in Int
        BY <2>4, <2>5
    <3>3. CASE x % K = 0
      <4>1. s[x] = s[x - 1] + h[x]
          BY <3>1, <3>3
      <4> QED BY <3>2, <4>1, SMTT(30)
    <3>4. CASE x % K # 0
      <4>1. s[x] = s[x - 1] + 0
          BY <3>1, <3>4
      <4> QED BY <3>2, <4>1
    <3> QED BY <3>3, <3>4
  <2> QED BY <2>5, <2>6
<1> QED BY <1>2 DEF h, s

\* Sums and products may be reduced at any time.
LEMMA ModAdd ==
    ASSUME NEW a \in Int, NEW c \in Int, NEW b \in Nat \ {0}
    PROVE  ((a % b) + c) % b = (a + c) % b
<1> DEFINE q == a \div b
           r == a % b
           p == (r + c) \div b
           t == (r + c) % b
<1>1. a = (b * q) + r /\ q \in Int /\ r \in Int
    BY DivMod
<1>2. r + c \in Int
    BY <1>1
<1>3. r + c = (b * p) + t /\ p \in Int /\ t \in 0..(b - 1)
    BY <1>2, DivMod
<1> HIDE DEF q, r, p, t
<1>4. a + c = ((q + p) * b) + t /\ q + p \in Int
    BY <1>1, <1>3
<1>5. (((q + p) * b) + t) % b = t
    BY <1>3, <1>4, ModIs, Zenon
<1> QED BY <1>4, <1>5 DEF r, t

\* So may a factor.
LEMMA ModTimes ==
    ASSUME NEW a \in Int, NEW c \in Int, NEW b \in Nat \ {0}
    PROVE  ((a % b) * c) % b = (a * c) % b
<1> DEFINE q == a \div b
           r == a % b
           p == (r * c) \div b
           t == (r * c) % b
<1>1. a = (b * q) + r /\ q \in Int /\ r \in Int
    BY DivMod
<1>2. r * c \in Int
    BY <1>1
<1>3. r * c = (b * p) + t /\ p \in Int /\ t \in 0..(b - 1)
    BY <1>2, DivMod
<1> HIDE DEF q, r, p, t
<1>4. a * c = (((q * c) + p) * b) + t /\ (q * c) + p \in Int
  <2>1. a * c = ((b * q) * c) + (r * c)
      BY <1>1
  <2>2. (b * q) * c = (q * c) * b
      BY <1>1
  <2>3. q * c \in Int
      BY <1>1
  <2> DEFINE u == q * c
  <2>4. a * c = (u * b) + ((b * p) + t) /\ u \in Int
      BY <1>3, <2>1, <2>2, <2>3
  <2> HIDE DEF u
  <2>5. a * c = ((u + p) * b) + t /\ u + p \in Int
      BY <1>3, <2>4
  <2> QED BY <2>5 DEF u
<1>5. ((((q * c) + p) * b) + t) % b = t
    BY <1>3, <1>4, ModIs, Zenon
<1> QED BY <1>4, <1>5 DEF r, t
-----------------------------------------------------------------------------
(* The walks of the host and of the kernel.                                *)

\* What the walks rest on.
LEMMA Chain ==
    ASSUME ChaseInv, pc \in {"start", "walk", "copy", "kernel"}, ~OneStep
    PROVE  /\ numElems \in Nat \ {0} /\ numElems % K = 0 /\ K \in Nat /\ K > 1
           /\ data \in [0..(numElems - 1) -> 0..(numElems - 1)]
           /\ \A n \in 0..numElems : /\ Hops(data, numElems)[n] \in 0..(numElems - 1)
                                     /\ Sums(data, numElems)[n] \in Int
<1>1. /\ numElems \in Nat /\ numElems % K = 0 /\ numElems # 0
      /\ data \in [0..(numElems - 1) -> 0..(numElems - 1)]
    BY LaidCells DEF ChaseInv, SizeInv, Cells
<1> QED BY <1>1, HopsType, WidthAssumption

\* From a cell to the next.
LEMMA NextHop ==
    ASSUME ChaseInv, pc \in {"start", "walk", "copy", "kernel"}, ~OneStep,
           NEW c \in Cells, NEW n \in Nat,
           c = 0 => n = 0,
           c # 0 => Placed(c, n)
    PROVE  /\ data[c] \in Cells /\ n < numElems
           /\ data[c] = 0 => n + 1 = numElems
           /\ data[c] # 0 => Placed(data[c], n + 1)
<1>1. /\ numElems \in Nat /\ (numElems = K \/ numElems \in Blocks)
      /\ data \in [Cells -> Cells] /\ data[0] = 1 /\ 1 \in Cells
      /\ call.layout \in Layouts
    BY LaidCells DEF ChaseInv, TypeOK, Calls
<1>2. data[c] \in Cells
    BY <1>1
<1>3. CASE c = 0
  <2>1. Row(1) = 0
      BY RowStart, WidthAssumption
  <2>2. Placed(1, 1)
    <3>1. K * (1 - 1) = (0 * (numElems - 1)) + (1 - 1)
        BY <1>1, WidthAssumption
    <3> QED BY <2>1, <3>1 DEF Placed
  <2>3. n + 1 = 1 /\ 0 < numElems
      BY <1>1, <1>3 DEF Cells
  <2> QED BY <1>1, <1>2, <1>3, <2>2, <2>3
<1>4. CASE c # 0 /\ call.layout = "sequential"
  <2>1. data = [i \in Cells |-> IF i = numElems - 1 THEN 0 ELSE i + 1]
      BY <1>4 DEF ChaseInv, LaidInv
  <2>2. n = c
      BY <1>4 DEF Placed
  <2> QED BY <1>1, <1>2, <1>4, <2>1, <2>2 DEF Cells, Placed
<1>5. CASE c # 0 /\ call.layout = "cache_step"
  <2>1. numElems \in Blocks /\ numElems # K
      BY <1>1, <1>5 DEF OneStep
  <2>2. data[c] = Succ(c, numElems)
      BY <1>5, <2>1 DEF ChaseInv, LaidInv
  <2>3. K * (n - 1) = (Row(c) * (numElems - 1)) + (c - 1)
      BY <1>5 DEF Placed
  <2>4. c \in Nat \ {0} /\ c < numElems
      BY <1>1, <1>5 DEF Cells
  <2>5. /\ n < numElems
        /\ data[c] = 0 => n + 1 = numElems
        /\ data[c] # 0 => K * n = (Row(data[c]) * (numElems - 1)) + (data[c] - 1)
      BY <2>1, <2>2, <2>3, <2>4, HopCount
  <2>6. (n + 1) - 1 = n
      OBVIOUS
  <2> QED BY <1>2, <1>5, <2>5, <2>6 DEF Placed
<1> QED BY <1>1, <1>3, <1>4, <1>5 DEF Layouts

\* The host sums at the cells that Sums says.
LEMMA ExpectedStep ==
    ASSUME ChaseInv, ChaseInv', ExpectedInv, [Next]_vars
    PROVE  ExpectedInv'
<1> USE DEF hostVars, kernelVars
<1>0. K \in Nat /\ K > 1 /\ UIntMod \in Nat \ {0}
    BY WidthAssumption
<1> DEFINE H == Hops(data, numElems)
           S == Sums(data, numElems)
<1>1. CASE StartWalk
  <2>1. /\ pc = "start" /\ pc' = "walk" /\ next' = data[0] /\ opcount' = 1 /\ expected' = 0
        /\ UNCHANGED <<call, numElems, data>>
      BY <1>1 DEF StartWalk
  <2>2. ASSUME ~OneStep'
        PROVE  opcount' \in 1..numElems /\ next' = H[opcount'] /\ expected' = S[opcount'] % UIntMod
    <3>1. ~OneStep
        BY <2>1, <2>2 DEF OneStep
    <3>2. numElems \in Nat \ {0} /\ 1 \in 1..numElems
        BY <2>1, <3>1, Chain
    <3>3. H[0] = 0 /\ H[1] = data[H[1 - 1]]
        BY <3>2, HopsAre
    <3>4. S[0] = 0 /\ S[1] = S[1 - 1] + IF 1 % K = 0 THEN H[1] ELSE 0
        BY <3>2, SumsAre
    <3>5. 1 % K = 1 /\ 1 - 1 = 0 /\ 0 % UIntMod = 0
      <4>1. 1 \in 0..(K - 1) /\ 0 \in 0..(UIntMod - 1) /\ K \in Nat \ {0}
          BY <1>0
      <4>2. 1 % K = 1 /\ 0 % UIntMod = 0
          BY <1>0, <4>1, ModSmall, Zenon
      <4> QED BY <4>2
    <3> HIDE DEF H, S
    <3>6. H[1] = data[0] /\ S[1] = 0
        BY <3>3, <3>4, <3>5
    <3> QED BY <2>1, <3>2, <3>5, <3>6
  <2> QED BY <2>1, <2>2 DEF ExpectedInv
<1>2. CASE WalkHop
  <2>1. /\ pc = "walk" /\ pc' = "walk" /\ next # 0 /\ next' = data[next]
        /\ opcount' = (opcount + 1) % UIntMod
        /\ expected' = IF opcount' % K = 0 THEN (expected + next') % UIntMod ELSE expected
        /\ UNCHANGED <<call, numElems, data>>
      BY <1>2 DEF WalkHop
  <2>2. ASSUME ~OneStep'
        PROVE  opcount' \in 1..numElems /\ next' = H[opcount'] /\ expected' = S[opcount'] % UIntMod
    <3>1. ~OneStep
        BY <2>1, <2>2 DEF OneStep
    <3>2. /\ opcount \in 1..numElems /\ next = H[opcount]
          /\ expected = S[opcount] % UIntMod
        BY <2>1, <3>1 DEF ExpectedInv
    <3>3. /\ numElems \in Nat \ {0} /\ numElems < UIntMod
          /\ \A n \in 0..numElems : H[n] \in 0..(numElems - 1) /\ S[n] \in Int
      <4>1. numElems \in 0..(UIntMod - 1)
          BY DEF ChaseInv, TypeOK
      <4>2. /\ numElems \in Nat \ {0}
            /\ \A n \in 0..numElems : H[n] \in 0..(numElems - 1) /\ S[n] \in Int
          BY <2>1, <3>1, Chain
      <4> HIDE DEF H, S
      <4> QED BY <1>0, <4>1, <4>2
    <3>4. next \in Cells /\ opcount \in Nat
        BY <2>1, <3>2 DEF ChaseInv, TypeOK
    <3>5. Placed(next, opcount)
        BY <2>1, <3>1 DEF ChaseInv, WalkInv, Placed
    <3>6. opcount < numElems
        BY <2>1, <3>1, <3>4, <3>5, NextHop
    <3>7. opcount' = opcount + 1
      <4>1. opcount + 1 \in 0..(UIntMod - 1)
        <5> HIDE DEF H, S
        <5> QED BY <1>0, <3>3, <3>4, <3>6
      <4>2. (opcount + 1) % UIntMod = opcount + 1
          BY <1>0, <4>1, ModSmall, Zenon
      <4> QED BY <2>1, <4>2
    <3>8. opcount + 1 \in 1..numElems /\ (opcount + 1) - 1 = opcount
          /\ opcount \in 0..numElems /\ opcount + 1 \in 0..numElems
        BY <3>3, <3>4, <3>6
    <3>9. /\ H[opcount + 1] = data[H[(opcount + 1) - 1]]
          /\ S[opcount + 1] = S[(opcount + 1) - 1]
                                + IF (opcount + 1) % K = 0 THEN H[opcount + 1] ELSE 0
        BY <3>3, <3>8, HopsAre, SumsAre
    <3>10. S[opcount] \in Int /\ H[opcount + 1] \in Int
      <4>1. H[opcount + 1] \in 0..(numElems - 1) /\ S[opcount] \in Int
          BY <3>3, <3>8
      <4> QED BY <4>1
    <3> HIDE DEF H, S
    <3>11. next' = H[opcount + 1]
        BY <2>1, <3>2, <3>8, <3>9
    <3>12. expected' = S[opcount + 1] % UIntMod
      <4>1. CASE (opcount + 1) % K = 0
        <5>1. expected' = ((S[opcount] % UIntMod) + H[opcount + 1]) % UIntMod
            BY <2>1, <3>2, <3>7, <3>11, <4>1
        <5>2. S[opcount + 1] = S[opcount] + H[opcount + 1]
            BY <3>8, <3>9, <4>1
        <5>3. ((S[opcount] % UIntMod) + H[opcount + 1]) % UIntMod
                = (S[opcount] + H[opcount + 1]) % UIntMod
            BY <1>0, <3>10, ModAdd
        <5> QED BY <5>1, <5>2, <5>3
      <4>2. CASE (opcount + 1) % K # 0
        <5>1. S[opcount + 1] = S[opcount] + 0
            BY <3>8, <3>9, <4>2
        <5>2. S[opcount + 1] = S[opcount]
            BY <3>10, <5>1
        <5> QED BY <2>1, <3>2, <3>7, <4>2, <5>2
      <4> QED BY <4>1, <4>2
    <3> QED BY <3>7, <3>8, <3>11, <3>12
  <2> QED BY <2>1, <2>2 DEF ExpectedInv
<1>3. CASE EndWalk
  <2>1. /\ pc = "walk" /\ next = 0 /\ pc' \in {"abort", "copy", "kernel"}
        /\ pc' # "abort" => opcount = numElems
        /\ expected' = (expected * call.iterations) % UIntMod
        /\ UNCHANGED <<call, numElems, data, opcount>>
      BY <1>3 DEF EndWalk
  <2>2. ASSUME pc' \in {"copy", "kernel"}
        PROVE  expected' = (S[numElems] * call.iterations) % UIntMod
    <3>1. ~OneStep
        BY <2>1, <2>2 DEF ChaseInv, KernelInv, OneStep
    <3>2. expected = S[numElems] % UIntMod
        BY <2>1, <2>2, <3>1 DEF ExpectedInv
    <3>3. S[numElems] \in Int /\ call.iterations \in Int
      <4>1. numElems \in 0..numElems /\ \A n \in 0..numElems : S[n] \in Int
          BY <2>1, <3>1, Chain
      <4>2. call.iterations \in Int
          BY IterationsType DEF ChaseInv, TypeOK
      <4> QED BY <4>1, <4>2
    <3> HIDE DEF S
    <3>4. ((S[numElems] % UIntMod) * call.iterations) % UIntMod
            = (S[numElems] * call.iterations) % UIntMod
        BY <1>0, <3>3, ModTimes
    <3> QED BY <2>1, <3>2, <3>4
  <2> QED BY <2>1, <2>2 DEF ExpectedInv
<1>4. CASE CopyBlock \/ CopyDone \/ Load \/ Accumulate
  <2>1. /\ pc \in {"copy", "kernel"} /\ pc' \in {"copy", "kernel"}
        /\ UNCHANGED <<call, numElems, data, expected>>
      BY <1>4 DEF CopyBlock, CopyDone, Load, Accumulate
  <2> QED BY <2>1 DEF ExpectedInv
<1>5. CASE AdjustSize \/ Layout \/ Return
  <2>1. pc' \notin {"walk", "copy", "kernel"}
    <3>1. CASE AdjustSize
        BY <3>1 DEF AdjustSize, ChaseInv, TypeOK, Calls, Layouts
    <3>2. CASE Layout \/ Return
        BY <3>2 DEF Layout, StoreOutside, FillSequential, FirstHop, ChainStride,
           ChainWrap, ChainTo, ChainClose, Return
    <3> QED BY <1>5, <3>1, <3>2
  <2> QED BY <2>1 DEF ExpectedInv
<1>6. CASE UNCHANGED vars
  <2>1. UNCHANGED <<call, pc, numElems, data, next, opcount, expected>> /\ (OneStep' <=> OneStep)
      BY <1>6 DEF vars, OneStep
  <2> QED BY <2>1 DEF ExpectedInv
<1> QED BY <1>1, <1>2, <1>3, <1>4, <1>5, <1>6 DEF Next, Walk, Kernel

\* The kernel is where the host was after as many hops, and has added the
\* same.
LEMMA TurnStep ==
    ASSUME ChaseInv, ChaseInv', TurnInv, [Next]_vars
    PROVE  TurnInv'
<1> USE DEF hostVars, kernelVars
<1>0. K \in Nat /\ K > 1 /\ UIntMod \in Nat \ {0}
    BY WidthAssumption
<1> DEFINE H == Hops(data, numElems)
           S == Sums(data, numElems)
<1>1. CASE /\ pc \notin {"kernel", "done"} /\ pc' = "kernel"
           /\ UNCHANGED <<call, numElems, data, loads, iter, res, hop, knext>>
  <2>1. loads = 0 /\ iter = 0 /\ res = 0
      BY <1>1 DEF TurnInv
  <2>2. pc \in {"walk", "copy"} /\ ~OneStep
    <3>1. ~OneStep'
        BY <1>1 DEF ChaseInv, KernelInv
    <3>2. ~OneStep
        BY <1>1, <3>1 DEF OneStep
    <3>3. pc \in {"walk", "copy"}
      <4>1. CASE AdjustSize
          BY <1>1, <4>1 DEF AdjustSize, ChaseInv, TypeOK, Calls, Layouts
      <4>2. CASE ~AdjustSize
          BY <1>1, <4>2 DEF Next, vars, Layout, Walk, Kernel, StoreOutside, FillSequential,
             FirstHop, ChainStride, ChainWrap, ChainTo, ChainClose, StartWalk, WalkHop,
             EndWalk, CopyDone, CopyBlock, Load, Accumulate, Return, Over
      <4> QED BY <4>1, <4>2
    <3> QED BY <3>2, <3>3
  <2>3. knext = 0 /\ hop = 0
      BY <2>2 DEF ChaseInv, KernelInv
  <2>4. numElems \in Nat \ {0} /\ \A n \in 0..numElems : S[n] \in Int
      BY <2>2, Chain
  <2>5. H[0] = 0 /\ S[0] = 0 /\ S[numElems] \in Int
    <3>1. numElems \in 0..numElems
        BY <2>4
    <3> QED BY <2>4, <3>1, HopsAre, SumsAre
  <2>6. turn' = 0 /\ Pending' = 0
    <3>1. 0 - (0 * numElems) = 0 /\ 0 # K
        BY <1>0, <2>4
    <3> QED BY <1>1, <2>1, <2>3, <3>1 DEF turn, Pending
  <2> HIDE DEF H, S
  <2>7. ((0 * S[numElems]) + S[0] - 0) % UIntMod = 0 /\ (0 - 0) % K = 0
    <3>1. 0 % UIntMod = 0 /\ 0 % K = 0
      <4>1. 0 \in 0..(UIntMod - 1) /\ 0 \in 0..(K - 1) /\ K \in Nat \ {0}
          BY <1>0
      <4> QED BY <1>0, <4>1, ModSmall, Zenon
    <3>2. (0 * S[numElems]) + S[0] - 0 = 0
        BY <2>5
    <3> QED BY <3>1, <3>2
  <2>8. /\ 0 \in 0..numElems /\ 0 <= 0 /\ ~(0 > 0)
      BY <2>4
  <2> QED BY <1>1, <2>1, <2>3, <2>5, <2>6, <2>7, <2>8 DEF TurnInv, H, S
<1>2. CASE Load
  <2>1. /\ pc = "kernel" /\ pc' = "kernel" /\ hop < K /\ iter < KernelIterations
        /\ knext' = Traversed[knext] /\ hop' = hop + 1 /\ loads' = loads + 1
        /\ UNCHANGED <<call, numElems, data, iter, res>>
      BY <1>2 DEF Load
  <2>2. /\ turn \in 0..numElems /\ hop <= turn /\ (turn - hop) % K = 0
        /\ knext = 0 => (turn = 0 /\ hop = 0) \/ (turn = numElems /\ hop = K)
        /\ knext # 0 => Placed(knext, turn)
        /\ knext = H[turn]
        /\ res = ((iter * S[numElems]) + S[turn] - Pending) % UIntMod
      BY <2>1 DEF TurnInv
  <2>3. /\ ~OneStep /\ knext' = data[knext] /\ knext \in Cells /\ hop \in 0..K
        /\ loads \in Nat /\ iter \in Nat
      BY <2>1 DEF ChaseInv, TypeOK, KernelInv
  <2>4. /\ numElems \in Nat \ {0} /\ numElems % K = 0
        /\ \A n \in 0..numElems : H[n] \in 0..(numElems - 1) /\ S[n] \in Int
      BY <2>1, <2>3, Chain
  <2> HIDE DEF H, S
  <2>5. turn \in Nat /\ (knext = 0 => turn = 0)
      BY <1>0, <2>1, <2>2, <2>4
  <2>6. /\ turn < numElems
        /\ knext' = 0 => turn + 1 = numElems
        /\ knext' # 0 => Placed(knext', turn + 1)
      BY <2>1, <2>2, <2>3, <2>5, NextHop
  <2>7. turn' = turn + 1
    <3>1. turn' = (loads + 1) - (iter * numElems)
        BY <2>1 DEF turn
    <3>2. iter * numElems \in Int
        BY <2>3, <2>4
    <3> QED BY <2>3, <3>1, <3>2 DEF turn
  <2>8. /\ turn + 1 \in 1..numElems /\ (turn + 1) - 1 = turn /\ numElems \in 0..numElems
        /\ turn \in 0..numElems /\ turn + 1 \in 0..numElems
      BY <2>4, <2>5, <2>6
  <2>9. /\ H[turn + 1] = data[H[turn]]
        /\ S[turn + 1] = S[turn] + IF (turn + 1) % K = 0 THEN H[turn + 1] ELSE 0
    <3>1. /\ H[turn + 1] = data[H[(turn + 1) - 1]]
          /\ S[turn + 1] = S[(turn + 1) - 1] + IF (turn + 1) % K = 0 THEN H[turn + 1] ELSE 0
        BY <2>4, <2>8, HopsAre, SumsAre DEF H, S
    <3> QED BY <2>8, <3>1
  <2>10. /\ H[turn + 1] \in Int /\ S[turn] \in Int /\ S[numElems] \in Int
         /\ iter * S[numElems] \in Int
    <3>1. H[turn + 1] \in 0..(numElems - 1) /\ S[turn] \in Int /\ S[numElems] \in Int
        BY <2>4, <2>8
    <3> QED BY <2>3, <3>1
  <2>11. /\ (turn + 1) - (hop + 1) = turn - hop
         /\ hop + 1 = K <=> (turn + 1) % K = 0
    <3> DEFINE t == turn
               h == hop
    <3>1. t \in Nat /\ h \in Nat /\ h < K /\ h <= t /\ (t - h) % K = 0 /\ K \in Nat \ {0}
        BY <1>0, <2>1, <2>2, <2>3, <2>5
    <3> HIDE DEF t, h
    <3>2. (t + 1) - (h + 1) = t - h /\ t - h \in Int
        BY <3>1
    <3>3. PICK q \in Int : t - h = (q * K) + 0
      <4>1. t - h = (K * ((t - h) \div K)) + ((t - h) % K) /\ (t - h) \div K \in Int
          BY <3>1, <3>2, DivMod
      <4> QED BY <3>1, <4>1
    <3>4. CASE h + 1 = K
      <4>1. t + 1 = ((q + 1) * K) + 0 /\ q + 1 \in Int /\ 0 \in 0..(K - 1)
          BY <3>1, <3>3, <3>4
      <4>2. (((q + 1) * K) + 0) % K = 0
          BY <3>1, <4>1, ModIs, Zenon
      <4> QED BY <3>2, <3>4, <4>1, <4>2 DEF t, h
    <3>5. CASE h + 1 # K
      <4>1. t + 1 = (q * K) + (h + 1) /\ h + 1 \in 0..(K - 1) /\ h + 1 # 0
          BY <3>1, <3>3, <3>5
      <4>2. ((q * K) + (h + 1)) % K = h + 1
          BY <3>1, <3>3, <4>1, ModIs, Zenon
      <4> QED BY <3>2, <3>5, <4>1, <4>2 DEF t, h
    <3> QED BY <3>4, <3>5
  <2>12. knext' = H[turn + 1]
      BY <2>2, <2>3, <2>9
  <2>13. res = ((iter * S[numElems]) + S[turn + 1] - Pending') % UIntMod
    <3>1. Pending = 0
        BY <2>1, <1>0, <2>3 DEF Pending
    <3>2. (iter * S[numElems]) + S[turn] - 0 = (iter * S[numElems]) + S[turn]
        BY <2>10
    <3>3. CASE hop + 1 = K
      <4>1. Pending' = H[turn + 1] /\ S[turn + 1] = S[turn] + H[turn + 1]
          BY <2>1, <2>9, <2>11, <2>12, <3>3 DEF Pending
      <4>2. (iter * S[numElems]) + S[turn + 1] - Pending' = (iter * S[numElems]) + S[turn]
          BY <2>10, <4>1
      <4> QED BY <2>2, <3>1, <3>2, <4>2
    <3>4. CASE hop + 1 # K
      <4>1. Pending' = 0 /\ S[turn + 1] = S[turn] + 0
          BY <2>1, <2>9, <2>11, <3>4 DEF Pending
      <4>2. (iter * S[numElems]) + S[turn + 1] - Pending' = (iter * S[numElems]) + S[turn]
          BY <2>10, <4>1
      <4> QED BY <2>2, <3>1, <3>2, <4>2
    <3> QED BY <3>3, <3>4
  <2>14. KernelIterations' = KernelIterations
      BY <2>1 DEF KernelIterations
  <2>15. hop + 1 <= turn + 1 /\ turn + 1 > 0
      BY <2>2, <2>3, <2>5
  <2>16. knext' = 0 => turn + 1 = numElems /\ hop + 1 = K
      BY <2>4, <2>6, <2>11
  <2>17. /\ (turn' - hop') % K = 0 /\ hop' <= turn' /\ turn' \in 0..numElems'
         /\ iter' < KernelIterations'
         /\ knext' = 0 => turn' = numElems' /\ hop' = K
      BY <2>1, <2>2, <2>7, <2>8, <2>11, <2>14, <2>15, <2>16
  <2>18. knext' # 0 => Placed(knext, turn)'
      BY <2>1, <2>6, <2>7 DEF Placed, Row
  <2>19. /\ knext' = Hops(data', numElems')[turn']
         /\ res' = ((iter' * Sums(data', numElems')[numElems'])
                       + Sums(data', numElems')[turn'] - Pending') % UIntMod
      BY <2>1, <2>7, <2>12, <2>13 DEF H, S
  <2> QED BY <2>1, <2>17, <2>18, <2>19 DEF TurnInv
<1>3. CASE Accumulate
  <2>1. /\ pc = "kernel" /\ pc' = "kernel" /\ hop = K /\ hop' = 0
        /\ res' = (res + knext) % UIntMod
        /\ iter' = IF knext = 0 THEN iter + 1 ELSE iter
        /\ UNCHANGED <<call, numElems, data, knext, loads>>
      BY <1>3 DEF Accumulate
  <2>2. /\ turn \in 0..numElems /\ hop <= turn /\ (turn - hop) % K = 0
        /\ turn > 0 => iter < KernelIterations
        /\ knext = 0 => (turn = 0 /\ hop = 0) \/ (turn = numElems /\ hop = K)
        /\ knext # 0 => Placed(knext, turn)
        /\ knext = H[turn]
        /\ res = ((iter * S[numElems]) + S[turn] - Pending) % UIntMod
      BY <2>1 DEF TurnInv
  <2>3. ~OneStep /\ knext \in Cells /\ loads \in Nat /\ iter \in Nat
      BY <2>1 DEF ChaseInv, TypeOK, KernelInv
  <2>4. /\ numElems \in Nat \ {0}
        /\ \A n \in 0..numElems : H[n] \in 0..(numElems - 1) /\ S[n] \in Int
      BY <2>1, <2>3, Chain
  <2>5. H[0] = 0 /\ S[0] = 0
      BY <2>4, HopsAre, SumsAre
  <2> HIDE DEF H, S
  <2>6. /\ S[turn] \in Int /\ S[numElems] \in Int /\ iter * S[numElems] \in Int
        /\ turn \in Nat /\ knext \in Int
    <3>1. S[turn] \in Int /\ S[numElems] \in Int /\ turn \in Nat /\ knext \in Int
      <4>1. numElems \in 0..numElems
          BY <2>4
      <4> QED BY <2>2, <2>3, <2>4, <4>1 DEF Cells
    <3> QED BY <2>3, <3>1
  <2>7. res' = ((iter * S[numElems]) + S[turn]) % UIntMod
    <3> DEFINE a == (iter * S[numElems]) + S[turn] - knext
    <3>1. a \in Int /\ a + knext = (iter * S[numElems]) + S[turn]
        BY <2>6
    <3>2. res' = ((a % UIntMod) + knext) % UIntMod
        BY <2>1, <2>2 DEF Pending
    <3> HIDE DEF a
    <3>3. ((a % UIntMod) + knext) % UIntMod = (a + knext) % UIntMod
        BY <1>0, <2>6, <3>1, ModAdd
    <3> QED BY <3>1, <3>2, <3>3
  <2>8. KernelIterations' = KernelIterations /\ Pending' = 0
      BY <1>0, <2>1 DEF KernelIterations, Pending
  <2>9. CASE knext = 0
    <3>1. turn = numElems /\ iter' = iter + 1
        BY <1>0, <2>1, <2>2, <2>9
    <3>2. turn' = 0
      <4>1. turn' = loads - ((iter + 1) * numElems)
          BY <2>1, <3>1 DEF turn
      <4>2. (iter + 1) * numElems = (iter * numElems) + numElems /\ iter * numElems \in Int
          BY <2>3, <2>4
      <4>3. loads - (iter * numElems) = numElems
          BY <3>1 DEF turn
      <4> QED BY <2>3, <2>4, <4>1, <4>2, <4>3
    <3>3. res' = (((iter + 1) * S[numElems]) + S[0] - 0) % UIntMod
      <4>1. (iter + 1) * S[numElems] = (iter * S[numElems]) + S[numElems]
          BY <2>3, <2>6
      <4>2. ((iter + 1) * S[numElems]) + S[0] - 0 = (iter * S[numElems]) + S[turn]
          BY <2>5, <2>6, <3>1, <4>1
      <4> QED BY <2>7, <4>2
    <3>4. (0 - 0) % K = 0 /\ 0 \in 0..numElems /\ 0 <= 0 /\ ~(0 > 0)
      <4>1. 0 \in 0..(K - 1) /\ K \in Nat \ {0} /\ 0 - 0 = 0
          BY <1>0
      <4>2. 0 % K = 0
          BY <4>1, ModSmall, Zenon
      <4> QED BY <2>4, <4>1, <4>2
    <3>5. /\ knext' = Hops(data', numElems')[turn']
          /\ res' = ((iter' * Sums(data', numElems')[numElems'])
                        + Sums(data', numElems')[turn'] - Pending') % UIntMod
        BY <2>1, <2>5, <2>8, <2>9, <3>1, <3>2, <3>3 DEF H, S
    <3>6. knext' = 0 /\ turn' = 0 /\ hop' = 0 /\ numElems' = numElems
        BY <2>1, <2>9, <3>2
    <3> QED BY <2>1, <3>4, <3>5, <3>6 DEF TurnInv
  <2>10. CASE knext # 0
    <3>1. turn' = turn /\ iter' = iter
        BY <2>1, <2>10 DEF turn
    <3>2. (turn - 0) % K = 0
      <4> DEFINE u == turn - K
      <4>1. u \in Int /\ u + K = turn - 0 /\ K \in Nat \ {0}
          BY <1>0, <2>6
      <4>2. u % K = 0
          BY <2>1, <2>2
      <4> HIDE DEF u
      <4>3. (u + K) % K = u % K
          BY <4>1, ModPlus, Zenon
      <4> QED BY <4>1, <4>2, <4>3
    <3>3. res' = ((iter * S[numElems]) + S[turn] - 0) % UIntMod
      <4>1. (iter * S[numElems]) + S[turn] - 0 = (iter * S[numElems]) + S[turn]
          BY <2>6
      <4> QED BY <2>7, <4>1
    <3>4. Placed(knext, turn)'
        BY <2>1, <2>2, <2>10, <3>1 DEF Placed, Row
    <3>5. /\ knext' = Hops(data', numElems')[turn']
          /\ res' = ((iter' * Sums(data', numElems')[numElems'])
                        + Sums(data', numElems')[turn'] - Pending') % UIntMod
        BY <2>1, <2>2, <2>8, <3>1, <3>3 DEF H, S
    <3>6. /\ knext' # 0 /\ hop' = 0 /\ numElems' = numElems /\ 0 <= turn
          /\ turn > 0 => iter < KernelIterations
        BY <2>1, <2>2, <2>6, <2>10
    <3> QED BY <2>1, <2>2, <2>8, <3>1, <3>2, <3>4, <3>5, <3>6 DEF TurnInv
  <2> QED BY <2>9, <2>10
<1>4. CASE Return
    BY <1>4 DEF Return, TurnInv
<1>5. CASE AdjustSize \/ Layout \/ StartWalk \/ WalkHop \/ CopyBlock
  <2>1. /\ pc \notin {"kernel", "done"} /\ pc' \notin {"kernel", "done"}
        /\ UNCHANGED <<loads, iter, res>>
    <3>1. CASE AdjustSize
        BY <3>1 DEF AdjustSize, ChaseInv, TypeOK, Calls, Layouts
    <3>2. CASE Layout \/ StartWalk \/ WalkHop \/ CopyBlock
        BY <3>2 DEF Layout, StoreOutside, FillSequential, FirstHop, ChainStride,
           ChainWrap, ChainTo, ChainClose, StartWalk, WalkHop, CopyBlock, Layouts
    <3> QED BY <1>5, <3>1, <3>2
  <2> QED BY <2>1 DEF TurnInv
<1>6. CASE EndWalk \/ CopyDone
  <2>1. /\ pc \in {"walk", "copy"} /\ pc' \in {"abort", "copy", "kernel"}
        /\ UNCHANGED <<call, numElems, data, loads, iter, res, hop, knext>>
      BY <1>6 DEF EndWalk, CopyDone
  <2>2. CASE pc' = "kernel"
      BY <1>1, <2>1, <2>2
  <2>3. CASE pc' # "kernel"
      BY <2>1, <2>3 DEF TurnInv
  <2> QED BY <2>2, <2>3
<1>7. CASE UNCHANGED vars
  <2>1. /\ UNCHANGED <<call, pc, numElems, data, knext, hop, iter, res, loads>>
        /\ turn' = turn /\ Pending' = Pending /\ KernelIterations' = KernelIterations
        /\ (Placed(knext, turn)' <=> Placed(knext, turn))
      BY <1>7 DEF vars, turn, Pending, KernelIterations, Placed, Row
  <2> HIDE DEF H, S
  <2> QED BY <2>1 DEF TurnInv
<1> QED BY <1>2, <1>3, <1>4, <1>5, <1>6, <1>7 DEF Next, Walk, Kernel

\* A kernel that returns has done all the iterations of the host's walk.
LEMMA ReturnStep ==
    ASSUME ChaseInv, ExpectedInv, TurnInv, ReturnedInv, [Next]_vars
    PROVE  ReturnedInv'
<1> USE DEF hostVars, kernelVars
<1>1. CASE Return
  <2>1. /\ pc = "kernel" /\ pc' = "done" /\ hop = 0 /\ iter = KernelIterations
        /\ ops' = (call.iterations * opcount) % ULongMod
        /\ UNCHANGED <<call, numElems, data, expected, res, loads>>
      BY <1>1 DEF Return
  <2> DEFINE S == Sums(data, numElems)
             it == call.iterations
             k == KernelIterations
             N == numElems
             s == S[N]
  <2>2. ~OneStep /\ opcount = N
      BY <2>1 DEF ChaseInv, KernelInv
  <2>3. /\ N \in Nat \ {0} /\ \A n \in 0..N : S[n] \in Int
        /\ it \in Nat /\ k \in Nat /\ K \in Nat /\ K > 1
        /\ UIntMod \in Nat \ {0} /\ ULongMod \in Nat \ {0}
    <3>1. N \in Nat \ {0} /\ \A n \in 0..N : S[n] \in Int
        BY <2>1, <2>2, Chain
    <3>2. it \in Nat /\ k \in Nat
        BY IterationsType DEF ChaseInv, TypeOK
    <3> QED BY <3>1, <3>2, WidthAssumption, BytesAssumption
  <2>4. k = it % UIntMod /\ N < UIntMod
    <3>1. N \in 0..(UIntMod - 1)
        BY DEF ChaseInv, TypeOK
    <3> QED BY <2>3, <3>1 DEF KernelIterations
  <2>5. turn = 0
    <3>1. turn \in 0..N /\ (turn > 0 => iter < k)
        BY <2>1 DEF TurnInv
    <3> QED BY <2>1, <2>3, <3>1
  <2>6. loads = k * N
    <3>1. loads - (k * N) = 0 /\ k * N \in Int /\ loads \in Int
      <4>1. loads - (k * N) = 0
          BY <2>1, <2>5 DEF turn
      <4> QED BY <2>3, <4>1 DEF ChaseInv, TypeOK
    <3> QED BY <3>1
  <2>7. s \in Int /\ S[0] = 0
    <3>1. N \in 0..N
        BY <2>3
    <3> QED BY <2>3, <3>1, SumsAre
  <2>8. res = (k * s) % UIntMod
    <3>1. res = ((k * s) + S[0] - 0) % UIntMod
        BY <2>1, <2>3, <2>5 DEF TurnInv, Pending
    <3>2. (k * s) + S[0] - 0 = k * s
      <4>1. k * s \in Int
          BY <2>3, <2>7
      <4> HIDE DEF s, k
      <4> QED BY <2>7, <4>1
    <3> QED BY <3>1, <3>2
  <2>9. expected = (s * it) % UIntMod
      BY <2>1 DEF ExpectedInv
  <2> HIDE DEF S, it, k, N, s
  <2>10. res = expected
    <3>1. ((it % UIntMod) * s) % UIntMod = (it * s) % UIntMod
      <4>1. it \in Int /\ s \in Int /\ UIntMod \in Nat \ {0}
          BY <2>3, <2>7
      <4> QED BY ONLY <4>1, ModTimes
    <3>2. it * s = s * it
        BY <2>3, <2>7
    <3> QED BY <2>4, <2>8, <2>9, <3>1, <3>2
  <2>11. ASSUME it < UIntMod
         PROVE  ops' = loads
    <3>1. k = it
      <4>1. it \in 0..(UIntMod - 1)
          BY <2>3, <2>11
      <4> QED BY <2>3, <2>4, <4>1, ModSmall
    <3>2. it * N \in 0..(ULongMod - 1)
      <4>1. UIntMod * UIntMod <= ULongMod
          BY BytesAssumption
      <4>2. PICK x \in Nat, y \in Nat : UIntMod = (it + 1) + x /\ UIntMod = (N + 1) + y
        <5>1. /\ UIntMod - (it + 1) \in Nat /\ UIntMod - (N + 1) \in Nat
              /\ UIntMod = (it + 1) + (UIntMod - (it + 1))
              /\ UIntMod = (N + 1) + (UIntMod - (N + 1))
            BY <2>3, <2>4, <2>11
        <5> QED BY <5>1
      <4>3. UIntMod * UIntMod = ((it + 1) + x) * ((N + 1) + y)
          BY <4>2
      <4>4. ((it + 1) + x) * ((N + 1) + y)
              = (it * N) + it + (it * y) + ((x + 1) * ((N + 1) + y))
          BY <2>3, <4>2
      <4>5. /\ it * N \in Nat /\ it * y \in Nat /\ (x + 1) * ((N + 1) + y) \in Nat
            /\ (x + 1) * ((N + 1) + y) # 0
        <5>1. it * N \in Nat /\ it * y \in Nat
            BY <2>3, <4>2
        <5> DEFINE v == x + 1
                   w == (N + 1) + y
        <5>2. v \in Nat /\ w \in Nat /\ v > 0 /\ w > 0
            BY <2>3, <4>2
        <5> HIDE DEF v, w
        <5>3. v * w \in Nat /\ v * w # 0
            BY <5>2
        <5> QED BY <5>1, <5>3 DEF v, w
      <4> DEFINE a == it * N
                 b == it * y
                 c == (x + 1) * ((N + 1) + y)
                 d == UIntMod * UIntMod
      <4>6. /\ d = a + it + b + c /\ a \in Nat /\ b \in Nat /\ c \in Nat /\ c # 0
            /\ d <= ULongMod
          BY <4>1, <4>3, <4>4, <4>5
      <4> HIDE DEF a, b, c, d
      <4>7. a \in 0..(ULongMod - 1)
          BY <2>3, <4>6
      <4> QED BY <4>7 DEF a
    <3>3. (it * N) % ULongMod = it * N
        BY <2>3, <3>2, ModSmall
    <3> QED BY <2>1, <2>2, <2>6, <3>1, <3>3 DEF it, N
  <2> QED BY <2>1, <2>10, <2>11 DEF ReturnedInv, ResultAgrees, OpsArePerformed, it
<1>2. CASE ~Return /\ Next
  <2>1. \/ pc' # "done"
        \/ UNCHANGED <<call, pc, res, expected, ops, loads>>
    <3>1. CASE AdjustSize
        BY <3>1 DEF AdjustSize, ChaseInv, TypeOK, Calls, Layouts
    <3>2. CASE ~AdjustSize
        BY <1>2, <3>2 DEF Next, vars, Layout, Walk, Kernel, StoreOutside, FillSequential,
           FirstHop, ChainStride, ChainWrap, ChainTo, ChainClose, StartWalk, WalkHop,
           EndWalk, CopyDone, CopyBlock, Load, Accumulate
    <3> QED BY <3>1, <3>2
  <2> QED BY <2>1 DEF ReturnedInv, ResultAgrees, OpsArePerformed
<1>3. CASE UNCHANGED vars
    BY <1>3 DEF vars, ReturnedInv, ResultAgrees, OpsArePerformed
<1> QED BY <1>1, <1>2, <1>3

\* They hold in every reachable state.
LEMMA SumsInvariant == Spec => []SumInv
<1>1. Init => SumInv
  <2> SUFFICES ASSUME Init PROVE SumInv
      OBVIOUS
  <2>1. pc = "adjust" /\ loads = 0 /\ iter = 0 /\ res = 0
      BY DEF Init
  <2> QED BY <2>1 DEF SumInv, ExpectedInv, TurnInv, ReturnedInv, ResultAgrees, OpsArePerformed
<1>2. ChaseInv /\ ChaseInv' /\ SumInv /\ [Next]_vars => SumInv'
    BY ExpectedStep, TurnStep, ReturnStep DEF SumInv
<1> QED BY <1>1, <1>2, ChaseInvariant, PTL DEF Spec

\* The sum the kernel returns is the one the host expects, for every block,
\* layout and number of iterations, in whatever width they wrap.
THEOREM SumAgrees == Spec => []ResultAgrees
<1>1. SumInv => ResultAgrees
    BY DEF SumInv, ReturnedInv
<1> QED BY <1>1, SumsInvariant, PTL

\* The count the latency is divided by is the number of loads done.
THEOREM LoadsCounted == Spec => []OpsArePerformed
<1>1. SumInv => OpsArePerformed
    BY DEF SumInv, ReturnedInv
<1> QED BY <1>1, SumsInvariant, PTL
=============================================================================
