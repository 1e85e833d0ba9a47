---------------------------- MODULE ArithKernel ----------------------------
(***************************************************************************)
(* What the kernel that genKernel of arith_speed.cpp writes computes, and  *)
(* what run_benchmark computes on the host to check it.  In float the      *)
(* inputs 1.0, 1.00000001 and 0.99999999 are all 1, so the functions of    *)
(* Exact stay within the integers, until a sum overflows to infinity or is *)
(* too large for adding 1 to change it; in double those of them that only  *)
(* add do so up to less than the error the check allows.  Large sums are   *)
(* rounded, alike on both sides, and not here; and double, which reaches   *)
(* further than float, is given the limits of float, which both sides      *)
(* share as well.  What the other functions compute is left open: their    *)
(* check may turn out either way.                                          *)
(***************************************************************************)
EXTENDS Integers

CONSTANTS
    ArithOps,   \* ARITH_OPERATIONS (100)
    TransOps,   \* TRANS_OPERATIONS (10)
    UIntMod,    \* cl_uint counts modulo this (2^32)
    Whole,      \* adding 1 to it changes nothing (2^24)
    FltMax      \* the largest finite value

ASSUME KernelAssumption ==
    /\ ArithOps \in Nat \ {0} /\ TransOps \in Nat \ {0} /\ UIntMod \in Nat \ {0}
    /\ Whole \in Nat /\ FltMax \in Nat /\ Whole < FltMax

Arithmetic     == {"add", "sub", "mul", "div", "mad", "mad_mul", "vec", "vliw"}
Transcendental == {"exp", "log", "sqr", "sqrt", "cos", "sin", "tan"}
Functions      == Arithmetic \cup Transcendental
Exact          == {"add", "sub", "mul", "div", "vec", "vliw", "sqr", "sqrt"}

\* Operations in one iteration of the kernel's loop.
Unroll(fct) == IF fct \in Arithmetic THEN ArithOps ELSE TransOps

Inf    == FltMax + 1
Values == -Inf..Inf

Saturated(x) == IF x > FltMax THEN Inf ELSE IF x < -FltMax THEN -Inf ELSE x

\* A step of 1 away from 0 gets as far as Whole and no further.
Lost(a, b) == (b = 1 /\ a \notin (-Whole)..(Whole - 1))
                \/ (b = -1 /\ a \notin (1 - Whole)..Whole)

Plus(a, b) ==
    IF a \in {Inf, -Inf} \/ Lost(a, b) THEN a
    ELSE IF b \in {Inf, -Inf} THEN b ELSE Saturated(a + b)

\* One operation on the values <<a, b>>; op is the sign VLIW has there.
Apply(fct, op, s) ==
    CASE fct = "add" -> <<s[2], Plus(s[1], s[2])>>
      [] fct = "sub" -> <<s[2], Plus(s[1], -s[2])>>
      [] fct = "vec" \/ (fct = "vliw" /\ op = "-") -> <<Plus(s[1], -s[2]), s[2]>>
      [] fct = "vliw" /\ op = "+" -> <<Plus(s[1], s[2]), s[2]>>
      [] OTHER -> s    \* 1 * 1, 1 / 1, powr(1, 2), sqrt(1)

Sign(n) == CASE n = 0 -> "+" [] n = 1 -> "*" [] n = 2 -> "-"

\* Mutant: the counter of a row starts at 1.
KernelSignLate(vec, n) == Sign((((n % ArithOps) * vec) + 1) % 3)

\* genKernel gives the components of a row consecutive signs, and goes on
\* counting from row to row of the unrolled loop: component 0 of row n.
KernelSign(vec, n) == Sign(((n % ArithOps) * vec) % 3)

\* The check's three cases.
CheckSign(vec, n) ==
    LET m == (n % ArithOps) % 3
    IN  CASE vec % 3 = 1 -> Sign(m)
          [] vec % 3 = 2 -> Sign(IF m = 0 THEN 0 ELSE 3 - m)
          [] OTHER       -> "+"

\* The first value after n operations, sign[k] being the sign of the k-th:
\* the last m of them make last[m][s] of the values s.
After(fct, sign, n) ==
    LET last[m \in 0..n] ==
          [s \in Values \X Values |->
             IF m = 0 THEN s[1] ELSE last[m - 1][Apply(fct, sign[n - m], s)]]
    IN  last[n][<<1, 1>>]

\* The kernel is given the low 32 bits of size / OPERATIONS.
OpsMade(fct, size) == ((size \div Unroll(fct)) % UIntMod) * Unroll(fct)

\* Mutant: the check makes the kernel's operations, not those asked for.
OpsCheckedRounded(fct, size) == (size \div Unroll(fct)) * Unroll(fct)

\* The check makes them all, except for VLIW.
OpsChecked(fct, size) ==
    IF fct = "vliw" THEN (size \div ArithOps) * ArithOps ELSE size

\* Only VLIW has signs.
Result(fct, vec, size) ==
    LET n == OpsMade(fct, size)
    IN  After(fct, [k \in 0..(n - 1) |-> IF fct = "vliw" THEN KernelSign(vec, k) ELSE "none"], n)

Expected(fct, vec, size) ==
    LET n == OpsChecked(fct, size)
    IN  After(fct, [k \in 0..(n - 1) |-> IF fct = "vliw" THEN CheckSign(vec, k) ELSE "none"], n)

\* fabs(a - results[0]) > MAX_ERROR: not so for equal infinities, whose
\* difference is not a number.
Differs(a, r) == a # r
=============================================================================
