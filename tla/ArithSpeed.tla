----------------------------- MODULE ArithSpeed -----------------------------
(***************************************************************************)
(* main of arith_speed.cpp behind its options, and run_benchmark with its  *)
(* OpenCL calls: for every device, function, size, element type and vector *)
(* width, one work-item and then as many as fit run a generated kernel.    *)
(* A run is checked on the host, repeated, and one line is printed.        *)
(*                                                                         *)
(* clSetKernelArg, clFinish and the profiling calls are taken to succeed.  *)
(***************************************************************************)
EXTENDS ArithKernel, Sequences, FiniteSets

CONSTANTS
    Requests,      \* what the command line may ask for, see Request
    Machines,      \* sequences of devices, see Device
    Leftovers,     \* what a slot of functions may hold that is not stored in
    MaxFailures    \* failing calls and wrong results explored

(* A request has functions and sizes (sequences), checks and double        *)
(* (flags), repeats, maxVec, and local and groups (0 when not given).  A   *)
(* device has items (max_work_item_sizes[0]), units (max_compute_units)    *)
(* and memory (global_mem_size / 1024).                                    *)
ASSUME ArithAssumption ==
    /\ \A r \in Requests :
         /\ r.functions \in Seq(STRING) /\ r.sizes \in Seq(Nat)
         /\ r.checks \in BOOLEAN /\ r.double \in BOOLEAN
         /\ r.maxVec \in Nat \ {0} /\ r.repeats \in Nat \ {0}
         /\ r.local \in Nat /\ r.groups \in Nat
    /\ \A m \in Machines :
         /\ m \in Seq([items : Nat \ {0}, units : Nat \ {0}, memory : Nat])
         \* the loop at line 1209 ends only if two elements fit
         /\ \A r \in Requests, n \in 1..Len(m) : 2 * 8 * r.maxVec <= m[n].memory
    /\ "???" \in Leftovers /\ Leftovers \subseteq Functions \cup {"???"}
    /\ MaxFailures \in Nat

VARIABLES
    request, machine,
    functions,       \* the array main fills, from 1
    pc,
    i, f, j,         \* device, function and size, from 1
    type, vec, ws, k,
    local, global,
    result,          \* results[0], as read back
    err, time,       \* time: repeats summed
    calls,           \* calls of run_benchmark so far
    held,            \* objects acquired, each with the call or device it is of
    hit,             \* history: a call failed or a result was wrong, for this line
    failures,
    table            \* the lines printed

input    == <<request, machine, functions>>
position == <<i, f, j, type, vec, ws>>
sizing   == <<local, global>>
budget   == <<hit, failures>>
vars == <<input, position, sizing, budget, pc, k, result, err, time, calls,
          held, table>>

fct   == functions[f]
size  == request.sizes[j]
trans == fct \notin Arithmetic
exact == fct \in Exact /\ (type = "double" => fct \notin {"mul", "div"})
Bytes == IF type = "float" THEN 4 ELSE 8

Own(objects) == {<<o, calls>> : o \in objects}
Fails == failures < MaxFailures /\ failures' = failures + 1 /\ hit' = TRUE
-----------------------------------------------------------------------------
(* Options.                                                                *)

\* A name main does not know is counted, and its slot not stored in.
ReadFunctions ==
    /\ pc = "options"
    /\ functions' \in
         {s \in [1..Len(request.functions) -> Functions \cup Leftovers] :
            \A n \in DOMAIN s :
              IF request.functions[n] \in Functions
              THEN s[n] = request.functions[n] ELSE s[n] \in Leftovers}
    /\ pc' = "device"
    /\ UNCHANGED <<request, machine, position, sizing, budget, k, result, err,
                   time, calls, held, table>>
-----------------------------------------------------------------------------
(* The loops of main.                                                      *)

maxLocal  == IF request.local \in 1..machine[i].items THEN request.local
                                                      ELSE machine[i].items
maxGlobal == (IF request.groups > 0 THEN request.groups ELSE machine[i].units)
               * maxLocal

\* The device information is not freed, but for one array of it.
BeginDevice ==
    /\ pc = "device" /\ i <= Len(machine)
    /\ \/ /\ held' = held \cup {<<"info", i>>, <<"context", i>>, <<"queue", i>>}
          /\ pc' = "function"
          /\ UNCHANGED budget
       \/ /\ held' \in {held \cup {<<"info", i>>},
                        held \cup {<<"info", i>>, <<"context", i>>}}
          /\ pc' = "exit"
          /\ Fails
    /\ f' = 1 /\ j' = 1
    /\ UNCHANGED <<input, i, type, vec, ws, sizing, k, result, err, time,
                   calls, table>>

Loop(t, v, w) == type' = t /\ vec' = v /\ ws' = w /\ pc' = "sizes"

BeginFunction ==
    /\ pc = "function" /\ f <= Len(functions) /\ j <= Len(request.sizes)
    /\ Loop("float", 1, 0)
    /\ UNCHANGED <<input, i, f, j, sizing, budget, k, result, err, time,
                   calls, held, table>>

NextFunction ==
    /\ pc = "function" /\ f <= Len(functions) /\ j > Len(request.sizes)
    /\ f' = f + 1 /\ j' = 1
    /\ UNCHANGED <<input, i, type, vec, ws, sizing, budget, pc, k, result,
                   err, time, calls, held, table>>

\* The queue is released for every device, the context after the loop.
NextDevice ==
    /\ pc = "function" /\ f > Len(functions)
    /\ held' = held \ {<<"queue", i>>}
    /\ i' = i + 1 /\ pc' = "device"
    /\ UNCHANGED <<input, f, j, type, vec, ws, sizing, budget, k, result, err,
                   time, calls, table>>

Exit ==
    /\ pc = "device" /\ i > Len(machine)
    /\ held' = held \ {<<"context", i - 1>>}
    /\ pc' = "exit"
    /\ UNCHANGED <<input, position, sizing, budget, k, result, err, time,
                   calls, table>>

\* buf has no room for "128 ": what is behind it is overwritten.
BufTooShort == vec > 64

\* Before the first of the two work sizes, main writes the width into buf.
WorkSizes ==
    /\ pc = "sizes"
    /\ IF ws = 0 THEN /\ local' = 1 /\ global' = 1
                      /\ pc' = "repeat" \/ (BufTooShort /\ pc' = "crash")
       ELSE local' = maxLocal /\ global' = maxGlobal /\ pc' = "halve"
    /\ k' = 0 /\ time' = 0 /\ hit' = FALSE
    /\ UNCHANGED <<input, position, failures, result, err, calls,
                   held, table>>

TooLarge == (global + 2) * Bytes * vec > machine[i].memory

\* Mutant: the group keeps its size.
HalveGlobal ==
    /\ pc = "halve"
    /\ IF TooLarge THEN global' = global \div 2 /\ UNCHANGED <<local, pc>>
                   ELSE pc' = "repeat" /\ UNCHANGED sizing
    /\ UNCHANGED <<input, position, budget, k, result, err, time, calls, held,
                   table>>

\* Mutant: nothing is halved.
HalveNothing ==
    /\ pc = "halve"
    /\ IF TooLarge THEN UNCHANGED <<sizing, pc>>
                   ELSE pc' = "repeat" /\ UNCHANGED sizing
    /\ UNCHANGED <<input, position, budget, k, result, err, time, calls, held,
                   table>>

Halve ==
    /\ pc = "halve"
    /\ IF TooLarge
       THEN global' = global \div 2 /\ local' = local \div 2 /\ UNCHANGED pc
       ELSE pc' = "repeat" /\ UNCHANGED sizing
    /\ UNCHANGED <<input, position, budget, k, result, err, time, calls, held,
                   table>>
-----------------------------------------------------------------------------
(* run_benchmark.                                                          *)

\* It returned 1: what is left of this call stays.
ReturnError(left) == err' = 1 /\ held' = held \cup Own(left) /\ pc' = "repeat"

\* What is written behind the end of an array, by function, type and width:
\* "double16" behind type[8], the operations of a row of VEC behind
\* fctStr[512], and, unless main overran buf already, all of them for VLIW
\* behind the text.
Overruns(g, t, v) ==
    \/ g \notin {"vec", "vliw"} /\ t = "double" /\ v = 16
    \/ g = "vec" /\ v > 32
    \/ v > 64

\* There is no such vector type.
BadType == vec > 16 /\ fct \notin {"vec", "vliw"}

\* What is left of the text and its program where the kernel cannot be had;
\* a group of no work-items cannot be compiled.
Left == IF BadType THEN {{"code"}}
        ELSE IF local = 0 THEN {{"code", "program"}}
        ELSE {{"code"}, {"code", "program"}}

BeginCall ==
    /\ pc = "repeat" /\ k < request.repeats /\ err = 0
    /\ pc' = IF fct = "???" THEN "crash" ELSE "generate"
    /\ calls' = calls + 1
    /\ UNCHANGED <<input, position, sizing, budget, k, result, err, time,
                   held, table>>

\* An error returns before the text, and later the program, are given back.
\* Where an array is overrun it depends on the build whether that does no
\* harm, spoils the text, which then cannot be compiled, or does anything
\* else: the model does not go on from there.
GenKernel ==
    /\ pc = "generate"
    /\ \/ /\ ~BadType /\ local > 0
          /\ held' = held \cup Own({"data", "results", "kernel"})
          /\ pc' = "prepare"
          /\ UNCHANGED <<err, budget>>
       \/ /\ \E left \in Left : ReturnError(left)
          /\ IF BadType \/ local = 0 \/ Overruns(fct, type, vec)
             THEN UNCHANGED budget ELSE Fails
       \/ /\ ~BadType /\ Overruns(fct, type, vec)
          /\ pc' = "crash"
          /\ UNCHANGED <<held, err, budget>>
    /\ UNCHANGED <<input, position, sizing, k, result, time, calls, table>>

\* The two buffers, the arguments and the blocking transfer of the inputs.
Prepare ==
    /\ pc = "prepare"
    /\ \/ /\ held' = held \cup Own({"input", "output"})
          /\ pc' = "launch"
          /\ UNCHANGED <<err, budget>>
       \/ /\ \E left \in {{"input"}, {"output"}, {"input", "output"}} :
               ReturnError(left)
          /\ Fails
    /\ UNCHANGED <<input, position, sizing, k, result, time, calls, table>>

\* Groups must share out the work-items evenly.
LegalLaunch == local > 0 /\ global > 0 /\ global % local = 0

\* The launch, the wait for it and the reading of the results.
Launch ==
    /\ pc = "launch"
    /\ \/ /\ LegalLaunch
          /\ held' = held \cup Own({"event"})
          /\ pc' = "check"
          /\ IF exact
             THEN \/ result' = Result(fct, vec, size) /\ UNCHANGED budget
                  \/ result' = Result(fct, vec, size) + 2 /\ Fails
             ELSE UNCHANGED <<result, budget>>
          /\ UNCHANGED err
       \/ /\ ~LegalLaunch
          /\ ReturnError({})
          /\ UNCHANGED <<result, budget>>
       \/ /\ LegalLaunch
          /\ \E left \in {{}, {"event"}} : ReturnError(left)
          /\ Fails
          /\ UNCHANGED result
    /\ UNCHANGED <<input, position, sizing, k, time, calls, table>>

\* Mutant: the event is not released.
ReturnKeepsEvent ==
    held' = held \ Own({"data", "results", "kernel", "input", "output"})

Return ==
    held' = held \ Own({"data", "results", "kernel", "input", "output", "event"})

Passes ==
    /\ \/ ~request.checks \/ ~exact
       \/ ~Differs(Expected(fct, vec, size), result)
    /\ Return
    /\ time' = time + 1 /\ k' = k + 1 /\ pc' = "repeat"
    /\ UNCHANGED err

\* A result that is refused is left like an error.
Refused ==
    /\ request.checks
    /\ exact => Differs(Expected(fct, vec, size), result)
    /\ ReturnError({})
    /\ UNCHANGED <<time, k>>

Check ==
    /\ pc = "check"
    /\ Passes \/ Refused
    /\ UNCHANGED <<input, position, sizing, budget, result, calls, table>>
-----------------------------------------------------------------------------
(* The lines.                                                              *)

NaN == -1

Line(t) == [device |-> i, f |-> f, fct |-> fct, j |-> j, size |-> size,
            type |-> type, exact |-> exact, vec |-> vec, ws |-> ws, local |-> local,
            global |-> global, time |-> t, hit |-> hit,
            made |-> OpsMade(fct, size)]

LastVec == 2 * vec > request.maxVec

\* The loop over the widths goes on, or the one over types or sizes.
NextVec ==
    CASE ~LastVec -> Loop(type, 2 * vec, 0) /\ UNCHANGED j
      [] LastVec /\ type = "float" /\ ~trans /\ request.double ->
           Loop("double", 1, 0) /\ UNCHANGED j
      [] OTHER -> j' = j + 1 /\ pc' = "function" /\ UNCHANGED <<type, vec, ws>>

\* Mutant: an error leaves the loop over the widths as well.
PrintErrorAndStop ==
    /\ pc = "repeat" /\ err > 0
    /\ table' = Append(table, Line(NaN))
    /\ err' = 0
    /\ j' = j + 1 /\ pc' = "function"
    /\ UNCHANGED <<input, i, f, type, vec, ws, sizing, budget, k, result,
                   time, calls, held>>

\* "# error", and the break leaves the loop over the two work sizes.  err is
\* assigned anew before it is read again.
PrintError ==
    /\ pc = "repeat" /\ err > 0
    /\ table' = Append(table, Line(NaN))
    /\ err' = 0
    /\ NextVec
    /\ UNCHANGED <<input, i, f, sizing, budget, k, result, time, calls, held>>

PrintLine ==
    /\ pc = "repeat" /\ err = 0 /\ k = request.repeats
    /\ table' = Append(table, Line(time))
    /\ IF ws = 0 THEN Loop(type, vec, 1) /\ UNCHANGED j ELSE NextVec
    /\ UNCHANGED <<input, i, f, sizing, budget, k, result, err, time, calls,
                   held>>

Over == pc \in {"exit", "crash"}

Init ==
    /\ request \in Requests /\ machine \in Machines /\ functions = << >>
    /\ pc = "options" /\ i = 1 /\ f = 1 /\ j = 1
    /\ type = "float" /\ vec = 1 /\ ws = 0 /\ k = 0 /\ local = 1 /\ global = 1
    /\ result = 1 /\ err = 0 /\ time = 0 /\ calls = 0 /\ held = {}
    /\ hit = FALSE /\ failures = 0 /\ table = << >>

Main == \/ ReadFunctions \/ BeginDevice \/ BeginFunction \/ NextFunction
        \/ NextDevice \/ Exit \/ WorkSizes \/ Halve \/ BeginCall \/ GenKernel
        \/ Prepare \/ Launch \/ Check \/ PrintError \/ PrintLine

Next == Main \/ (Over /\ UNCHANGED vars)

Spec     == Init /\ [][Next]_vars
FairSpec == Spec /\ WF_vars(Main)
-----------------------------------------------------------------------------
(* Properties.                                                             *)

\* A line's place in the loops of main: the loops count upwards, innermost
\* fastest.
Before(a, b) ==
    \/ a.device < b.device
    \/ a.device = b.device /\ a.f < b.f
    \/ a.device = b.device /\ a.f = b.f /\ a.j < b.j
    \/ /\ a.device = b.device /\ a.f = b.f /\ a.j = b.j
       /\ \/ a.type = "float" /\ b.type = "double"
          \/ a.type = b.type /\ a.vec < b.vec
          \/ a.type = b.type /\ a.vec = b.vec /\ a.ws < b.ws

\* The widths asked for, but those for which buf is too short.
Widths == {v \in {1, 2, 4, 8, 16, 32, 64} : v <= request.maxVec}

Printed(d, g, s, t, v, w) ==
    {n \in 1..Len(table) :
       LET l == table[n]
       IN  <<l.device, l.f, l.j, l.type, l.vec, l.ws>> = <<d, g, s, t, v, w>>}

Failed(d, g, s, t, v) ==
    \E n \in Printed(d, g, s, t, v, 0) : table[n].time = NaN

\* The table lists every function, size, type and width up to 64 asked for on
\* every device, in the order of the loops, with one line for a single work-item
\* and, unless that one is an error, one for many: an error costs no other
\* line, although it leaves a loop early.
LinesFollowTheRequest ==
    /\ \A n \in 1..(Len(table) - 1) : Before(table[n], table[n + 1])
    /\ pc = "exit" /\ i > Len(machine) =>
         \A d \in 1..Len(machine), g \in 1..Len(functions),
            s \in 1..Len(request.sizes), t \in {"float", "double"}, v \in Widths :
              LET due == t = "float"
                         \/ (request.double /\ functions[g] \in Arithmetic)
              IN  /\ (Printed(d, g, s, t, v, 0) # {}) <=> due
                  /\ (Printed(d, g, s, t, v, 1) # {}) <=>
                        (due /\ ~Failed(d, g, s, t, v))

\* When no call failed and no result was wrong, a function with exact results
\* is refused only for a known reason: a number of operations that is not a
\* multiple of the kernel's, or too large for it, work sizes that do not
\* divide, a vector type that does not exist, or a text or a name that is too
\* long for its array.  In particular, VLIW's signs are those of the check for
\* every width the program has room for.
AlarmHasACause ==
    \A n \in 1..Len(table) :
      LET l == table[n]
      IN  l.time = NaN /\ ~l.hit /\ l.exact =>
            \/ l.size % Unroll(l.fct) # 0
            \/ l.size \div Unroll(l.fct) >= UIntMod
            \/ l.local = 0 \/ l.global % l.local # 0
            \/ l.fct \notin {"vec", "vliw"} /\ l.vec > 16
            \/ Overruns(l.fct, l.type, l.vec)

\* A line of a checked function that counts down is of as many operations as
\* it says, as long as the count is small enough for the type to tell.
CheckedMeansPerformed ==
    \A n \in 1..Len(table) :
      LET l == table[n]
      IN  request.checks /\ l.fct = "vec" /\ l.time # NaN /\ l.size <= Whole =>
            l.made = l.size /\ ~l.hit

\* "perform benchmark with given list of operations": the operations printed,
\* from which the rate is computed, are those each work-item made.
OpsAsPrinted ==
    \A n \in 1..Len(table) : table[n].time # NaN => table[n].made = table[n].size

\* Halving both work sizes keeps them legal, and the number of groups, when
\* the work-items of a group are a power of two and one in each group fits.
PowersStayLegal ==
    pc = "repeat" /\ ws = 1 /\ maxLocal \in {1, 2, 4, 8, 16, 32, 64, 128, 256, 512, 1024}
      /\ ((maxGlobal \div maxLocal) + 2) * Bytes * vec <= machine[i].memory =>
        /\ LegalLaunch
        /\ global \div local = maxGlobal \div maxLocal
        /\ ~TooLarge

\* When nothing failed, a call of run_benchmark gives everything back before
\* the next one; what remains at the end is the information on each device
\* and the contexts of all but the last.
OnlyContextsRemain ==
    /\ pc = "repeat" /\ (\A n \in 1..Len(table) : table[n].time # NaN) /\ err = 0 =>
         \A h \in held : h[1] \in {"info", "context", "queue"}
    /\ pc = "exit" /\ (\A n \in 1..Len(table) : table[n].time # NaN) /\ failures = 0 =>
         held = ({"info"} \X (1..Len(machine)))
                  \cup ({"context"} \X (1..(Len(machine) - 1)))

\* Every halving, retry and loop over widths ends, and so does the program.
Termination == <>Over
=============================================================================
