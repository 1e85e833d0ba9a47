----------------------------- MODULE MemLatency -----------------------------
(***************************************************************************)
(* mem_latency.cpp: the loops of main over devices, data layouts and       *)
(* memory types, and the OpenCL calls run_latency_benchmark makes for each *)
(* repeat, with what it acquires and what it leaves behind when one of     *)
(* them fails.  What the kernel computes is LatencyChase's subject; here a *)
(* block of memory is only too small for the layout or not.                *)
(*                                                                         *)
(* A kernel whose wait failed is forgotten: it has a queue of its own.     *)
(***************************************************************************)
EXTENDS Integers, FiniteSets, SequencesExt

CONSTANTS
    NumDevices,     \* devices of the machine
    DeviceIds,      \* --device, of its devices, or -1
    TypeWords,      \* --type, or "none"
    LayoutWords,    \* --layout, or "none"
    BlockKinds,     \* blocks the device has for each memory type
    Repeats,        \* --repeats
    MaxFailures     \* failing calls explored

\* _MEM_TYPE and _DATA_LAYOUT, and their names.
MemTypes == <<"global", "const", "local">>
Layouts  == <<"sequential", "cache_step">>

ASSUME MemLatencyAssumption ==
    /\ NumDevices \in Nat \ {0}
    /\ DeviceIds \subseteq -1..(NumDevices - 1)
    /\ BlockKinds \subseteq [Range(MemTypes) -> {"empty", "step", "larger"}]
    /\ Repeats \in Nat \ {0} /\ MaxFailures \in Nat

VARIABLES
    deviceId, typeWord, layoutWord, blocks,    \* the input
    pc,
    dev, layoutcnt, mtcnt, k,  \* the loops of main, from 0
    held,       \* what the call has acquired
    kernelAt,   \* the kernel's command: "none", "queued" or "done"
    time,       \* repeats summed, or NaN
    ops,        \* the line number_of_ops belongs to, or None
    lines,      \* what was printed
    leaked,     \* history: how often each kind of resource was left behind
    failures    \* failing calls so far

input == <<deviceId, typeWord, layoutWord, blocks>>
loops == <<dev, layoutcnt, mtcnt>>
mainVars == <<loops, k, time, ops, lines>>
vars  == <<input, pc, mainVars, held, kernelAt, leaked, failures>>

Kinds == {"info", "data", "commands", "program", "descriptor", "kernel",
          "input", "result", "event"}

NaN  == -1
None == <<>>
-----------------------------------------------------------------------------
(* What main makes of the options: a word that is no name is ignored.      *)

typeSet   == typeWord \in Range(MemTypes)
layoutSet == layoutWord \in Range(Layouts)

usedDevices == IF deviceId = -1 THEN [n \in 1..NumDevices |-> n - 1]
                                ELSE <<deviceId>>

memType    == IF typeSet THEN typeWord ELSE MemTypes[mtcnt + 1]
dataLayout == IF layoutSet THEN layoutWord ELSE Layouts[layoutcnt + 1]

Line == <<usedDevices[dev + 1], dataLayout, memType>>

\* Mutant: the other memory types are not left out.
TypesDoneNever == mtcnt = 3

TypesDone   == mtcnt = 3 \/ (typeSet /\ mtcnt > 0)
LayoutsDone == layoutcnt = 2 \/ (layoutSet /\ layoutcnt > 0)

NextLayout ==
    /\ pc = "loop" /\ dev < Len(usedDevices) /\ ~LayoutsDone /\ TypesDone
    /\ layoutcnt' = layoutcnt + 1 /\ mtcnt' = 0
    /\ UNCHANGED <<input, pc, dev, k, time, ops, lines, held, kernelAt, leaked,
                   failures>>

NextDevice ==
    /\ pc = "loop" /\ dev < Len(usedDevices) /\ LayoutsDone
    /\ dev' = dev + 1 /\ layoutcnt' = 0 /\ mtcnt' = 0
    /\ UNCHANGED <<input, pc, k, time, ops, lines, held, kernelAt, leaked,
                   failures>>

Exit ==
    /\ pc = "loop" /\ dev = Len(usedDevices)
    /\ pc' = "exit"
    /\ UNCHANGED <<input, mainVars, held, kernelAt, leaked, failures>>

CallFails == failures < MaxFailures /\ failures' = failures + 1

CreateContext ==
    /\ pc = "loop" /\ dev < Len(usedDevices) /\ ~LayoutsDone /\ ~TypesDone
    /\ \/ pc' = "repeat" /\ k' = 0 /\ time' = 0 /\ ops' = None
          /\ UNCHANGED failures
       \/ pc' = "error" /\ CallFails /\ UNCHANGED <<k, time, ops>>
    /\ UNCHANGED <<input, loops, lines, held, kernelAt, leaked>>

PrintLine ==
    /\ lines' = Append(lines, [of |-> Line, time |-> time', ops |-> ops])
    /\ mtcnt' = mtcnt + 1
    /\ pc' = "loop"
    /\ UNCHANGED <<dev, layoutcnt>>

MoreRepeats == k < Repeats

\* The context is released with it.
PrintMean ==
    /\ pc = "repeat" /\ ~MoreRepeats
    /\ UNCHANGED time
    /\ PrintLine
    /\ UNCHANGED <<input, k, ops, held, kernelAt, leaked, failures>>
-----------------------------------------------------------------------------
(* run_latency_benchmark.                                                  *)

\* The store of the layout into an empty block is outside of it, and the
\* chain of a single step fails the assertion.
Prepare ==
    /\ pc = "repeat" /\ MoreRepeats
    /\ LET block == blocks[memType]
       IN  IF block = "empty" \/ (block = "step" /\ dataLayout = "cache_step")
           THEN pc' = "died" /\ UNCHANGED held
           ELSE pc' = "commands" /\ held' = {"info", "data"}
    /\ kernelAt' = "none"
    /\ UNCHANGED <<input, mainVars, leaked, failures>>

LeaveBehind(what) ==
    /\ leaked' = [r \in Kinds |-> leaked[r] + IF r \in what THEN 1 ELSE 0]
    /\ held' = {}

\* An early return 1: whatever was acquired is left.
ReturnsError(also) ==
    /\ pc' = "failed"
    /\ LeaveBehind(held \cup also)
    /\ UNCHANGED kernelAt

\* A call that acquires something, or nothing, and can fail.
Step(at, what, next) ==
    /\ pc = at
    /\ \/ held' = held \cup what /\ pc' = next
          /\ UNCHANGED <<kernelAt, leaked, failures>>
       \/ CallFails /\ ReturnsError({})
    /\ UNCHANGED <<input, mainVars>>

CreateCommandQueue == Step("commands", {"commands"}, "program")

\* load_kernel does not close the file when the program cannot be created.
LoadKernel ==
    \/ Step("program", {"program"}, "build")
    \/ /\ pc = "program"
       /\ CallFails /\ ReturnsError({"descriptor"})
       /\ UNCHANGED <<input, mainVars>>

BuildProgram == Step("build", {}, "kernel")
CreateKernel == Step("kernel", {"kernel"}, "buffers")

\* One buffer may have been created when the other is not.
CreateBuffers ==
    \/ Step("buffers", {"input", "result"}, "write")
    \/ /\ pc = "buffers"
       /\ \E one \in {"input", "result"} : CallFails /\ ReturnsError({one})
       /\ UNCHANGED <<input, mainVars>>

WriteData == Step("write", {}, "arguments")
SetArguments == Step("arguments", {}, "launch")

Launch ==
    /\ pc = "launch"
    /\ \/ /\ pc' = "wait" /\ held' = held \cup {"event"} /\ kernelAt' = "queued"
          /\ UNCHANGED <<leaked, failures>>
       \/ CallFails /\ ReturnsError({})
    /\ UNCHANGED <<input, mainVars>>

Wait ==
    /\ pc = "wait"
    /\ \/ kernelAt = "done" /\ pc' = "profile"
          /\ UNCHANGED <<held, kernelAt, leaked, failures>>
       \/ CallFails /\ ReturnsError({})
    /\ UNCHANGED <<input, mainVars>>

\* Times are available only of a command that has ended.
Profile ==
    /\ pc = "profile"
    /\ \/ kernelAt = "done" /\ pc' = "read"
          /\ UNCHANGED <<held, kernelAt, leaked, failures>>
       \/ /\ IF kernelAt = "done" THEN CallFails ELSE UNCHANGED failures
          /\ ReturnsError({})
    /\ UNCHANGED <<input, mainVars>>

ReadResult == Step("read", {}, "cleanup")

\* Mutant: the data is not freed.
CleanupKeepsData ==
    /\ pc = "cleanup"
    /\ LeaveBehind(held \ {"input", "program", "kernel", "commands"})
    /\ ops' = Line
    /\ time' = time + 1 /\ k' = k + 1
    /\ pc' = "repeat"
    /\ UNCHANGED <<input, loops, lines, kernelAt, failures>>

\* The results are stored, and some of what was acquired is released.
Cleanup ==
    /\ pc = "cleanup"
    /\ LeaveBehind(held \ {"input", "program", "kernel", "commands", "data"})
    /\ ops' = Line
    /\ time' = time + 1 /\ k' = k + 1
    /\ pc' = "repeat"
    /\ UNCHANGED <<input, loops, lines, kernelAt, failures>>

\* Mutant: the repeat is left out of the sum.
FailedUnnoticed ==
    /\ pc = "failed"
    /\ k' = k + 1
    /\ pc' = "repeat"
    /\ UNCHANGED <<input, loops, time, ops, lines, held, kernelAt, leaked, failures>>

\* No further repeats are made, and the line says so.
Failed ==
    /\ pc = "failed"
    /\ time' = NaN
    /\ PrintLine
    /\ UNCHANGED <<input, k, ops, held, kernelAt, leaked, failures>>

Call == \/ Prepare \/ CreateCommandQueue \/ LoadKernel \/ BuildProgram
        \/ CreateKernel \/ CreateBuffers \/ WriteData \/ SetArguments
        \/ Launch \/ Wait \/ Profile \/ ReadResult \/ Cleanup

Main == NextLayout \/ NextDevice \/ Exit \/ CreateContext \/ PrintMean \/ Failed

\* The device ends the kernel.
Execute ==
    /\ kernelAt = "queued"
    /\ kernelAt' = "done"
    /\ UNCHANGED <<input, pc, mainVars, held, leaked, failures>>

Init ==
    /\ deviceId \in DeviceIds /\ typeWord \in TypeWords
    /\ layoutWord \in LayoutWords /\ blocks \in BlockKinds
    /\ pc = "loop" /\ dev = 0 /\ layoutcnt = 0 /\ mtcnt = 0 /\ k = 0
    /\ held = {} /\ kernelAt = "none" /\ time = 0 /\ ops = None
    /\ lines = << >> /\ leaked = [r \in Kinds |-> 0] /\ failures = 0

Over == pc \in {"exit", "error", "died"}

Next == \/ Main \/ Call \/ Execute
        \/ Over /\ UNCHANGED vars

Spec == Init /\ [][Next]_vars

-----------------------------------------------------------------------------
(* Properties.                                                             *)

\* What the options ask for: all the layouts for a device and all the memory
\* types for a layout, but for those an option names.
Requested ==
    LET L == IF layoutSet THEN <<layoutWord>> ELSE Layouts
        T == IF typeSet THEN <<typeWord>> ELSE MemTypes
        perDevice == Len(L) * Len(T)
    IN  [n \in 1..(Len(usedDevices) * perDevice) |->
            <<usedDevices[((n - 1) \div perDevice) + 1],
              L[(((n - 1) \div Len(T)) % Len(L)) + 1],
              T[((n - 1) % Len(T)) + 1]>>]

Printed == [n \in 1..Len(lines) |-> lines[n].of]

\* Whatever fails, every combination is printed once, in order and without
\* gaps, and all of them by the time the program exits.
LinesFollowTheRequest ==
    /\ IsPrefix(Printed, Requested)
    /\ pc = "exit" => Printed = Requested

\* A line is not a number, or the mean of all its repeats, with operations
\* counted for the same layout and type.  A failing call costs one line: none
\* is given up for anything else, and no failure outlasts its line.
LineIsOfItsRepeats ==
    /\ \A n \in 1..Len(lines) :
         \/ lines[n].time = NaN
         \/ lines[n].time = Repeats /\ lines[n].ops = lines[n].of
    /\ Cardinality({n \in 1..Len(lines) : lines[n].time = NaN}) <= failures

\* Only failing calls leave anything behind, but for the device information,
\* the result buffer and the event, which no call releases.
OnlyFailuresLeak ==
    \A r \in Kinds \ {"info", "result", "event"} : leaked[r] <= failures

=============================================================================
