---------------------------- MODULE MemStreaming ----------------------------
(***************************************************************************)
(* mem_streaming.cpp for one device.  measureLocalMemory runs a kernel of  *)
(* StreamKernel twice: with a single work-item, then with a group on every *)
(* compute unit.  Each pass compiles the kernel, launches it a few times   *)
(* to warm up, and times `iterations' launches, enqueued asynchronously.   *)
(* main repeats that, and prints a bandwidth.                              *)
(*                                                                         *)
(* clFinish is taken to succeed.  What an early return leaves acquired is  *)
(* not modelled, but for the launches it leaves in the queue.              *)
(***************************************************************************)
EXTENDS StreamKernel, Sequences

CONSTANTS
    Devices,            \* <<max_work_item_sizes[0], max_compute_units>>
    MaxElements,        \* elements of the scalar type (1024)
    Vectors,            \* --vector, of 0..4
    WARMUP_CYCLES,
    Iterations,         \* --iterations
    Repeats,            \* --repeats
    Sizes,              \* num_sizes; the sizes themselves are not used
    MaxFailures         \* failing calls explored

ASSUME StreamingAssumption ==
    /\ \A dev \in Devices : dev[1] \in 1..Locals /\ dev[2] \in 1..Groups
    /\ Vectors \subseteq 0..4
    /\ MaxElements \in Nat
    /\ \A v \in Vectors : MaxElements \div (2^v) \in 1..Cells
    /\ WARMUP_CYCLES \in Nat \ {0}
    /\ Iterations \in Nat /\ Repeats \in Nat \ {0} /\ Sizes \in Nat \ {0}
    /\ MaxFailures \in Nat

VARIABLES
    device, f4,   \* the device, and the vector type
    ready,        \* "queue", or the "context" without one, or "none"
    queued,       \* launches enqueued by this pass and not begun
    leftover,     \* launches of passes that failed, on buffers of their own
    pc,
    larg,         \* whether local memory is passed as an argument
    size, repeat, \* the loops of main, from 1
    ws,           \* the pass of measureLocalMemory
    i,            \* its loops
    warmed,       \* history: warm-up launches accepted
    clock,        \* history: whether the clock is running
    timed,        \* history: launches executed while it ran
    summed,       \* repeats whose times are in time[]
    failures,     \* failing calls so far
    printed       \* what was printed

input    == <<device, f4, ready>>
position == <<larg, size, repeat>>
window   == <<warmed, clock, timed>>
hostVars == <<input, queued, leftover, pc, position, ws, i, window, summed,
              failures, printed>>
vars     == <<kernelVars, hostVars>>

elements == MaxElements \div (2^f4)

Drained == queued = 0 /\ leftover = 0 /\ Idle

\* A call that has to fail, or may.
Fails(must) == IF must THEN UNCHANGED failures
               ELSE failures < MaxFailures /\ failures' = failures + 1
-----------------------------------------------------------------------------
(* A pass of measureLocalMemory.                                           *)

\* local is halved until a group has no more work-items than elements.
Halved(n) ==
    LET halved[m \in 0..n] == IF m <= elements THEN m ELSE halved[m \div 2]
    IN  halved[n]

PassLocal == IF ws = 0 THEN 1 ELSE Halved(device[1])
PassUnits == IF ws = 0 THEN 1 ELSE device[2]

\* What the kernel is compiled for: private memory is dealt out.
PassElements ==
    IF type = "private" THEN (elements + PassLocal - 1) \div PassLocal
                        ELSE elements

\* The cells clSetKernelArg asks for: those for float16 have float8's size.
ArgumentCells == IF f4 = 4 THEN elements \div 2 ELSE elements

\* Launches a failed call has left behind go on with their own buffers.
LeaveBehind ==
    /\ leftover' = leftover + queued + IF Idle THEN 0 ELSE 1
    /\ queued' = 0

\* The kernel is compiled, output is created and the arguments are set.
\* g1 and g2 are passed even if they could not be created: to the kernel
\* they are arrays of no cells.
Setup ==
    /\ pc = "setup"
    /\ \/ /\ ready # "none"
          /\ localRange' = PassLocal /\ units' = PassUnits
          /\ ELEMENTS' = PassElements
          /\ \/ /\ allocated' = IF type = "local" /\ larg THEN ArgumentCells
                                                          ELSE PassElements
                /\ UNCHANGED failures
             \/ /\ type = "global" /\ allocated' = 0
                /\ Fails(FALSE)
          /\ NewBuffers /\ LeaveBehind
          /\ pc' = "warmup"
          /\ UNCHANGED stray
       \/ /\ Fails(ready = "none")
          /\ pc' = "failed"
          /\ UNCHANGED <<units, localRange, ELEMENTS, allocated, phase, idx,
                         half, s1, output, warm, launches, dirty, stray,
                         queued, leftover>>
    /\ i' = 0 /\ warmed' = 0
    /\ UNCHANGED <<type, input, position, ws, clock, timed, summed, printed>>

Enqueue == ready = "queue" /\ queued' = queued + 1 /\ UNCHANGED failures
Refused == Fails(ready # "queue") /\ UNCHANGED queued

\* Mutant: a warm-up launch that is refused is tried again.
WarmupAgain ==
    /\ pc = "warmup" /\ i < WARMUP_CYCLES
    /\ \/ Enqueue /\ warmed' = warmed + 1 /\ pc' = "finish"
       \/ Refused /\ UNCHANGED <<warmed, pc>>
    /\ UNCHANGED <<kernelVars, input, leftover, position, ws, i, clock, timed,
                   summed, printed>>

\* A launch that is refused is not noticed.
Warmup ==
    /\ pc = "warmup" /\ i < WARMUP_CYCLES
    /\ \/ Enqueue /\ warmed' = warmed + 1
       \/ Refused /\ UNCHANGED warmed
    /\ pc' = "finish"
    /\ UNCHANGED <<kernelVars, input, leftover, position, ws, i, clock, timed,
                   summed, printed>>

\* Mutant: the warm-up launches are not waited for.
FinishWarmupAtOnce ==
    /\ pc = "finish"
    /\ i' = i + 1
    /\ pc' = "warmup"
    /\ UNCHANGED <<kernelVars, input, queued, leftover, position, ws, window,
                   summed, failures, printed>>

FinishWarmup ==
    /\ pc = "finish"
    /\ Drained
    /\ i' = i + 1
    /\ pc' = "warmup"
    /\ UNCHANGED <<kernelVars, input, queued, leftover, position, ws, window,
                   summed, failures, printed>>

\* Mutant: the kernel is not warmed up.
StartClockCold ==
    /\ pc = "warmup"
    /\ clock' = TRUE /\ timed' = 0 /\ i' = 0
    /\ pc' = "measure"
    /\ UNCHANGED <<kernelVars, input, queued, leftover, position, ws, warmed,
                   summed, failures, printed>>

StartClock ==
    /\ pc = "warmup" /\ i = WARMUP_CYCLES
    /\ clock' = TRUE /\ timed' = 0 /\ i' = 0
    /\ pc' = "measure"
    /\ UNCHANGED <<kernelVars, input, queued, leftover, position, ws, warmed,
                   summed, failures, printed>>

Measure ==
    /\ pc = "measure" /\ i < Iterations
    /\ \/ Enqueue /\ i' = i + 1 /\ UNCHANGED <<pc, clock>>
       \/ Refused /\ pc' = "failed" /\ clock' = FALSE /\ UNCHANGED i
    /\ UNCHANGED <<kernelVars, input, leftover, position, ws, warmed, timed,
                   summed, printed>>

StopClock ==
    /\ pc = "measure" /\ i = Iterations
    /\ Drained
    /\ clock' = FALSE
    /\ pc' = "passed"
    /\ UNCHANGED <<kernelVars, input, queued, leftover, position, ws, i,
                   warmed, timed, summed, failures, printed>>

NextPass ==
    /\ pc = "passed"
    /\ IF ws = 0 THEN ws' = 1 /\ pc' = "setup" ELSE pc' = "ran" /\ UNCHANGED ws
    /\ UNCHANGED <<kernelVars, input, queued, leftover, position, i, window,
                   summed, failures, printed>>
-----------------------------------------------------------------------------
(* The loops of main.                                                      *)

NaN == -1

\* Local memory is measured twice for each size, the others once.
Report(sum) ==
    /\ printed' = Append(printed, sum)
    /\ summed' = 0 /\ repeat' = 1
    /\ IF size < Sizes
       THEN size' = size + 1 /\ pc' = "setup" /\ UNCHANGED larg
       ELSE /\ size' = 1
            /\ larg' = (type = "local")
            /\ pc' = IF type = "local" /\ ~larg THEN "setup" ELSE "exit"

NextRepeat ==
    IF repeat < Repeats
    THEN /\ repeat' = repeat + 1 /\ summed' = summed + 1 /\ pc' = "setup"
         /\ UNCHANGED <<larg, size, printed>>
    ELSE Report(summed + 1)

Succeeded ==
    /\ pc = "ran"
    /\ NextRepeat
    /\ ws' = 0
    /\ UNCHANGED <<kernelVars, input, queued, leftover, i, window, failures>>

\* Mutant: errors are expected to be negative, and zeros are summed.
FailedUnnoticed ==
    /\ pc = "failed"
    /\ IF repeat < Repeats
       THEN /\ repeat' = repeat + 1 /\ pc' = "setup"
            /\ UNCHANGED <<larg, size, summed, printed>>
       ELSE Report(summed)
    /\ ws' = 0
    /\ UNCHANGED <<kernelVars, input, queued, leftover, i, window, failures>>

\* The error is 1, and the line is given up.
Failed ==
    /\ pc = "failed"
    /\ Report(NaN)
    /\ ws' = 0
    /\ UNCHANGED <<kernelVars, input, queued, leftover, i, window, failures>>

Host == \/ Setup \/ Warmup \/ FinishWarmup \/ StartClock \/ Measure
        \/ StopClock \/ NextPass \/ Succeeded \/ Failed
-----------------------------------------------------------------------------
(* The device executes the launches in their order.                        *)

ExecuteLeftover ==
    /\ leftover > 0
    /\ leftover' = leftover - 1
    /\ timed' = IF clock THEN timed + 1 ELSE timed
    /\ UNCHANGED <<kernelVars, input, queued, pc, position, ws, i, warmed,
                   clock, summed, failures, printed>>

Begin ==
    /\ queued > 0 /\ leftover = 0 /\ Idle
    /\ queued' = queued - 1
    /\ timed' = IF clock THEN timed + 1 ELSE timed
    /\ BeginLaunch
    /\ UNCHANGED <<input, leftover, pc, position, ws, i, warmed, clock,
                   summed, failures, printed>>

Compute == Running /\ UNCHANGED hostVars

Init ==
    /\ device \in Devices /\ f4 \in Vectors /\ type \in Types
    /\ \/ ready = "queue" /\ failures = 0
       \/ ready \in {"context", "none"} /\ MaxFailures > 0 /\ failures = 1
    /\ units = 1 /\ localRange = 1 /\ ELEMENTS = 1 /\ allocated = 1
    /\ phase = [it \in AllItems |-> "done"] /\ idx = [it \in AllItems |-> 0]
    /\ half = {} /\ s1 = [c \in AllItems \X (0..(Cells - 1)) |-> Garbage]
    /\ output = [it \in AllItems |-> 0]
    /\ warm = FALSE /\ launches = 0 /\ dirty = {} /\ stray = FALSE
    /\ queued = 0 /\ leftover = 0
    /\ pc = "setup" /\ larg = FALSE /\ size = 1 /\ repeat = 1 /\ ws = 0 /\ i = 0
    /\ warmed = 0 /\ clock = FALSE /\ timed = 0
    /\ summed = 0 /\ printed = << >>

Over == stray \/ (pc = "exit" /\ Drained)

Next == \/ ~stray /\ (Host \/ ExecuteLeftover \/ Begin \/ Compute)
        \/ Over /\ UNCHANGED vars

Spec == Init /\ [][Next]_vars

\* The host goes on, the device takes up the launches, and the work-items of
\* a launch run until it has ended.
FairSpec == Spec /\ WF_vars(~stray /\ Host)
                 /\ WF_vars(~stray /\ (ExecuteLeftover \/ Begin))
                 /\ WF_vars(~stray /\ Compute)
-----------------------------------------------------------------------------
(* Properties.                                                             *)

\* In local and private memory the result of a work-item is exact, however
\* the work-items of a launch interleave: every element it is dealt is added
\* up once in every launch.
Share(it) == IF type = "private" THEN ELEMENTS
             ELSE Cardinality({c \in 0..(ELEMENTS - 1) : c % localRange = it[2]})

ResultExact ==
    Idle /\ type # "global" /\ launches > 0 =>
      \A it \in Items : output[it] = launches * Share(it)

\* A word nothing was stored in is read by the first launch on its buffers
\* at most, and only in global memory, which the barrier does not fence.
GarbageOnlyAtFirst ==
    dirty \subseteq {1} /\ (dirty # {} => type = "global")

\* The warm-up hides that from the measurement: a launch that is timed reads
\* defined words, unless as many calls failed as there are warm-up launches.
MeasuredWarm ==
    pc \in {"measure", "passed"} /\ dirty # {} /\ timed = launches =>
      failures >= WARMUP_CYCLES

\* The launches executed between the readings of the clock are those of the
\* measurement, all of them and no others: neither those of the warm-up nor
\* those a failed call has left in the queue.
Watch == INSTANCE Stopwatch WITH
    Capacity  <- Iterations,
    phase     <- IF clock THEN "running" ELSE IF pc = "passed" THEN "read"
                                                               ELSE "idle",
    submitted <- IF clock \/ pc = "passed" THEN i ELSE 0,
    executed  <- IF clock \/ pc = "passed" THEN timed ELSE 0

ImplementsStopwatch == Watch!Spec

\* Memory outside the arrays is accessed only if local memory for float16 is
\* passed as an argument, or g1 or g2 could not be created.
StraysOnlyWithoutMemory ==
    stray => \/ type = "local" /\ larg /\ f4 = 4
             \/ type = "global" /\ failures > 0

\* "measure given amount of times and return mean values": what is printed is
\* a mean over all the repeats, or not a number.
MeanOfAllRepeats ==
    \A n \in 1..Len(printed) : printed[n] \in {NaN, Repeats}

\* The program ends, with nothing left in the queue.
Termination == <>Over
=============================================================================
