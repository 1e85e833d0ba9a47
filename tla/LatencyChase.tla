---------------------------- MODULE LatencyChase ----------------------------
(***************************************************************************)
(* One call of run_latency_benchmark in mem_latency.cpp: the size of the   *)
(* block is fitted to the device, the block is filled with a chain of      *)
(* indices that starts and ends at cell 0, the host walks the chain once   *)
(* to count the hops and to sum every K-th element, and a single work-item *)
(* on the device walks it `iterations' times, summing what the host        *)
(* summed.  The latency printed is the run time over the number of hops,   *)
(* so it is right only if the chain visits every cell of the block.        *)
(*                                                                         *)
(* The OpenCL calls around the kernel are the subject of MemLatency.       *)
(***************************************************************************)
EXTENDS Integers

CONSTANTS
    K,            \* CACHE_STEP_WIDTH = REQUIRED_ITERATION_DIVISOR (128), and
                  \* the number of loads in the kernels' unrolled block
    CopyUnroll,   \* stores in the unrolled copy of local_latency.cl (32)
    WordBytes,    \* sizeof(cl_uint)
    Headroom,     \* bytes of device memory left free (64)
    UIntMod,      \* cl_uint and unsigned count modulo this (2^32)
    ULongMod,     \* cl_ulong counts modulo this (2^64)
    Requests,     \* byte sizes asked for
    MemSizes,     \* byte sizes a device reports for a kind of memory
    Iterations,   \* iteration counts asked for
    Garbage       \* content of a word nothing has been stored in

MemTypes == {"global", "constant", "local"}
Layouts  == {"sequential", "cache_step"}

ASSUME WidthAssumption ==
    /\ K \in Nat /\ K > 1
    /\ UIntMod \in Nat /\ UIntMod > 0 /\ UIntMod % K = 0
    /\ CopyUnroll \in Nat /\ CopyUnroll > 0 /\ K % CopyUnroll = 0

ASSUME BytesAssumption ==
    /\ WordBytes \in Nat /\ WordBytes > 0
    /\ Headroom \in Nat
    /\ ULongMod \in Nat /\ ULongMod > 0
    /\ UIntMod * UIntMod <= ULongMod

ASSUME InputAssumption ==
    /\ Requests   \subseteq 0..(ULongMod - 1)
    /\ MemSizes   \subseteq 0..(ULongMod - 1)
    /\ Iterations \subseteq 0..(ULongMod - 1)

ASSUME GarbageAssumption == Garbage \notin Int

VARIABLES
    call,      \* the arguments of the call and what the device reports
    pc,        \* the step the call is at
    numElems,  \* num_elems
    data,      \* the block: a function on the cells 0..num_elems-1
    index,     \* cell the construction of the chain is at
    next,      \* cell the host's walk is at
    opcount,   \* hops of the host's walk
    expected,  \* expected_result
    shared,    \* the kernel's __local copy of the block
    copied,    \* cells copied into it
    knext,     \* cell the kernel's walk is at
    hop,       \* loads of the unrolled block done
    iter,      \* iterations of the kernel done
    res,       \* the kernel's sum
    loads,     \* history: loads the kernel has done
    ops        \* *ops_performed

vars == <<call, pc, numElems, data, index, next, opcount, expected,
          shared, copied, knext, hop, iter, res, loads, ops>>

hostVars   == <<next, opcount, expected>>
kernelVars == <<shared, copied, knext, hop, iter, res, loads>>

Calls == [size: Requests, mem: MemSizes, mt: MemTypes, layout: Layouts,
          accelerator: BOOLEAN, iterations: Iterations]

Cells == 0..(numElems - 1)
-----------------------------------------------------------------------------
(* Fitting the request to the device.                                      *)

\* What the device can hold.  The subtraction is unsigned.
Limit(c) ==
    LET spare == (c.mem - Headroom) % ULongMod
    IN  IF c.mt = "local" /\ c.accelerator THEN spare \div 2 ELSE spare

\* Mutant: the remainder is not taken off.
FittedElemsRagged(c) ==
    LET size == IF c.size > Limit(c) THEN Limit(c) ELSE c.size
    IN  (size \div WordBytes) % UIntMod

\* The elements of the block: the assignment to an unsigned int truncates.
FittedElems(c) ==
    LET size  == IF c.size > Limit(c) THEN Limit(c) ELSE c.size
        elems == (size \div WordBytes) % UIntMod
    IN  elems - (elems % K)

AdjustSize ==
    /\ pc = "adjust"
    /\ numElems' = FittedElems(call)
    /\ data' = [i \in 0..(numElems' - 1) |-> Garbage]
    /\ index' = 1
    /\ pc' = call.layout
    /\ UNCHANGED <<call, hostVars, kernelVars, ops>>
-----------------------------------------------------------------------------
(* Laying out the chain.                                                   *)

\* A store into an empty block is outside of it, whichever the layout:
\* nothing is known of the program after it.
StoreOutside ==
    /\ pc \in Layouts
    /\ numElems = 0
    /\ pc' = "wild"
    /\ UNCHANGED <<call, numElems, data, index, hostVars, kernelVars, ops>>

FillSequential ==
    /\ pc = "sequential"
    /\ numElems > 0
    /\ data' = [i \in Cells |-> IF i = numElems - 1 THEN 0 ELSE i + 1]
    /\ pc' = "start"
    /\ UNCHANGED <<call, numElems, index, hostVars, kernelVars, ops>>

FirstHop ==
    /\ pc = "cache_step"
    /\ numElems > 0
    /\ data' = [data EXCEPT ![0] = 1]
    /\ pc' = "chain"
    /\ UNCHANGED <<call, numElems, index, hostVars, kernelVars, ops>>

\* Mutant: the next word instead of the next cache line.
newindexAdjacent == (index + 1) % UIntMod

newindex == (index + K) % UIntMod

ChainTo(target) ==
    /\ pc = "chain"
    /\ data' = [data EXCEPT ![index] = target]
    /\ index' = target
    /\ UNCHANGED <<call, pc, numElems, hostVars, kernelVars, ops>>

ChainStride == newindex < numElems /\ ChainTo(newindex)

\* Mutant: reduced modulo the block, which comes back to the same column.
ChainWrapSameColumn == newindex > numElems /\ ChainTo(newindex % numElems)

ChainWrap == newindex > numElems /\ ChainTo(newindex % (numElems - 1))

\* Mutant: the chain is closed where its first row ends.
ChainCloseEarly ==
    /\ pc = "chain"
    /\ newindex >= numElems
    /\ data' = [data EXCEPT ![index] = 0]
    /\ pc' = "start"
    /\ UNCHANGED <<call, numElems, index, hostVars, kernelVars, ops>>

ChainClose ==
    /\ pc = "chain"
    /\ newindex = numElems
    /\ data' = [data EXCEPT ![index] = 0]
    /\ pc' = "start"
    /\ UNCHANGED <<call, numElems, index, hostVars, kernelVars, ops>>
-----------------------------------------------------------------------------
(* The host's walk and the assertion on its length.                        *)

StartWalk ==
    /\ pc = "start"
    /\ next' = data[0]
    /\ opcount' = 1
    /\ expected' = 0
    /\ pc' = "walk"
    /\ UNCHANGED <<call, numElems, data, index, kernelVars, ops>>

WalkHop ==
    /\ pc = "walk"
    /\ next # 0
    /\ next' = data[next]
    /\ opcount' = (opcount + 1) % UIntMod
    /\ expected' = IF opcount' % K = 0 THEN (expected + next') % UIntMod
                                       ELSE expected
    /\ UNCHANGED <<call, pc, numElems, data, index, kernelVars, ops>>

\* Mutant: the sum of one iteration is expected of all of them.
EndWalkOneIteration ==
    /\ pc = "walk"
    /\ next = 0
    /\ pc' = IF opcount # numElems THEN "abort"
              ELSE IF call.mt = "local" THEN "copy" ELSE "kernel"
    /\ shared' = [i \in Cells |-> Garbage]
    /\ UNCHANGED <<call, numElems, data, index, hostVars,
                   copied, knext, hop, iter, res, loads, ops>>

\* assert(opcount == num_elems): the block is complete or the process dies.
EndWalk ==
    /\ pc = "walk"
    /\ next = 0
    /\ expected' = (expected * call.iterations) % UIntMod
    /\ pc' = IF opcount # numElems THEN "abort"
              ELSE IF call.mt = "local" THEN "copy" ELSE "kernel"
    /\ shared' = [i \in Cells |-> Garbage]
    /\ UNCHANGED <<call, numElems, data, index, next, opcount,
                   copied, knext, hop, iter, res, loads, ops>>
-----------------------------------------------------------------------------
(* The kernel latencyCnt.  Its argument `iterations' is set with the size  *)
(* of a cl_uint, so it sees the low word of the host's unsigned long.      *)

KernelIterations == call.iterations % UIntMod

\* The words the kernel chases: the buffer, or its copy in local memory.
Traversed == IF call.mt = "local" THEN shared ELSE data

CopyBlock ==
    /\ pc = "copy"
    /\ copied < numElems
    /\ shared' = [i \in Cells |-> IF i \in copied..(copied + CopyUnroll - 1)
                                  THEN data[i] ELSE shared[i]]
    /\ copied' = copied + CopyUnroll
    /\ UNCHANGED <<call, pc, numElems, data, index, hostVars,
                   knext, hop, iter, res, loads, ops>>

CopyDone ==
    /\ pc = "copy"
    /\ copied >= numElems
    /\ pc' = "kernel"
    /\ UNCHANGED <<call, numElems, data, index, hostVars, kernelVars, ops>>

Load ==
    /\ pc = "kernel"
    /\ iter < KernelIterations
    /\ hop < K
    /\ knext' = Traversed[knext]
    /\ hop' = hop + 1
    /\ loads' = loads + 1
    /\ UNCHANGED <<call, pc, numElems, data, index, hostVars,
                   shared, copied, iter, res, ops>>

\* res += next, then the conditions of the do-while and of the for.
Accumulate ==
    /\ pc = "kernel"
    /\ hop = K
    /\ hop' = 0
    /\ res' = (res + knext) % UIntMod
    /\ iter' = IF knext = 0 THEN iter + 1 ELSE iter
    /\ UNCHANGED <<call, pc, numElems, data, index, hostVars,
                   shared, copied, knext, loads, ops>>

\* Mutant: the hop that closes the cycle is not counted.
ReturnOneShort ==
    /\ pc = "kernel"
    /\ hop = 0
    /\ iter = KernelIterations
    /\ ops' = (call.iterations * (opcount - 1)) % ULongMod
    /\ pc' = "done"
    /\ UNCHANGED <<call, numElems, data, index, hostVars, kernelVars>>

\* The result is read back and compared; a mismatch is only printed.
Return ==
    /\ pc = "kernel"
    /\ hop = 0
    /\ iter = KernelIterations
    /\ ops' = (call.iterations * opcount) % ULongMod
    /\ pc' = "done"
    /\ UNCHANGED <<call, numElems, data, index, hostVars, kernelVars>>
-----------------------------------------------------------------------------
Init ==
    /\ call \in Calls
    /\ pc = "adjust"
    /\ numElems = 0 /\ data = [i \in {} |-> Garbage] /\ index = 0
    /\ next = 0 /\ opcount = 0 /\ expected = 0
    /\ shared = [i \in {} |-> Garbage] /\ copied = 0
    /\ knext = 0 /\ hop = 0 /\ iter = 0 /\ res = 0
    /\ loads = 0 /\ ops = 0

Over == pc \in {"done", "abort", "wild"}

Layout == \/ StoreOutside \/ FillSequential \/ FirstHop
          \/ ChainStride \/ ChainWrap \/ ChainClose
Walk   == StartWalk \/ WalkHop \/ EndWalk
Kernel == CopyBlock \/ CopyDone \/ Load \/ Accumulate \/ Return

Next == AdjustSize \/ Layout \/ Walk \/ Kernel \/ (Over /\ UNCHANGED vars)

Spec == Init /\ [][Next]_vars

\* One thread runs the host's part and one work-item the kernel: whoever is
\* at work goes on.
FairSpec == Spec /\ WF_vars(Next)
-----------------------------------------------------------------------------
(* Properties.                                                             *)

Steps == {"adjust", "chain", "start", "walk", "copy", "kernel",
          "done", "abort", "wild"} \cup Layouts

\* Types of the variables; in particular every index stored in the block or
\* reached by a walk is a cell of the block.
TypeOK ==
    /\ call \in Calls
    /\ pc \in Steps
    /\ numElems \in 0..(UIntMod - 1)
    /\ data \in [Cells -> Cells \cup {Garbage}]
    /\ pc = "chain" => index \in Cells
    /\ pc = "walk" => next \in Cells
    /\ opcount \in 0..(UIntMod - 1) /\ expected \in 0..(UIntMod - 1)
    /\ pc \in {"copy", "kernel"} =>
         /\ shared \in [Cells -> Cells \cup {Garbage}]
         /\ knext \in Cells
    /\ copied \in Nat /\ hop \in 0..K /\ iter \in 0..KernelIterations
    /\ res \in 0..(UIntMod - 1)
    /\ loads \in Nat /\ ops \in 0..(ULongMod - 1)

\* The assertion of line 146 fails only on a block of exactly K cells laid
\* out in cache steps, and memory outside the block is written only when the
\* block is empty: on every other block the chain is one cycle of all cells.
StopsOnlyOnTinyBlocks ==
    /\ pc = "abort" => call.layout = "cache_step" /\ numElems = K
    /\ pc = "wild" => numElems = 0

\* While the chain is built on a block of at least two steps, no cell is
\* given a second successor, and each has one when the chain closes.
EachCellLinkedOnce ==
    [][pc = "chain" /\ numElems >= 2 * K =>
         /\ \A i \in Cells : data[i] # Garbage => data'[i] = data[i]
         /\ pc' = "start" => \A i \in Cells : data'[i] # Garbage]_vars

\* In the cache-step layout no hop but the first one, out of cell 0, stays
\* within K - 1 cells of where it came from: the walk measures the memory
\* and not a line fetched by the hop before.
HopsLeaveTheLine ==
    pc = "walk" /\ call.layout = "cache_step" /\ numElems >= 2 * K =>
      \A i \in Cells \ {0} : data[i] >= i + (K - 1) \/ data[i] <= i - (K - 1)

\* index + CACHE_STEP_WIDTH does not wrap in a cl_uint, though only the
\* rounding of num_elems to a multiple of K prevents it.
NextIndexDoesNotWrap == pc = "chain" => newindex = index + K

\* The block fits the memory the device reports, or half of it for the local
\* memory of an accelerator, whatever was asked for.
FitsTheDevice ==
    call.mem >= Headroom =>
      numElems * WordBytes <=
        IF call.mt = "local" /\ call.accelerator THEN call.mem \div 2
        ELSE call.mem - Headroom

\* The kernel chases exactly what the host laid out: the unrolled copy into
\* local memory neither stops early nor stores past the end of the array.
CopyIsExact ==
    pc = "kernel" => Traversed = data /\ copied \in {0, numElems}

\* The sum read back is the sum the host expects, wrapped in 32 bits on both
\* sides, whatever the number of iterations: the check of line 247 passes.
ResultAgrees == pc = "done" => res = expected

\* "return number of operations performed": the count the latency is divided
\* by is the number of loads the kernel did, for every count of iterations
\* that fits the 32 bits the kernel is given of it.
OpsArePerformed == pc = "done" /\ call.iterations < UIntMod => ops = loads

\* The construction, the host's walk and the kernel all terminate.
Termination == <>Over
-----------------------------------------------------------------------------
(* The invariant behind these properties.  The cells 1..num_elems-1 form K *)
(* rows of cells congruent modulo K.  The chain runs along a row in        *)
(* strides of K; the reduction modulo num_elems-1 takes it from the end of *)
(* a row to the start of the next; the end of the last row closes it.      *)

Row(i) == (i - 1) % K

\* The successor, in a block of N cells, of a cell other than cell 0.
Succ(i, N) ==
    IF i + K < N THEN i + K ELSE IF i + K = N THEN 0 ELSE i + K - (N - 1)

\* The cells linked before the construction comes to cell i.
Before(j, i) == Row(j) < Row(i) \/ (Row(j) = Row(i) /\ j < i)

\* The block of one step, on which the cache-step chain is not a full cycle.
OneStep == call.layout = "cache_step" /\ numElems = K

SizeInv == numElems % K = 0

BuildInv ==
    /\ pc \in Layouts =>
         /\ call.layout = pc
         /\ index = 1
         /\ data = [i \in Cells |-> Garbage]
    /\ pc = "chain" =>
         /\ numElems > 0 /\ call.layout = "cache_step"
         /\ data[0] = 1
         /\ numElems # K =>
              /\ index # 0
              /\ \A j \in Cells \ {0} :
                   data[j] = IF Before(j, index) THEN Succ(j, numElems)
                                                 ELSE Garbage

LaidInv ==
    pc \in {"start", "walk", "copy", "kernel"} =>
      /\ numElems > 0
      /\ call.layout = "sequential" =>
           data = [i \in Cells |-> IF i = numElems - 1 THEN 0 ELSE i + 1]
      /\ OneStep => data[0] = 0
      /\ call.layout = "cache_step" /\ numElems # K =>
           /\ data[0] = 1
           /\ \A j \in Cells \ {0} : data[j] = Succ(j, numElems)

\* A hop along a row advances the right-hand side by K, and so does a turn
\* into the next row.
WalkInv ==
    pc = "walk" =>
      /\ OneStep => next = 0 /\ opcount = 1
      /\ ~OneStep =>
           /\ next = 0 => opcount = numElems
           /\ next # 0 /\ call.layout = "sequential" => opcount = next
           /\ next # 0 /\ call.layout = "cache_step" =>
                K * (opcount - 1) = (Row(next) * (numElems - 1)) + (next - 1)

KernelInv ==
    /\ pc \in {"copy", "kernel"} => ~OneStep /\ opcount = numElems
    /\ pc = "copy" => /\ call.mt = "local"
                      /\ copied <= numElems /\ copied % CopyUnroll = 0
                      /\ \A i \in 0..(copied - 1) : shared[i] = data[i]
    /\ pc = "kernel" => Traversed = data /\ copied \in {0, numElems}
    /\ pc \notin {"copy", "kernel", "done"} => copied = 0 /\ knext = 0
    /\ pc = "copy" => knext = 0
    /\ pc \notin {"kernel", "done"} => hop = 0
    /\ hop > 0 => iter < KernelIterations

ChaseInv == /\ TypeOK /\ SizeInv /\ BuildInv /\ LaidInv /\ WalkInv
            /\ KernelInv /\ StopsOnlyOnTinyBlocks
=============================================================================
