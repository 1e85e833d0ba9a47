# uCLbench: a verification development

uCLbench is a set of OpenCL micro-benchmarks: small C++ programs that ask the
devices of a machine for memory latency, transfer bandwidth, streaming bandwidth,
arithmetic speed, the cost of divergent branches and the overhead of launching
kernels, and print one line per measurement. This directory models the programs
in TLA+, checks the models with TLC and proves with TLAPS that every safety
property TLC checks on small instances holds for all values of the constants.

What can go wrong in such a program is a number that is printed and is not what
its heading says: a chain of loads that covers only a part of the memory, a clock
that is started while earlier work is still in the queue, a mean over repeats
some of which failed, a device that is not in the list. None of these stops the
program, and a test on one machine with one driver hardly reaches them. That is
what the properties are about.

## 1. Inventory

| Part | State it keeps | Operations | Interacts with | Hard behaviour |
|---|---|---|---|---|
| `cllib`: platform and device enumeration (`clcommon.cpp` 394-456) | platform list, counter per platform, device list and offset | `get_all_platforms`, `get_all_devices` | every `main`; the OpenCL runtime | results of count calls are ignored, counters are uninitialised, the number of devices may shrink while the list is filled |
| `cllib`: `load_kernel` (28-110) | descriptor, mapping, text buffer | read, join with a preamble, create a program | every benchmark | error paths |
| `cllib`: `get_device_info`, printing, error strings, clocks, Windows stand-ins | none | queries and printing | every benchmark | none |
| `mem_latency`: data, walk, kernels | the block of memory, the chain, the host's and the kernel's walk | fit, lay out, walk, assert, copy, chase, sum | its OpenCL calls | modular arithmetic at different widths, block sizes at boundaries, termination of the construction |
| `mem_latency`: `main` and OpenCL calls | loops over devices, layouts, types, repeats; what a call has acquired | twelve OpenCL calls, each with an early return | runtime, `load_kernel` | one call of many fails; times of a command that has not ended; options with unknown words |
| `buffer_bandwidth`: measurements and repeats | context, queue, `data`, device and pinned buffers, the clock, sums | host to device, device to host, device to device, direct or mapped, pageable or pinned; repeat, sum, print | the device, through an in-order queue | asynchronous transfers on memory the host writes and compares; failing calls that leave transfers pending; lost results |
| `buffer_bandwidth`, `mem_streaming`, `arith_speed`: device and size lists | `used_devices`, `sizes`, handles | read the lists, prepare, measure, release per device | runtime | arrays at their limits, stale handles |
| `mem_streaming`: host | loops, work sizes, launches in the queue, the clock | compile, warm up, measure, repeat | its kernels | warm-up launches that are refused, launches of failed passes still in the queue |
| `mem_streaming`: kernels | `s1`, `s2`, `output` | fill, barrier, add, sum | host | work-items read cells others have filled; a barrier that fences one kind of memory |
| `arith_speed`: `main`, `run_benchmark` | the loops, the two work sizes, what calls have acquired, the error | read functions, size a launch, generate, launch, check, repeat, print | runtime, its kernel | work sizes halved until they fit; an error leaves one of three loops; slots never stored in |
| `arith_speed`: kernel and check | the values computed on both sides | unrolled operations, signs of `VLIW` | | counts rounded down or cut to 32 bits, values that overflow, a type name that is too long |
| `branch_penalty` | selector, device buffer, event, times | fill by pattern, write, launch, wait, print | runtime | every error is only printed and gone on from; an event that may never have been set |
| `kernel_overheads` | device list and range, generated statements, durations, what was acquired | generate, launch ten times, sort, release | enumeration, runtime | off-by-one in the device number, events and buffers not released |

Every part, modelled or not, is listed in `PROJECT.json` under `components`,
with the hazards of the code under `hazards`, each at its line.

What makes each part correct:

* enumeration: the list holds the devices that were delivered, in order, without
  holes, and nothing outside the arrays is touched;
* latency: the chain is one cycle through every cell, no hop stays in a cache
  line, the kernel chases what the host laid out, and the number of loads the time
  is divided by is the number that was made;
* latency's driver: every combination asked for is one line, in order, a mean of
  its own repeats or not a number;
* bandwidth and streaming: exactly the commands of the measurement run between the
  two readings of the clock; the host races with none; what passes the check was
  delivered; a failed repeat is not averaged in;
* selection: what is measured is what the lists ask for;
* kernels of streaming: the sum is exact under every interleaving;
* arithmetic: the operations printed were made, the check refuses only what it has a
  reason to, halving keeps the launch legal, an error costs one line;
* branches: a line without an error message is of the launch on its own selector;
* overheads: the device asked for has a line for every test, a median of its own
  launches, and what piles up is known.

## 2. Modules

| Module | Models | Composes |
|---|---|---|
| `LatencyChase` | one call of `run_latency_benchmark` without its OpenCL calls, and the three kernels | |
| `LatencyChaseProofs` | theorems about it | extends `LatencyChase` |
| `MemLatency` | `main` of `mem_latency.cpp` and the OpenCL calls of a run | |
| `MemLatencyProofs` | theorems about it | extends `MemLatency` |
| `Stopwatch` | abstract: a clock that is read, commands that run, and read again | |
| `InOrderQueue` | the command queue the benchmarks rely on (external) | |
| `BufferBandwidth` | `buffer_bandwidth.cpp` for one device | instantiates `InOrderQueue`; implements `Stopwatch` |
| `BufferBandwidthProofs` | theorems about it, with the refinement | extends `BufferBandwidth` |
| `Selection` | the lists of devices and sizes, and the loop over devices | |
| `SelectionProofs` | theorems about it | extends `Selection` |
| `StreamKernel` | the three kernels of `mem_streaming.cl` | |
| `MemStreaming` | `mem_streaming.cpp` for one device | extends `StreamKernel`; implements `Stopwatch` |
| `MemStreamingProofs` | theorems about it, with the refinement | extends `MemStreaming` |
| `DeviceEnum` | `get_all_platforms`, `get_all_devices` | |
| `KernelOverheads` | `kernel_overheads.cpp` | extends `DeviceEnum` |
| `KernelOverheadsProofs` | theorems about it and about the enumeration | extends `KernelOverheads` |
| `ArithKernel` | what the generated kernel of `arith_speed.cpp` and its check compute | |
| `ArithSpeed` | `main` and `run_benchmark` of `arith_speed.cpp` | extends `ArithKernel` |
| `ArithSpeedProofs` | theorems about it and about the kernel's check | extends `ArithSpeed` |
| `BranchPenalty` | `branch_penalty.cpp` | |
| `BranchPenaltyProofs` | theorems about it | extends `BranchPenalty` |
| `MC...` | small instances | |

A definition named `...` with a comment that begins "Mutant:" is the variant of the
definition after it that a plausible bug would make of it. It is part of no
specification: `PROJECT.json` names the property that tells the two apart.

### LatencyChase

A state is the block (`data`, a function on cells), the construction's cell
(`index`), the host's walk (`next`, `opcount`, `expected`) and the kernel
(`shared`, `copied`, `knext`, `hop`, `iter`, `res`). One action stands for one
round of one loop: `ChainStride`, `ChainWrap` and `ChainClose` are the three cases
of lines 114-123, `WalkHop` is one turn of the walk at 140, `CopyBlock` is one
unrolled block of `local_latency.cl`, `Load` one of the unrolled loads.
`unsigned int` and `unsigned long` count modulo `UIntMod` and `ULongMod`. A block of
0 words is stored into outside its bounds (`StoreOutside`); nothing is known of
the program after that. `FairSpec` is weak fairness of `Next`: the host part is a
single thread and the kernel a single work-item, so at most one of them can take a
step and it does.

### MemLatency

`pc` is the OpenCL call a run is at, `held` what the call has acquired, `leaked`
what was left behind so far. Every call succeeds or takes its early return
(`ReturnsError`); a program that could not be created also leaves the file
descriptor of `load_kernel` open. The three kinds of a block (`empty`, `step`,
`larger`) are the outcomes of `LatencyChase` for a size: an out-of-bounds store, a
failed assertion, or a chain. The device is the action `Execute`; `Wait`
(`clFinish`, `clWaitForEvents`) returns only when it has ended the kernel, or with an
error.

### BufferBandwidth and InOrderQueue

The three functions of `buffer_bandwidth.cpp` have one shape, so one set of
actions with a variable `dir` models them: create buffers, preload or stage, wait,
start the clock, enqueue transfers one by one (or map, copy, unmap), wait, stop the
clock, read back, compare. What differs in guards, early returns and unchecked
results is in the guards of the actions. Contents of memory are tokens: the random
data of a run, damage, or junk. Memory that is allocated and not stored in holds junk
or, where a copy of `data` was freed before, still that copy (`Fresh`), so that a
comparison may succeed by chance when the read-back before it was refused (112-114,
193-194, 245-246); the history variable `reread` says whether it was accepted.
`InOrderQueue` executes the commands one after
another, each perhaps with damage, concurrently with the host. A blocking call and
`clFinish` are guards on an empty queue. The build may place `time` behind
`_time[4]`, which `run_benchmark` overruns (lines 299, 574, 577): `clobbers`
explores both placements. Fairness: the host runs and the device executes what
was enqueued (`clFlush` or `clFinish` follows every enqueue).

### Stopwatch

What the two bandwidth programs promise of a time they print, without anything of
how: a clock is idle, running or read; commands are submitted only while it is
running and at most `Capacity` of them; each executes between the two readings; and
it is read only when as many have executed as were submitted. `BufferBandwidth`
and `MemStreaming` instantiate it as `Watch`, with a mapping from their own state:
the phase from `pc` and `clock`, the submitted commands from what the queue has
accepted, the executed ones from a history of what the device did while the clock
ran. `ImplementsStopwatch` is `Watch!Spec`. A command of the set-up, of a warm-up or
of an earlier failed run that executes inside the window, and one of the
measurement that executes after it, are steps `Stopwatch` does not have.

### Selection

Lists are sequences of numbers and `Invalid` words. `sizes` is one array for all
the devices, addressed by `At` as in the source. A store behind an array ends the
model (`overrun`). The handles keep their values after they are released and, as
in `prepare_benchmark`, the queue keeps its old value when the context cannot be
created. `mem_streaming.cpp` 430-501 has the same text and `arith_speed.cpp`
985-1055 the same lines.

### StreamKernel and MemStreaming

A launch is `units` groups of `localRange` work-items. Each has a phase (fill the
lower half, fill the upper half, wait, add, sum) and an index, and one action is
one turn of one loop of one work-item. `Barrier` lets a group go on when all have
arrived. The arrays of `local_mem` belong to a group, those of `private_mem` to a
work-item, those of `global_mem` to all. Since the barrier of `global_mem` has the
local fence only (line 380), what another work-item stored into a buffer in the
same launch may or may not be seen (`MayBeGarbage`); it is seen when the launch has
ended, which is why the warm-up matters. `MemStreaming` is the host: two passes
(one work-item; every unit), work sizes by halving, warm-up launches with ignored
results, the timed loop, the repeats. Launches that an early return leaves in the
queue stay there (`leftover`), and delay the next pass. Fairness: the host, the
device's taking up launches, and the work-items of the launch that runs.

Simplifications: the components of a vector are treated alike, and the 100*100
additions to a cell count as one; `clFinish` succeeds; what an early return leaves
acquired is not modelled; `g1` and `g2` that could not be created are arrays of no
cells. Work-items of a launch are not required to run fairly one by one: a launch
that has begun proceeds until it has ended.

### DeviceEnum

One action per call and loop turn. A count call that fails leaves the counter as
`malloc` delivered it, any `unsigned int`. The total wraps. An array longer than
`SureAlloc` may not be had. `num_platforms` is uninitialised in two of the mains,
so `Init` takes any value.

### KernelOverheads

The stages are those of `main`: options, enumeration (the actions of `DeviceEnum`),
the range of devices, and for each device every test of `testdata_loc.h`, as a pair of
arguments and lines. `Body` is the kernel's list of statements with the places of
its `if` heads; their random operands are left out. `held` is the set of the
objects acquired, each with the device and test it was acquired for, so that what
is never released stays in it. A launch's overhead is any of `Times`; `qsort` is
`Sorted`, the one arrangement of the same times with the longest first. Every line of
`testdata_loc.h` asks for an even number of statements, which `gen_kernel` relies on,
and so does the assumption on `Tests`. A wait or
profiling call that fails is only reported or not looked at, so the duration may
then be one of another launch (`spoilt`). The stage `elsewhere` explores the
enumeration as the other mains start it, with `num_platforms` unassigned.

### ArithKernel and ArithSpeed

`ArithKernel` computes both sides of the check. On the inputs of `run_benchmark` the
functions of `Exact` stay within the integers in `float` (1.00000001 is 1), until a
sum has reached `Whole`, where adding 1 changes nothing (`Lost`; 2^24 in `float`, and
`double` is given the same limit), or overflows (`FltMax`). Sums of two values beyond
`Whole` are not rounded. The result of the other functions is left open, so that their check may turn out either way.
`OpsMade` is the rounding and the cut to 32 bits of line 594, `OpsChecked` the
loops of 640-811, `KernelSign` the counter of `genKernel`, which runs on from row to
row, `CheckSign` the three cases of 715-741.

`ArithSpeed` has the loops of `main` as `f`, `j`, `type`, `vec`, `ws` and `k`, and
`run_benchmark` as four actions, in the order of its calls: `GenKernel`, `Prepare`,
`Launch`, `Check`. Each either acquires its objects or returns 1 and leaves what
was acquired. Four arrays are too short for some widths: `type[8]` for "double16"
(343), `fctStr[512]` for the operations of `vec` from 64 on (357-363), and from 128 on
`buf[4]` for the width itself (1193) and the kernel's memory (334) for `vliw`
(`Overruns`, `BufTooShort`). What the overrun does depends on the build, so each
outcome is a disjunct: none, a text that cannot be compiled, or "crash", where the
program's known behaviour ends. `ReadFunctions` leaves a slot for a name it does not know as it was:
one of `Leftovers`, where "???" is a value that is no function and ends the
program's known behaviour. Fairness: one thread, weak fairness of `Main`.

### BranchPenalty

The variables are those of `main`. `shrCheckError` only prints, so every call's
failure is a disjunct of the action that leaves the variables as they were and
sets `reported`, a history variable: the properties are about lines that no error
message accompanies. A time is represented by the launch it is of, an event by its
launch and the selector that launch ran with. The set-up of a device is one step
with three outcomes: all is there, something is missing (then no launch is
accepted), or the build fails and ends the program.

## 3. Runs

Twelve, one per question. Nine pass; three show a disagreement.

| Run | Shows | Bounds and why they suffice |
|---|---|---|
| `latency_safety` | the chain is a full cycle but on tiny blocks, hops leave the line, kernel and host agree on sum and operations, termination | steps of 4 words, copies of 2, words of 2 bytes, 5-bit `unsigned`, 10-bit `unsigned long`; requests of none, below, at, and above one and two steps up to the top of the 5-bit range, devices with less than the headroom and more; counts of iterations from none up to the last that fits 5 bits, and one beyond, of which the kernel gets 2; sums wrap |
| `calls_safety` | lines follow the request, each is a mean of its repeats or not a number, failures cost one line each, only failing calls leave what they should release | two devices, two repeats, one failing call anywhere, options given and not; two failures do not meet, since a failure ends its line or the program, and a line starts afresh |
| `bandwidth_safety` | no race, `Stopwatch` implemented, what was read back and passed the check was delivered, data outlives commands, termination | two repeats, two transfers, two failing calls, one faulty transfer, all four modes: enough for a run that fails with transfers pending, followed by one that succeeds |
| `bandwidth_mean` | a failed repeat is averaged in as zeros | one size, two repeats, one failing call, no fault; the overrun of line 299 does no harm here, so the zeros are those of the failed repeat |
| `selection_safety` | what is measured is what was asked for, overruns only by repeated devices or too many sizes, nothing follows an unprepared device | all lists of up to three tokens for two devices and rows of two sizes, two failing calls |
| `streaming_work` | exact sums under every interleaving, undefined words only in the first launch on global buffers, no overrun but in the two known cases | two groups, work sizes halved from four to two for three elements, so that shares are uneven; a warm-up and a timed launch; one failure |
| `streaming_host` | `Stopwatch` implemented, warm measurements, means of all repeats, termination | one group of two, two of everything, two failures: as many as there are warm-up launches |
| `overheads_safety` | the list is exact and in bounds, every device asked for has its lines, what is no device is used only one behind the list, only buffers, the arrays of them and events pile up, kernels are well-formed | enumeration: three platforms of up to two devices, 3-bit counters, two failures; benchmark: up to two devices on two platforms, device numbers from none up to 3, the first that is refused with two devices, a test with an `if` in front and none at its end, four launches of two times, one failure |
| `enum_listed` | a platform without devices can hide those of the others | two platforms |
| `arith_safety` | the table follows the request, no alarm without a cause, checked means performed, halving keeps powers legal, what remains acquired, termination | 4 operations for 100 and 2 for 10; a count of loop turns modulo 5, so that it wraps; thirteen requests, each for one boundary (sizes that are no multiple of the operations or wrap, with and without checks; `vliw` for widths with both remainders powers of two have modulo 3, and for 128, where arrays are overrun; `vec` for 64, likewise; a width without a type; the over-long type name; values that overflow; local sizes that are no power of two, halving to 0 work-items); one and two devices, with room for the widest; one failing call or wrong result |
| `arith_ops` | operations are printed that were not made, for a size that is no multiple of the kernel's operations | same, with a count of loop turns that does not wrap, so that rounding down is the only way to lose some |
| `branch_safety` | selectors are exact, lines without a message are of their own launch, every point is measured, the unset event is used only at first | four work-items, so up to four branches and all widths; two devices; two failing calls, the second of which can follow what the first left behind |

The disagreements in detail, each with the line of the source that says otherwise,
are under `findings` in `PROJECT.json`. Other deviations of the code that reading
and modelling brought out, which the properties exclude by name so that they say
what does hold:

* the assertion of `mem_latency.cpp` 146 fails for a cache-step block of exactly one
  step (128 words), so requests of 512 to 1023 bytes abort: `StopsOnlyOnTinyBlocks`;
* with `--type` and no `--iterations`, `iterations` is `(unsigned long)-1` (416, 419);
  the kernel gets its low 32 bits, while the operations reported are computed from
  64: `OpsArePerformed` is stated for counts that fit 32 bits;
* requests of 16 GiB and more are cut to 32 bits (`mem_latency.cpp` 103), and a device
  that reports less than 64 bytes of a kind of memory has almost 2^64 of it (98):
  `BlockFits` is stated for 64 bytes and more;
* a device number that is not in the list is read behind it in `mem_latency` (395);
* `--type=constant`, as the usage of `mem_latency` has it, is no name `main`
  knows ("const" is), so all types are measured; `--layout=cachestep` likewise;
* a copy on the device that is refused is not noticed, and the run counts as a
  success with fewer copies (`buffer_bandwidth.cpp` 239): `ShortOnlyWhereUnchecked`;
* what a direct transfer delivers into a pinned host buffer is not compared
  (194), and when the read-back is refused, the comparison is with what `malloc`
  happened to return (113, 194, 246), which may be an old copy of the same data:
  both excluded in `CheckedMeansDelivered`;
* a device listed more often than there are devices overruns `used_devices` (477),
  and more than 64 sizes overrun `sizes` (527): `OverrunOnlyByLongLists`;
* a later device without a context is measured with the released queue of the one
  before (568): `UnpreparedIsLast` shows that the program ends there;
* no call of `run_latency_benchmark` releases `result`, `event` and the device
  information (255-260): excluded in `OnlyFailuresLeak`;
* local memory for `float16` passed as an argument has the size of `float8`
  (`mem_streaming.cpp` 200), half of what the kernel uses: `StraysOnlyWithoutMemory`;
* the bandwidth printed by `mem_streaming` assumes ten iterations (623);
* `arith_speed` compares work sizes with the memory in KB (1165, 1209), refuses
  widths of 32 and more for most functions, and for some widths runs over arrays:
  that of the type's name for `double16` (343), that of a row of `vec` from 64 on
  (361), that of the printed width from 128 on (1193): `AlarmHasACause`; the comment at 1155 promises "the
  max number of threads" where the smaller of two numbers is taken; `MAD_MUL`'s
  check assigns `d = tmp` (705); an unknown function is counted (1116): its slot
  appears in `LinesFollowTheRequest` as whatever was found there;
* `kernel_overheads` waits for `argc` to be 3 rather than for `--device`, without which
  `device_id` is not assigned: `OneBehindAtMost` is stated for a given number; with
  `--csv` its line has five conversions for seven values (358);
* `branch_penalty` parses a number of repeats it does not use, releases no event, and
  asks for the build log of device 0 whichever device failed (147).

## 4. What is proved

Eight modules of proofs. Each invariant and each action property that a run checks is
stated by a theorem. The assumptions are the named `ASSUME`s of the modules extended,
which TLC evaluates on the small instances; no bound of an instance enters: sizes,
repeats, iterations, failures, devices, work-items and faults are any numbers.

| Theorem | States |
|---|---|
| `LatencyChaseProofs!AssertionHolds`, `LinkedOnce`, `FarHops` | the properties `StopsOnlyOnTinyBlocks`, `EachCellLinkedOnce`, `HopsLeaveTheLine` |
| `LatencyChaseProofs!TypeCorrect`, `NoWrap`, `CopyExact`, `BlockFits` | every index is a cell; `index + K` does not wrap; the unrolled copy covers the block and no more; the block fits what the device reports |
| `LatencyChaseProofs!SumAgrees`, `LoadsCounted` | `ResultAgrees`, `OpsArePerformed` |
| `MemLatencyProofs!LinesInOrder`, `LinesOfTheirRepeats`, `FailuresAloneLeak` | `LinesFollowTheRequest`, `LineIsOfItsRepeats`, `OnlyFailuresLeak` |
| `BufferBandwidthProofs!MeasurementsAreTimed` | `ImplementsStopwatch`: the refinement |
| `BufferBandwidthProofs!DataOutlives`, `HostAndDeviceApart`, `ShortIsExcused`, `CheckedIsDelivered` | `DataOutlivesCommands`, `NoRace`, `ShortOnlyWhereUnchecked`, `CheckedMeansDelivered` |
| `SelectionProofs!RequestMeasured`, `OverrunHasReason`, `OwnQueues` | `MeasuresTheRequest`, `OverrunOnlyByLongLists`, `UnpreparedIsLast` |
| `MemStreamingProofs!PassesAreTimed`, `MeansAreOfAllRepeats` | `ImplementsStopwatch`, `MeanOfAllRepeats` |
| `MemStreamingProofs!SumsAreExact`, `FirstLaunchGarbage`, `StraysExplained`, `WarmWhenMeasured` | `ResultExact`, `GarbageOnlyAtFirst`, `StraysOnlyWithoutMemory`, `MeasuredWarm` |
| `KernelOverheadsProofs!ListExact`, `NumbersInBounds` | `ListIsExact`, `OneBehindAtMost` |
| `KernelOverheadsProofs!DevicesAreMeasured`, `BuffersAndEventsPileUp`, `KernelsAreWellFormed` | `EveryDeviceMeasured`, `OnlyBuffersAndEventsPileUp`, `KernelIsWellFormed` |
| `ArithSpeedProofs!RequestListed`, `AlarmsExplained`, `CheckedPerformed` | `LinesFollowTheRequest`, `AlarmHasACause`, `CheckedMeansPerformed` |
| `ArithSpeedProofs!SizesStayLegal`, `ContextsAloneRemain` | `PowersStayLegal`, `OnlyContextsRemain` |
| `BranchPenaltyProofs!SelectorExact`, `LinesOfTheirLaunch`, `PointsMeasured`, `WildEventAtFirst` | `SelectorIsExact`, `LinesAreOfTheirLaunch`, `EveryPointIsMeasured`, `WildEventOnlyAtFirst` |

**LatencyChase.** Assumed: the widths (`UIntMod % K = 0`, as 2^32 is a multiple of
128; `K % CopyUnroll = 0`; `UIntMod * UIntMod <= ULongMod`, as an `unsigned long` has
64 bits where these programs are built for UNIX, so that the number of operations does
not wrap), word size and headroom, the range of the inputs, and that the content of
memory that was never stored in is no integer. None of the properties is inductive:
that the walk ends after `numElems` hops depends on what the construction did, and
that on where it was. `ChaseInv` says it in terms of the shape of the chain. Cells 1
to `N - 1` of a block of `N` form `K` rows of cells congruent modulo `K` (`Row`). The
chain runs through a row in strides of `K`; where a row ends, reducing modulo `N - 1`
leads to the start of the next; where the last row ends, `index + K = N` closes the
chain (`Succ`). While the chain is built, exactly the cells `Before` the current one,
row by row, are linked (`BuildInv`); when it is closed, all are (`LaidInv`). During
the host's walk, `K * (opcount - 1) = Row(next) * (N - 1) + (next - 1)`: a stride
along a row and a turn into the next one each add `K` to both sides (`WalkInv`), so
that the last cell, `N - K` in row `K - 1`, is reached with `opcount = N - 1`.
`KernelInv` carries the chain through the copy into the kernel.

The host adds up cells on one walk and multiplies by the iterations, the kernel adds
up all along; both wrap. `Hops` is the sequence of the cells of a walk and `Sums` what
has been added on the way, as functions of the number of hops. `ExpectedInv` and
`TurnInv` say where each of the two is in them; that the kernel is back at cell 0
after exactly `numElems` hops of each iteration follows from `Placed`, the equation of
`WalkInv` again, and so do the number of loads and the sum.

**MemLatency.** `PlaceInv`: the number of lines printed determines where the loops
are, so the next line is the next one of the request (division with remainder by the
numbers of layouts and types). `LineInv`: the sum under way is of the repeats so far,
with the operations of its combination, and each line that is no number used up a
failure. `LeakInv` carries `OnlyFailuresLeak`: what a call holds is released by
`Cleanup` or is of the three kinds that never are, and an early return pays with a
failure for one of each kind at most.

**Selection.** `DevicesInv`: `used_devices` holds the valid tokens read so far in
their order (`HoldsNamed`). An overrun means that more tokens were valid than there
are devices, hence by a pigeonhole argument two are the same. `SizesInv`: every row of
`sizes` read so far is the list of its device, since cells of different columns or
rows have different numbers `At` (`AtOnce`). `MeasuredInv`: the measurements are the
lines of the request up to the loops' place.

**BufferBandwidth.** Four invariants, each using the ones before. `WatchInv`: while
the clock runs, the transfers executed since it started and those in the queue are
together the ones accepted, at most `Iterations`; with it every step of the host and
of the device is a step of `Stopwatch` or leaves its variables alone. `QueueInv`: what
is pending is of this run or of earlier ones, and of this run only from its first
transfer on; pending data arrays are still allocated; and between the runs that
succeed nothing is pending. From that follow `DataOutlivesCommands` and `NoRace`.
`ShortInv` says how many transfers have been accepted at each step unless a call whose
result is lost has failed. `ContentInv` says what each region can hold while transfers
may damage it, and that at the comparison, provided the read-back was accepted, either it is still the
only one pending or the check region holds what its origin does, or differs from
`data`; from that follows `CheckedMeansDelivered`. Of memory that was just allocated
nothing is assumed.

**MemStreaming.** The refinement needs only the host and its queue, whatever the
kernel computes: `WindowInv` says that after `FinishWarmup`, which waits for leftovers
too, nothing is queued, and that while the clock runs every launch accepted was begun
or is queued.

`KernelInv` is about the work-items, for any number of groups, work-items and elements
and every interleaving. `ShapeInv`: the arrays have the cells that the kernel is
compiled for, but for the two known cases. `PhaseInv`: each work-item is at a cell it
is dealt, cells dealt to two work-items are different (`Apart`), and none still fills
when one of its group is behind the barrier. `FillInv`: below the place where it is, a
work-item has filled what it is dealt; at the barrier that makes all of `s2`
(`AllFilled`). With `DirtyInv`, a word nothing was stored in is read only where the
fence is missing, in the first launch. `ExactInv`: what a work-item has added up is a
share for each launch that has ended and one for each cell it has passed (`AddedUp`),
counted by cardinalities. `WarmInv` counts the launches on the buffers of a pass
against the turns of the warm-up and the failures. That `Halved` stays between 1 and
`elements` is `HalvedFits`.

**KernelOverheads** with **DeviceEnum.** Sums of counts are cardinalities:
`DevicesOf(S, count)` is a set of pairs with `count[p]` elements for each platform `p`
of `S`. `CountInv`: the counter is the number of devices counted, modulo its width.
`FillInv`: `num_devices` is what is left of it after the platforms that failed.
`ListInv`: the device `x` delivered is at the number of those delivered before it, and
the offset is the number of all. So in the end nothing is missing and nothing is
behind the array. `StageInv` and `HeldInv` are about `main`: where the range of
devices is, and what may be held at each stage.

`BodyInv`: the kernel launched is that of its test. That it is well-formed goes by
rounds of `gen_kernel`'s loop: each adds a part that opens no `if` under another one
and is closed by the next store or load; an even number of lines leaves none open.
`CanBeSorted` shows by insertion that `Sorted` exists, `SortedIs` that it is an
arrangement of the same times; `MedianInv` that a printed line is the median of its
launches. `TableInv`: the lines of the device at place `n` of the loop begin at `n`
times the length of a report, and the sum under way is that of the lines printed.

**ArithSpeed** with **ArithKernel.** `OrderInv`, `DueInv` and `CompleteInv` say, in
the order `Before` of the six loops, that the table is sorted, has only what is due,
and has all that is due before the place where the loops are (`Here`). `SizeInv`: for
a power of two, and memory for one work-item in each group, local and global size are
halved together until they fit, and the number of groups stays. `CheckInv`: the result
compared is the kernel's unless it was hit; host and kernel compute the same since
`KernelSign` and `CheckSign` agree for every width and unroll factor (`SameSigns`, by
multiplying remainders modulo 3; widths at which an array is overrun are among the
causes the property names) and every number of operations that is a multiple of the kernel's
(`OpsAgree`). `Countdown`: subtracting 1 from 1 is exact as long as the count is at
most `Whole`, so a count of operations that differs shows. `HeldInv`: what a call has
at each stage; `PowersStayLegal` is stated for groups of up to 1024 work-items.

**BranchPenalty.** `PenaltyInv` has one part for each thing a line depends on.
`FillInv`: in the middle of a fill the cells below `k` are right, and `curbranch` is
the branch of cell `k - 1` (arithmetic on `k \div branchsize` modulo `branchtypes`, in
lemmas of its own). `MeasureInv`: as long as nothing was reported for this line, the
selector is on the device, then run by the latest launch, and the times are of that
launch. `OrderInv`, `NormInv` and `EventInv`: the lines printed are of earlier
launches, `normtime` is that of the device's first line, and an event that was never
set belongs to lines with an error. `LoopInv` and `PointInv`: the table has a line for
each point the two loops have passed and for no other, and the bound of the inner
loop, `BPSIZE \div branchtypes`, leaves out none with which all branches occur.

**Induction.** The provers cannot use induction theorems that take a predicate. Where
the argument goes over data, the theorems use one of two ways. What is counted is the
cardinality of a set, so that one more element is one more. What is computed along a
sequence is a recursive function; that there is a function with its equation is a
lemma (`HalvedExists`, `LastExists`, `GrownExists`, and those for sums), which like
every other induction takes the least number for which it fails (`WFMin`). For this,
operators of the models are recursive functions or are chosen by what they satisfy:
the lists asked for in `Selection`, `ListIsExact`, `After` of `ArithKernel`, `Halved`,
`Sorted` and the reports of `EveryDeviceMeasured`.

Checked by TLC only: `Termination` of `LatencyChase`, `BufferBandwidth`,
`MemStreaming` and `ArithSpeed`, since liveness under fairness is beyond the prover.
The three runs that show a disagreement have a counterexample for their property, and
no theorem.

## 5. What is not modelled, and why

* Printing, option syntax, error texts, clocks and build files: no state.
* `get_device_info`: one query per field. It fills `global_mem_cacheline_size`
  from the cache size (`clinfo.cpp` 309), a field no benchmark reads.
* `get_device_by_platform` and `myGetPlatformID` (`clcommon.cpp` 458-559): no benchmark
  calls them.
* Contents of arithmetic: floating-point results beyond the integers, random data,
  random operands of generated kernels; the branches of `bp_kernel.cl`, whose results
  nothing looks at.
* A device number outside the list in `mem_latency` (395): an input the usage
  excludes.
* Kernels of failed waits that run beside later measurements in `mem_latency`.
* The reading and joining of texts in `load_kernel`: its outcomes are a step of
  `MemLatency`.

## 6. Plan

1. `MemStreaming`: what early returns leave acquired, and kernels of a launch whose
   wait fails, with an invariant like `LeakInv`.
2. `MemLatency`: a kernel whose wait failed and that goes on beside later calls.
3. A theorem that the blocks `MemLatency` assumes (`empty`, `step`, `larger`) are the outcomes of
   `LatencyChase` for each size.
4. The refinement of a specification common to the loops of `main` in `MemLatency`,
   `ArithSpeed` and `BranchPenalty`: a table that follows its request.
