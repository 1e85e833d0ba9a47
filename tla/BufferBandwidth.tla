-------------------------- MODULE BufferBandwidth ---------------------------
(***************************************************************************)
(* buffer_bandwidth.cpp for one device: for every memory size and repeat,  *)
(* run_benchmark measures transfers from host to device, from device to    *)
(* host and from device to device.  Transfers are enqueued asynchronously  *)
(* (direct) or done through blocking maps (mapped), out of the data array  *)
(* or through a pinned buffer.  Each measurement has the same shape: set   *)
(* up, wait, start the clock, transfer, wait, stop the clock, read back    *)
(* and compare.  The device executes the commands concurrently.            *)
(*                                                                         *)
(* Every call into OpenCL may fail.  clFinish and clReleaseMemObject are   *)
(* taken to succeed, on the objects they are given here.                   *)
(***************************************************************************)
EXTENDS Integers, Sequences

CONSTANTS
    Sizes,        \* number of memory sizes measured (num_sizes)
    Repeats,      \* repeats
    Iterations,   \* transfers in a measurement (iterations)
    MaxFailures,  \* failing calls explored
    MaxFaults,    \* faulty transfers explored
    Clobbers      \* whether the build places `time' behind `_time'

ASSUME BandwidthAssumption ==
    /\ Sizes \in Nat \ {0} /\ Repeats \in Nat \ {0} /\ Iterations \in Nat \ {0}
    /\ MaxFailures \in Nat /\ MaxFaults \in Nat
    /\ Clobbers \subseteq BOOLEAN

Directions == {"h2d", "d2h", "d2d"}
Runs       == 1..(Sizes * Repeats)

(* The regions of a run.  `data' and `check' are arrays of the host, `map' *)
(* is a mapped device buffer, `pinned' a mapped pinned buffer; `dmem' and  *)
(* `dst' are on the device.  What a run that failed leaves pending uses    *)
(* regions no later run is given.                                          *)
Names    == {"data", "check", "map", "pinned", "dmem", "dst"}
Regions  == Names \X Runs

\* Contents: the random data of a run, what memory holds that was never
\* stored in, or damage.
Random(n)  == <<"random", n>>
Damaged(n) == <<"damaged", n>>
Junk(name) == <<"junk", name>>
Contents   == {Random(n) : n \in Runs} \cup {Damaged(n) : n \in 1..MaxFaults}
                \cup {Junk(name) : name \in Names}

VARIABLES
    pinned, mapped,  \* --pinned, --mapped
    clobbers,        \* whether stores behind _time hit time
    ready,           \* prepare_benchmark has a context and a queue
    queue, mem, faults,
    pc,              \* the step the host is at
    dir,             \* the measurement it is in
    size, repeat,    \* the loops of main, from 1
    err,             \* the error code, CL_SUCCESS or a negative one
    i,               \* the loop of the measurement
    accepted,        \* history: transfers accepted in that loop
    clock,           \* history: whether the clock is running
    moved,           \* history: commands executed while it ran
    performed,       \* history: transfers made by direction, of this run
    reread,          \* history: whether the read-back was accepted
    live,            \* runs whose data array is allocated
    summed,          \* repeats whose times are in time[1] and time[2..3]
    failures,        \* failing calls so far
    printed          \* what was printed for each size

mode     == <<pinned, mapped, clobbers, ready>>
position == <<dir, size, repeat>>
window   == <<accepted, clock, moved, performed>>
report   == <<summed, printed>>
vars == <<mode, position, window, report, queue, mem, faults, pc, err, i,
          live, failures, reread>>

Q == INSTANCE InOrderQueue

Run        == ((size - 1) * Repeats) + repeat
Region(name) == <<name, Run>>

\* Where a direction's transfers start and end.
Source ==
    CASE dir = "h2d" -> IF mapped THEN "map" ELSE IF pinned THEN "pinned" ELSE "data"
      [] OTHER       -> "dmem"
Target ==
    CASE dir = "h2d" -> "dmem"
      [] dir = "d2d" -> "dst"
      [] OTHER       -> IF mapped THEN "map" ELSE IF pinned THEN "pinned" ELSE "data"
-----------------------------------------------------------------------------
(* Calls.                                                                  *)

Enqueue(src, dst) ==
    queue' = Append(queue, [src |-> Region(src), dst |-> Region(dst)])

\* The error codes of OpenCL are negative.
CL_SUCCESS == 0
Refused    == -1

Succeeds == ready /\ UNCHANGED failures

\* Without a context or a queue every call fails, and is not counted.
Fails == \/ ~ready /\ UNCHANGED failures
         \/ ready /\ failures < MaxFailures /\ failures' = failures + 1

HostStore(name, content) == mem' = [mem EXCEPT ![Region(name)] = content]

\* What memory may hold when it is allocated: anything, and where a copy of
\* data was freed before, still that.
Fresh(name) == {Junk(name), mem[Region("data")]}

\* An early return: run_benchmark returns the error at once, with the times
\* zero, the buffers not released and data not freed.
ReturnError == pc' = "failed" /\ err' = Refused
-----------------------------------------------------------------------------
(* The steps of a measurement.                                             *)

BeginRun ==
    /\ pc = "run"
    /\ HostStore("data", Random(Run))
    /\ live' = live \cup {Run}
    /\ performed' = [d \in Directions |-> 0]
    /\ summed' = IF clobbers THEN [summed EXCEPT !.h2d = 0] ELSE summed
    /\ dir' = "h2d"
    /\ pc' = "create"
    /\ UNCHANGED <<mode, size, repeat, accepted, clock, moved, printed,
                   queue, faults, err, i, failures, reread>>

CreateBuffers ==
    /\ pc = "create"
    /\ \/ /\ Succeeds
          /\ \E c \in Fresh("dmem"), d \in Fresh("dst") :
               mem' = [mem EXCEPT ![Region("dmem")] = c, ![Region("dst")] = d]
          /\ pc' = IF dir = "h2d" THEN "stage" ELSE "preload"
          /\ err' = CL_SUCCESS
       \/ Fails /\ ReturnError /\ UNCHANGED mem
    /\ UNCHANGED <<mode, position, window, report, queue, faults, i, live,
                   reread>>

\* The device buffer gets the data by a write that does not block; the code
\* of device to host goes on when it is refused.
Preload ==
    /\ pc = "preload"
    /\ \/ /\ Succeeds
          /\ Enqueue("data", "dmem")
          /\ err' = CL_SUCCESS
          /\ pc' = "stage"
       \/ /\ Fails
          /\ dir = "d2h"
          /\ err' = Refused
          /\ pc' = "stage"
          /\ UNCHANGED queue
       \/ Fails /\ dir = "d2d" /\ ReturnError /\ UNCHANGED queue
    /\ UNCHANGED <<mode, position, window, report, mem, faults, i, live,
                   reread>>

\* The pinned buffer is created and mapped by blocking calls, and holds the
\* data when it is the source.
Stage ==
    /\ pc = "stage"
    /\ \/ /\ pinned /\ dir # "d2d"
          /\ \/ /\ Succeeds
                /\ Q!Drained
                /\ \E c \in Fresh("pinned") :
                     HostStore("pinned", IF dir = "h2d" THEN mem[Region("data")]
                                                        ELSE c)
                /\ err' = CL_SUCCESS
                /\ pc' = "start"
             \/ Fails /\ ReturnError /\ UNCHANGED mem
       \/ /\ ~pinned \/ dir = "d2d"
          /\ pc' = "start"
          /\ UNCHANGED <<mem, err, failures>>
    /\ UNCHANGED <<mode, position, window, report, queue, faults, i, live,
                   reread>>

\* Mutant: start_time is taken without a clFinish.
StartClockAtOnce ==
    /\ pc = "start"
    /\ clock' = TRUE /\ moved' = 0 /\ accepted' = 0 /\ i' = 0
    /\ pc' = "loop"
    /\ UNCHANGED <<mode, position, performed, report, queue, mem, faults, err,
                   live, failures, reread>>

\* clFinish, then start_time.
StartClock ==
    /\ pc = "start"
    /\ Q!Drained
    /\ clock' = TRUE /\ moved' = 0 /\ accepted' = 0 /\ i' = 0
    /\ pc' = "loop"
    /\ UNCHANGED <<mode, position, performed, report, queue, mem, faults, err,
                   live, failures, reread>>

\* Mutant: device to host goes on when its transfer is refused.
EnqueueTransferCarriesOn ==
    /\ pc = "loop" /\ i < Iterations
    /\ ~mapped \/ dir = "d2d"
    /\ \/ /\ Succeeds
          /\ Enqueue(Source, Target)
          /\ accepted' = accepted + 1
          /\ i' = i + 1 /\ err' = CL_SUCCESS
          /\ UNCHANGED pc
       \/ /\ Fails
          /\ dir # "h2d"
          /\ i' = i + 1 /\ err' = Refused
          /\ UNCHANGED <<pc, queue, accepted>>
       \/ /\ Fails
          /\ dir = "h2d"
          /\ ReturnError
          /\ UNCHANGED <<queue, accepted, i>>
    /\ UNCHANGED <<mode, position, clock, moved, performed, report, mem,
                   faults, live, reread>>

\* An iteration that enqueues its transfer and goes on.
EnqueueTransfer ==
    /\ pc = "loop" /\ i < Iterations
    /\ ~mapped \/ dir = "d2d"
    /\ \/ /\ Succeeds
          /\ Enqueue(Source, Target)
          /\ accepted' = accepted + 1
          /\ i' = i + 1 /\ err' = CL_SUCCESS
          /\ UNCHANGED pc
       \/ /\ Fails
          /\ dir = "d2d"
          /\ i' = i + 1 /\ err' = Refused
          /\ UNCHANGED <<pc, queue, accepted>>
       \/ /\ Fails
          /\ dir # "d2d"
          /\ ReturnError
          /\ UNCHANGED <<queue, accepted, i>>
    /\ UNCHANGED <<mode, position, clock, moved, performed, report, mem,
                   faults, live, reread>>

\* An iteration that maps the device buffer: the call blocks, and transfers
\* the buffer when it is mapped for reading.
MapBuffer ==
    /\ pc = "loop" /\ i < Iterations
    /\ mapped /\ dir # "d2d"
    /\ \/ /\ Succeeds
          /\ err' = CL_SUCCESS
          /\ pc' = "mapped"
          /\ IF dir = "d2h" THEN Enqueue("dmem", "map") /\ accepted' = accepted + 1
                            ELSE UNCHANGED <<queue, accepted>>
          /\ UNCHANGED i
       \/ /\ Fails
          /\ dir = "d2h"
          /\ i' = i + 1 /\ err' = Refused
          /\ UNCHANGED <<pc, queue, accepted>>
       \/ /\ Fails
          /\ dir = "h2d"
          /\ ReturnError
          /\ UNCHANGED <<queue, accepted, i>>
    /\ UNCHANGED <<mode, position, clock, moved, performed, report, mem,
                   faults, live, reread>>

\* The copy out of, or into, the mapped buffer, and the unmap, which carries
\* the data to the device if it was mapped for writing.  The result of the
\* unmap is not looked at.
CopyMapped ==
    /\ pc = "mapped"
    /\ Q!Drained
    /\ i' = i + 1
    /\ pc' = "loop"
    /\ IF dir = "h2d"
       THEN /\ HostStore("map", mem[Region("data")])
            /\ \/ Succeeds /\ Enqueue("map", "dmem") /\ accepted' = accepted + 1
               \/ Fails /\ UNCHANGED <<queue, accepted>>
       ELSE /\ HostStore("data", mem[Region("map")])
            /\ UNCHANGED <<queue, accepted, failures>>
    /\ UNCHANGED <<mode, position, clock, moved, performed, report, faults,
                   err, live, reread>>

\* clFinish, then the elapsed time.
StopClock ==
    /\ pc = "loop" /\ i = Iterations
    /\ Q!Drained
    /\ clock' = FALSE
    /\ performed' = [performed EXCEPT ![dir] = moved]
    /\ pc' = "readback"
    /\ UNCHANGED <<mode, position, accepted, moved, report, queue, mem,
                   faults, err, i, live, failures, reread>>

\* A blocking read into a fresh array.  Its result is not looked at: when
\* it is refused, the comparison is with whatever the array holds.
ReadBack ==
    /\ pc = "readback"
    /\ \E c \in Fresh("check") : HostStore("check", c)
    /\ \/ /\ Succeeds
          /\ Enqueue(IF dir = "d2d" THEN "dst" ELSE "dmem", "check")
          /\ reread' = TRUE
       \/ Fails /\ reread' = FALSE /\ UNCHANGED queue
    /\ pc' = "compare"
    /\ UNCHANGED <<mode, position, window, report, faults, err, i, live>>

\* Mutant: the read-back does not block.
CompareAtOnce ==
    /\ pc = "compare"
    /\ IF mem[Region("check")] # mem[Region("data")]
       THEN pc' = "exit" /\ UNCHANGED <<dir, err>>
       ELSE CASE dir = "h2d" -> pc' = "create" /\ dir' = "d2h" /\ UNCHANGED err
              [] dir = "d2h" -> IF err = CL_SUCCESS
                                THEN pc' = "create" /\ dir' = "d2d" /\ UNCHANGED err
                                ELSE pc' = "failed" /\ UNCHANGED <<dir, err>>
              [] dir = "d2d" -> pc' = "ran" /\ err' = CL_SUCCESS /\ UNCHANGED dir
    /\ UNCHANGED <<mode, size, repeat, window, report, queue, mem, faults, i,
                   live, failures, reread>>

\* Mutant: only the first measurement is checked.
CompareNothingButH2D ==
    /\ pc = "compare"
    /\ Q!Drained
    /\ IF dir = "h2d" /\ mem[Region("check")] # mem[Region("data")]
       THEN pc' = "exit" /\ UNCHANGED <<dir, err>>
       ELSE CASE dir = "h2d" -> pc' = "create" /\ dir' = "d2h" /\ UNCHANGED err
              [] dir = "d2h" -> IF err = CL_SUCCESS
                                THEN pc' = "create" /\ dir' = "d2d" /\ UNCHANGED err
                                ELSE pc' = "failed" /\ UNCHANGED <<dir, err>>
              [] dir = "d2d" -> pc' = "ran" /\ err' = CL_SUCCESS /\ UNCHANGED dir
    /\ UNCHANGED <<mode, size, repeat, window, report, queue, mem, faults, i,
                   live, failures, reread>>

\* The comparison with data.  The last results of device to device are
\* those of the releases.
Compare ==
    /\ pc = "compare"
    /\ Q!Drained
    /\ IF mem[Region("check")] # mem[Region("data")]
       THEN pc' = "exit" /\ UNCHANGED <<dir, err>>
       ELSE CASE dir = "h2d" -> pc' = "create" /\ dir' = "d2h" /\ UNCHANGED err
              [] dir = "d2h" -> IF err = CL_SUCCESS
                                THEN pc' = "create" /\ dir' = "d2d" /\ UNCHANGED err
                                ELSE pc' = "failed" /\ UNCHANGED <<dir, err>>
              [] dir = "d2d" -> pc' = "ran" /\ err' = CL_SUCCESS /\ UNCHANGED dir
    /\ UNCHANGED <<mode, size, repeat, window, report, queue, mem, faults, i,
                   live, failures, reread>>
-----------------------------------------------------------------------------
(* The loops of main.                                                      *)

PrepareBenchmark ==
    /\ pc = "prepare"
    /\ \/ ready' = TRUE /\ UNCHANGED failures
       \/ ready' = FALSE /\ failures < MaxFailures /\ failures' = failures + 1
    /\ pc' = "run"
    /\ UNCHANGED <<pinned, mapped, clobbers, position, window, report, queue,
                   mem, faults, err, i, live, reread>>

NoSums == [h2d |-> 0, others |-> 0]
NaN    == [h2d |-> -1, others |-> -1]

PrintResult(sums) ==
    /\ printed' = Append(printed, sums)
    /\ summed' = NoSums
    /\ repeat' = 1 /\ size' = size + 1
    /\ pc' = IF size < Sizes THEN "run" ELSE "shutdown"

NextRepeat(sums) ==
    IF repeat < Repeats
    THEN /\ repeat' = repeat + 1 /\ summed' = sums /\ pc' = "run"
         /\ UNCHANGED <<size, printed>>
    ELSE PrintResult(sums)

\* run_benchmark returned 0: data is freed and the times are summed.
Succeeded ==
    /\ pc = "ran"
    /\ live' = live \ {Run}
    /\ NextRepeat([h2d |-> summed.h2d + 1, others |-> summed.others + 1])
    /\ UNCHANGED <<mode, dir, window, queue, mem, faults, err, i, failures,
                   reread>>

\* Mutant: the repeat is tried again until it succeeds.
FailedTriesAgain ==
    /\ pc = "failed"
    /\ pc' = "run"
    /\ clock' = FALSE
    /\ UNCHANGED <<mode, position, report, accepted, moved, performed, queue,
                   mem, faults, err, i, live, failures, reread>>

\* Mutant: the data array is freed on the error path too.
FailedFreesData ==
    /\ pc = "failed"
    /\ live' = live \ {Run}
    /\ IF err > 0 THEN PrintResult(NaN) ELSE NextRepeat(summed)
    /\ clock' = FALSE
    /\ UNCHANGED <<mode, dir, accepted, moved, performed, queue, mem, faults,
                   err, i, failures, reread>>

\* run_benchmark returned an error: main gives the size up when it is
\* positive, and sums the zeros otherwise.
Failed ==
    /\ pc = "failed"
    /\ IF err > 0 THEN PrintResult(NaN) ELSE NextRepeat(summed)
    /\ clock' = FALSE
    /\ UNCHANGED <<mode, dir, accepted, moved, performed, queue, mem, faults,
                   err, i, live, failures, reread>>

\* Releasing a queue or context there is none of exits, with the error.
Shutdown ==
    /\ pc = "shutdown"
    /\ pc' = "exit"
    /\ UNCHANGED <<mode, position, window, report, queue, mem, faults, err, i,
                   live, failures, reread>>

Host == \/ BeginRun \/ CreateBuffers \/ Preload \/ Stage \/ StartClock
        \/ EnqueueTransfer \/ MapBuffer \/ CopyMapped \/ StopClock
        \/ ReadBack \/ Compare \/ PrepareBenchmark \/ Succeeded \/ Failed
        \/ Shutdown

Device ==
    /\ Q!Execute
    /\ moved' = IF clock THEN moved + 1 ELSE moved
    /\ UNCHANGED <<mode, position, accepted, clock, performed, report, pc,
                   err, i, live, failures, reread>>

Init ==
    /\ pinned \in BOOLEAN /\ mapped \in BOOLEAN /\ clobbers \in Clobbers
    /\ ready = FALSE
    /\ Q!QueueInit([r \in Regions |-> Junk(r[1])])
    /\ pc = "prepare" /\ dir = "h2d" /\ size = 1 /\ repeat = 1
    /\ err = CL_SUCCESS /\ i = 0 /\ accepted = 0 /\ clock = FALSE /\ moved = 0
    /\ performed = [d \in Directions |-> 0]
    /\ live = {} /\ summed = NoSums /\ reread = FALSE
    /\ failures = 0 /\ printed = << >>

Over == pc = "exit" /\ Q!Drained

Next == Host \/ Device \/ (Over /\ UNCHANGED vars)

Spec == Init /\ [][Next]_vars

\* The host runs, and the device executes what was enqueued.
FairSpec == Spec /\ WF_vars(Host) /\ WF_vars(Device)
-----------------------------------------------------------------------------
(* Properties.                                                             *)

\* No step of the host stores into, copies from or compares a region that a
\* pending command reads or writes, though every transfer is asynchronous
\* and failed runs leave transfers behind.
NoRace ==
    [][Host =>
         /\ \A r \in Regions : mem'[r] # mem[r] => ~Q!Pending(r)
         /\ pc \in {"mapped", "compare"} =>
              ~Q!Pending(Region("data")) /\ ~Q!Pending(Region("map"))
                /\ ~Q!Pending(Region("check"))]_vars

\* The commands the device executes between the two readings of the clock
\* are the transfers of the measurement, all of them and no others: nothing
\* of the set-up, of the check or of an earlier run that failed.
Watch == INSTANCE Stopwatch WITH
    Capacity  <- Iterations,
    phase     <- IF clock THEN "running" ELSE IF pc = "readback" THEN "read"
                                                                 ELSE "idle",
    submitted <- IF clock \/ pc = "readback" THEN accepted ELSE 0,
    executed  <- IF clock \/ pc = "readback" THEN moved ELSE 0

ImplementsStopwatch == Watch!Spec

\* A run that counts as a success and made fewer transfers in a direction
\* than were asked for lost them in a call whose result is overwritten or not
\* looked at: a copy on the device, or a map or unmap.
ShortOnlyWhereUnchecked ==
    pc = "ran" =>
      \A d \in Directions :
        performed[d] < Iterations => failures > 0 /\ (d = "d2d" \/ mapped)

\* What the transfers of the current direction delivered is what was sent.
Delivered ==
    CASE dir = "h2d" -> mem[Region("dmem")] = mem[Region("data")]
      [] dir = "d2d" -> mem[Region("dst")] = mem[Region("data")]
      [] dir = "d2h" -> mem[Region(IF pinned /\ ~mapped THEN "pinned" ELSE "data")]
                          = mem[Region("dmem")]

\* A measurement that passes its check has delivered the data intact, even
\* when transfers are faulty or refused.  The check shows nothing in two
\* cases: when its own read-back was refused, as fresh memory may happen to
\* hold the data, and for direct transfers into a pinned buffer, as it is
\* dmem, which they read, that is compared.
CheckedMeansDelivered ==
    [][pc = "compare" /\ pc' \in {"create", "ran"} /\ reread
         /\ ~(dir = "d2h" /\ pinned /\ ~mapped) => Delivered]_vars

\* No pending command refers to a data array that was freed.  The early
\* returns, which leave commands pending, do not free it.
DataOutlivesCommands ==
    \A n \in Runs : Q!Pending(<<"data", n>>) => n \in live

\* "measure given amount of times and return mean values": what is printed
\* for a size is a mean over all the repeats, or not a number.
MeanOfAllRepeats ==
    \A n \in 1..Len(printed) :
      printed[n] \in {NaN, [h2d |-> Repeats, others |-> Repeats]}

\* Every run of the program ends: no wait is for a command that never comes.
Termination == <>(pc = "exit")
=============================================================================
