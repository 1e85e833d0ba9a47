-------------------------- MODULE KernelOverheads --------------------------
(***************************************************************************)
(* main, gen_kernel and run_kernel_benchmark of kernel_overheads.cpp, with *)
(* the enumeration of the devices they choose from: for one device or all  *)
(* of them, every test of testdata_loc.h generates a kernel, launches it   *)
(* Launches times and prints the median of the overheads.                  *)
(*                                                                         *)
(* The enumeration alone, as the mains of the other benchmarks start it,   *)
(* is explored from the stage "elsewhere".  Building, waiting and          *)
(* profiling may fail; printing a device's information does not.           *)
(***************************************************************************)
EXTENDS DeviceEnum

CONSTANTS
    Tests,      \* ki_tests: a sequence of [args, lines]
    Launches,   \* launches measured in a test (10)
    Times,      \* overheads a launch may have
    MaxId       \* largest device number explored

ASSUME OverheadsAssumption ==
    /\ Tests \in Seq([args : Nat, lines : Nat])
    \* what gen_kernel asks for
    /\ \A n \in DOMAIN Tests : Tests[n].args > 0 /\ Tests[n].lines > 0
    \* so it is in all lines of testdata_loc.h
    /\ \A n \in DOMAIN Tests : Tests[n].lines % 2 = 0
    /\ Launches \in Nat /\ Launches % 2 = 0 /\ Launches > 0
    /\ Times \subseteq Nat /\ MaxId \in Nat

VARIABLES
    stage,
    given,       \* history: --device is there
    asked,       \* history: the number of the device asked for
    device_id, upper_id,
    t,           \* the test, from 1 (i)
    body,        \* the kernel's statements
    durations,
    sum,         \* avgDuration before the division
    held,        \* objects acquired, each with the test or device it is of
    spoilt,      \* history: a wait or profiling call failed in this test
    table        \* the lines printed

enumeration == vars
main == <<stage, given, asked, device_id, upper_id, t, body, durations, sum, held,
          spoilt, table>>
all  == <<enumeration, main>>

Quiet == UNCHANGED <<present, pc, platforms, num_platforms, i, num_devs,
                     counted, filled, num_devices, devs, offset>>
-----------------------------------------------------------------------------
(* Options and the list of devices.                                        *)

\* Without --device device_id is not assigned; argc says only that there are
\* two options.
Options ==
    /\ stage = "options"
    /\ given' \in BOOLEAN /\ device_id' \in (-2)..MaxId /\ asked' = device_id'
    /\ stage' = IF given' /\ device_id' < -1 THEN "exit" ELSE "enumerate"
    /\ UNCHANGED <<enumeration, upper_id, t, body, durations, sum, held,
                   spoilt, table>>

Enumerate ==
    /\ stage \in {"enumerate", "elsewhere"}
    /\ \/ GetPlatforms \/ MallocCounters \/ Count \/ Allocate
       \/ FillFailure \/ FillSuccess \/ Return
    /\ UNCHANGED main

\* (int) num_devices
AsInt(n) == IF n < UIntMod \div 2 THEN n ELSE n - UIntMod

\* Mutant: all devices but the last.
LoopRangeShort ==
    /\ stage = "enumerate" /\ pc = "done"
    /\ stage' = IF devs = Null THEN "exit" ELSE "device"
    /\ IF device_id = -1 THEN device_id' = 0 /\ upper_id' = AsInt(num_devices) - 1
                         ELSE upper_id' = device_id + 1 /\ UNCHANGED device_id
    /\ UNCHANGED <<enumeration, given, asked, t, body, durations, sum, held, spoilt,
                   table>>

LoopRange ==
    /\ stage = "enumerate" /\ pc = "done"
    /\ stage' = IF devs = Null THEN "exit" ELSE "device"
    /\ IF device_id = -1 THEN device_id' = 0 /\ upper_id' = AsInt(num_devices)
                         ELSE upper_id' = device_id + 1 /\ UNCHANGED device_id
    /\ UNCHANGED <<enumeration, given, asked, t, body, durations, sum, held, spoilt,
                   table>>
-----------------------------------------------------------------------------
(* The loop over the devices.                                              *)

\* Mutant: the comparison with the number of devices is left out.
AnyId(id) == FALSE

InvalidId(id) == id > AsInt(num_devices)

Listed(id) == id \in DOMAIN devs /\ devs[id] # Garbage

\* What is no device is refused by OpenCL at best.
OpenDevice ==
    /\ stage = "device" /\ device_id < upper_id
    /\ \/ /\ InvalidId(device_id)
          /\ stage' = "exit"
          /\ UNCHANGED <<held, failures>>
       \/ /\ ~InvalidId(device_id) /\ ~Listed(device_id)
          /\ stage' \in {"exit", "crash"}
          /\ UNCHANGED <<held, failures>>
       \/ /\ ~InvalidId(device_id) /\ Listed(device_id)
          /\ held' = held \cup {<<"context", device_id>>, <<"queue", device_id>>}
          /\ stage' = "test"
          /\ UNCHANGED failures
       \/ /\ ~InvalidId(device_id) /\ Listed(device_id)
          /\ held' \in {held, held \cup {<<"context", device_id>>}}
          /\ stage' = "exit"
          /\ Fails
    /\ t' = 1 /\ sum' = 0
    /\ Quiet /\ UNCHANGED <<given, asked, device_id, upper_id, body, durations, spoilt,
                            table>>

CloseDevice ==
    /\ stage = "test" /\ t > Len(Tests)
    /\ held' = held \ {<<"context", device_id>>, <<"queue", device_id>>}
    /\ table' = Append(table, [kind |-> "avg", device |-> device_id, sum |-> sum])
    /\ device_id' = device_id + 1
    /\ stage' = "device"
    /\ UNCHANGED <<enumeration, given, asked, upper_id, t, body, durations, sum, spoilt>>

Exit ==
    /\ stage = "device" /\ device_id >= upper_id
    /\ stage' = "end"
    /\ UNCHANGED <<enumeration, given, asked, device_id, upper_id, t, body, durations,
                   sum, held, spoilt, table>>
-----------------------------------------------------------------------------
(* One test: gen_kernel and run_kernel_benchmark.                          *)

\* Mutant: an if after the last statements, too.
StatementsOpen(n, lines) ==
    <<"store", "load">> \o (IF n % 3 = 0 THEN <<"if">> ELSE << >>)

\* What the loop of gen_kernel writes for n: two statements, and sometimes
\* the head of an if for the next one.
Statements(n, lines) ==
    <<"store", "load">>
      \o (IF n % 3 = 0 /\ n < lines - 2 THEN <<"if">> ELSE << >>)

Body(lines) ==
    FlattenSeq([k \in 1..((lines + 1) \div 2) |-> Statements(2 * (k - 1), lines)])

\* The objects of this test.
Own(kind, n) == {<<kind, device_id, t, k>> : k \in 1..n}

\* An error of run_kernel_benchmark ends the program.
Failure == Fails /\ stage' = "exit"

\* The kernel, its arguments and the launch that is not measured.
Prepare ==
    /\ stage = "test" /\ t <= Len(Tests)
    /\ body' = Body(Tests[t].lines)
    /\ \/ /\ held' = held \cup Own("program", 1) \cup Own("kernel", 1)
                       \cup Own("tmp_args", 1) \cup Own("mem_args", 1)
                       \cup Own("buffer", Tests[t].args)
          /\ stage' = "launch"
          /\ UNCHANGED failures
       \/ Failure /\ UNCHANGED held
    /\ durations' = << >> /\ spoilt' = FALSE
    /\ Quiet /\ UNCHANGED <<given, asked, device_id, upper_id, t, sum, table>>

\* A wait that fails is only reported, and no profiling call is looked at:
\* the difference may then be one of times not of this launch.
Launch ==
    /\ stage = "launch" /\ Len(durations) < Launches
    /\ \/ /\ held' = held \cup {<<"event", device_id, t, Len(durations) + 1>>}
          /\ \E d \in Times : durations' = Append(durations, d)
          /\ UNCHANGED <<stage, spoilt, failures>>
       \/ /\ held' = held \cup {<<"event", device_id, t, Len(durations) + 1>>}
          /\ \E d \in Times \cup {0} : durations' = Append(durations, d)
          /\ spoilt' = TRUE
          /\ Fails /\ UNCHANGED stage
       \/ Failure /\ UNCHANGED <<held, durations, spoilt>>
    /\ Quiet /\ UNCHANGED <<given, asked, device_id, upper_id, t, body, sum, table>>

Occurs(s, d) == {k \in DOMAIN s : s[k] = d}

\* qsort with dblcmp: the same times, the longest first.
Sorted(s) ==
    CHOOSE u \in [DOMAIN s -> Range(s)] :
      /\ \A a, b \in DOMAIN s : a < b => u[a] >= u[b]
      /\ \A d \in Range(s) : Cardinality(Occurs(u, d)) = Cardinality(Occurs(s, d))

\* Mutant: the event of the last launch is all that is given back.
ReleasedEvent == Own("event", Launches) \ Own("event", Launches - 1)

\* event is that of the last launch.
Released ==
    (Own("event", Launches) \ Own("event", Launches - 1))
      \cup Own("kernel", 1) \cup Own("program", 1) \cup Own("tmp_args", 1)

\* History: how often each time was measured.
Often(s) == [d \in Times \cup {0} |-> Cardinality(Occurs(s, d))]

\* durations[4] and durations[0] - durations[9]
Report ==
    /\ stage = "launch" /\ Len(durations) = Launches
    /\ LET s == Sorted(durations)
       IN  /\ table' = Append(table,
                 [kind |-> "line", device |-> device_id, test |-> t,
                  duration |-> s[Launches \div 2], delta |-> s[1] - s[Launches],
                  launches |-> Often(durations), spoilt |-> spoilt])
           /\ sum' = sum + s[Launches \div 2]
    /\ held' = held \ Released
    /\ t' = t + 1
    /\ stage' = "test"
    /\ UNCHANGED <<enumeration, given, asked, device_id, upper_id, body, durations,
                   spoilt>>

AllOver == stage \in {"exit", "crash", "end"} \/ pc = "wild"
          \/ (stage = "elsewhere" /\ pc = "done")
-----------------------------------------------------------------------------
HostInit ==
    /\ given = FALSE /\ asked = 0 /\ device_id = 0 /\ upper_id = 0 /\ t = 1 /\ body = << >>
    /\ durations = << >> /\ sum = 0 /\ held = {} /\ spoilt = FALSE /\ table = << >>

\* This main sets num_platforms to 0.
OverheadsInit ==
    /\ Init /\ HostInit
    /\ \/ stage = "options" /\ num_platforms = 0
       \/ stage = "elsewhere"

OverheadsNext ==
    \/ Options \/ Enumerate \/ LoopRange \/ OpenDevice \/ CloseDevice \/ Exit
    \/ Prepare \/ Launch \/ Report
    \/ AllOver /\ UNCHANGED all

OverheadsSpec == OverheadsInit /\ [][OverheadsNext]_all
-----------------------------------------------------------------------------
(* Properties.                                                             *)



\* A line of a test whose waits and queries succeeded is of that test's
\* launches alone: half of them took at least as long as the time printed,
\* the others and one more at most as long, and delta spans them all.
IsMedian(l) ==
    LET Measured == {d \in Times : l.launches[d] > 0}
        Those(S) == UNION {{d} \X (1..l.launches[d]) : d \in S}
    IN  /\ 2 * Cardinality(Those({d \in Times : d >= l.duration})) >= Launches
        /\ 2 * Cardinality(Those({d \in Times : d <= l.duration})) > Launches
        /\ \E a, b \in Measured : l.delta = a - b
        /\ \A a, b \in Measured : a - b <= l.delta

\* The sums of the durations of the lines behind place p.
Sums(lines, p) ==
    LET s[n \in 0..Len(Tests)] ==
          IF n = 0 THEN 0 ELSE s[n - 1] + lines[p + n].duration
    IN  s

\* The lines behind place p are those of device d: one of every test, in
\* order, and one average, of exactly those.
IsReport(p, d) ==
    LET N   == Len(Tests)
        avg == table[p + N + 1]
    IN  /\ \A n \in 1..N : /\ table[p + n].kind = "line"
                           /\ table[p + n].device = d /\ table[p + n].test = n
        /\ avg.kind = "avg" /\ avg.device = d /\ avg.sum = Sums(table, p)[N]

\* Lines are medians.  When main reaches its end, the table is the report of
\* the device asked for, or with -1 those of all the devices of the list, one
\* after the other.
EveryDeviceMeasured ==
    /\ \A n \in 1..Len(table) :
         table[n].kind = "line" /\ ~table[n].spoilt => IsMedian(table[n])
    /\ stage = "end" =>
         LET Asked == IF asked = -1 THEN 0..(AsInt(num_devices) - 1) ELSE {asked}
             size  == Len(Tests) + 1
         IN  /\ Len(table) = Cardinality(Asked) * size
             /\ \A d \in Asked : IsReport(IF asked = -1 THEN d * size ELSE 0, d)

\* With a device number on the command line and an exact list, what is no
\* device is used only for the number one behind the last; and the list's
\* memory is left only as StaysInBounds says.
OneBehindAtMost ==
    /\ StaysInBounds
    /\ stage = "crash" /\ given /\ platforms /\ Counted => device_id = num_devices

\* Between two tests all that is left of earlier ones are their buffers with
\* the array of them, and the events of all launches but the last: kernels,
\* programs and arguments' values do not pile up, whatever the number of
\* tests and devices.
OnlyBuffersAndEventsPileUp ==
    stage \in {"test", "device", "end"} =>
      \A h \in held :
        \/ h[1] \in {"context", "queue"} /\ stage = "test" /\ h[2] = device_id
        \/ h[1] \in {"buffer", "mem_args"}
        \/ h[1] = "event" /\ h[4] < Launches

\* No kernel ends with the head of an if, nor has one before another one, and
\* it has as many statements as its test's line says.
KernelIsWellFormed ==
    stage = "launch" =>
      /\ \A n \in 1..Len(body) : body[n] = "if" => n < Len(body) /\ body[n + 1] # "if"
      /\ Cardinality({n \in 1..Len(body) : body[n] # "if"}) = Tests[t].lines
=============================================================================
