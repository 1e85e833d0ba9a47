------------------------------ MODULE Selection ------------------------------
(***************************************************************************)
(* How main of buffer_bandwidth.cpp, and in the same words that of         *)
(* mem_streaming.cpp and arith_speed.cpp, makes arrays of the lists given  *)
(* with --device and --sizes, and goes over the devices: what              *)
(* prepare_benchmark creates, what the measurements of the sizes use, and  *)
(* what is released.  A measurement is BufferBandwidth's subject, here it  *)
(* is one step that uses the handles.                                      *)
(***************************************************************************)
EXTENDS Integers, FiniteSets, SequencesExt

CONSTANTS
    NumDevices,     \* num_devices
    MAX_SIZES,
    DefaultSize,    \* the only size, unless --sizes is given
    DeviceLists,    \* --device: lists of numbers or Invalid words
    SizeLists,      \* --sizes, likewise
    MaxFailures     \* failing calls explored

Invalid == -1

\* The list of an option that is not given, unlike an empty one.
NotGiven == <<-2>>

ASSUME SelectionAssumption ==
    /\ NumDevices \in Nat \ {0} /\ MAX_SIZES \in Nat \ {0} /\ DefaultSize \in Nat
    /\ \A list \in DeviceLists \cup SizeLists :
          list = NotGiven \/ list \in Seq(Nat \cup {Invalid})
    /\ MaxFailures \in Nat

VARIABLES
    devices_str, sizes_str,   \* the tokens of the lists not yet read
    deviceList, sizeList,     \* the lists
    pc,
    used_devices,             \* the first entries of the array
    sizes, num_sizes,         \* the sizes of all the devices, in one array
    dev, j,                   \* the loops over devices and sizes, from 0
    context, commands,        \* the device a handle was created for, or NULL
    live,                     \* the devices whose queues are not released
    measured,                 \* history: device, size and queue used
    failures

lists == <<devices_str, sizes_str, deviceList, sizeList>>
arrays == <<used_devices, sizes, num_sizes>>
handles == <<context, commands, live>>
vars == <<lists, pc, arrays, dev, j, handles, measured, failures>>

NULL == -1

used_num_devices == Len(used_devices)
-----------------------------------------------------------------------------
(* --device                                                                *)

AllDevices ==
    /\ pc = "devices" /\ deviceList = NotGiven
    /\ used_devices' = [n \in 1..NumDevices |-> n - 1]
    /\ pc' = "allocate"
    /\ UNCHANGED <<lists, sizes, num_sizes, dev, j, handles, measured, failures>>

\* Mutant: the first number behind the list passes.
InListInclusive(id) == id <= NumDevices

InList(id) == id < NumDevices

\* A number that is in the list is added, however many there are already;
\* one that is not is passed over; a word ends the program.
ReadDevice ==
    /\ pc = "devices" /\ deviceList # NotGiven /\ devices_str # <<>>
    /\ LET id == Head(devices_str)
       IN  /\ pc' = CASE id = Invalid -> "rejected"
                      [] id # Invalid /\ InList(id)
                           /\ used_num_devices = NumDevices -> "overrun"
                      [] OTHER -> "devices"
           /\ used_devices' = IF pc' = "devices" /\ InList(id)
                              THEN Append(used_devices, id) ELSE used_devices
    /\ devices_str' = Tail(devices_str)
    /\ UNCHANGED <<sizes_str, deviceList, sizeList, sizes, num_sizes, dev, j,
                   handles, measured, failures>>

DevicesRead ==
    /\ pc = "devices" /\ deviceList # NotGiven /\ devices_str = <<>>
    /\ pc' = "allocate"
    /\ UNCHANGED <<lists, arrays, dev, j, handles, measured, failures>>
-----------------------------------------------------------------------------
(* --sizes                                                                 *)

\* Where a size of a device is.
At(n, d) == n + d * MAX_SIZES

Allocate ==
    /\ pc = "allocate"
    /\ sizes' = [c \in 0..(MAX_SIZES * used_num_devices - 1) |-> 0]
    /\ pc' = "sizes"
    /\ UNCHANGED <<lists, used_devices, num_sizes, dev, j, handles, measured, failures>>

\* The size becomes the next one of every device.
StoreSize(size) ==
    LET cells == {At(num_sizes, d) : d \in 0..(used_num_devices - 1)}
    IN  IF cells \subseteq DOMAIN sizes
        THEN /\ sizes' = [c \in DOMAIN sizes |-> IF c \in cells THEN size ELSE sizes[c]]
             /\ num_sizes' = num_sizes + 1
             /\ UNCHANGED pc
        ELSE pc' = "overrun" /\ UNCHANGED <<sizes, num_sizes>>

ReadSize ==
    /\ pc = "sizes" /\ sizes_str # <<>>
    /\ IF Head(sizes_str) = Invalid
       THEN pc' = "rejected" /\ UNCHANGED <<sizes, num_sizes>>
       ELSE StoreSize(Head(sizes_str))
    /\ sizes_str' = Tail(sizes_str)
    /\ UNCHANGED <<devices_str, deviceList, sizeList, used_devices, dev, j,
                   handles, measured, failures>>

SizesRead ==
    /\ pc = "sizes" /\ sizes_str = <<>>
    /\ IF sizeList = NotGiven
       THEN /\ num_sizes' = 1
            /\ sizes' = [c \in DOMAIN sizes |->
                            IF c % MAX_SIZES = 0 THEN DefaultSize ELSE 0]
       ELSE UNCHANGED <<sizes, num_sizes>>
    /\ pc' = "prepare"
    /\ UNCHANGED <<lists, used_devices, dev, j, handles, measured, failures>>
-----------------------------------------------------------------------------
(* The loop over the devices.                                              *)

CallFails == failures < MaxFailures /\ failures' = failures + 1

\* Without a context the queue is not assigned.  The error is not looked at.
PrepareBenchmark ==
    /\ pc = "prepare" /\ dev < used_num_devices
    /\ \/ /\ context' = dev /\ commands' = dev /\ live' = live \cup {dev}
          /\ UNCHANGED failures
       \/ context' = dev /\ commands' = NULL /\ CallFails /\ UNCHANGED live
       \/ context' = NULL /\ CallFails /\ UNCHANGED <<commands, live>>
    /\ j' = 0 /\ pc' = "measure"
    /\ UNCHANGED <<lists, arrays, dev, measured>>

\* Mutant: the rows are taken to be as long as the list.
SizeOfPacked(d, n) == sizes[n + d * num_sizes]

SizeOf(d, n) == sizes[At(n, d)]

Measure ==
    /\ pc = "measure" /\ j < num_sizes
    /\ measured' = Append(measured, [device |-> used_devices[dev + 1],
                                     size   |-> SizeOf(dev, j),
                                     entry  |-> dev,
                                     queue  |-> commands])
    /\ j' = j + 1
    /\ UNCHANGED <<lists, pc, arrays, dev, handles, failures>>

Measured ==
    /\ pc = "measure" /\ j = num_sizes
    /\ pc' = "release"
    /\ UNCHANGED <<lists, arrays, dev, j, handles, measured, failures>>

\* Mutant: the result for the queue is overwritten by that for the context.
ReleaseSucceedsHalf == context # NULL

ReleaseSucceeds == commands \in live /\ context # NULL

\* The variables keep the handles.
Release ==
    /\ pc = "release"
    /\ live' = live \ {commands}
    /\ \/ /\ ReleaseSucceeds
          /\ dev' = dev + 1 /\ pc' = "prepare"
          /\ UNCHANGED failures
       \/ /\ IF ReleaseSucceeds THEN CallFails ELSE UNCHANGED failures
          /\ pc' = "error"
          /\ UNCHANGED dev
    /\ UNCHANGED <<lists, arrays, j, context, commands, measured>>

Exit ==
    /\ pc = "prepare" /\ dev = used_num_devices
    /\ pc' = "exit"
    /\ UNCHANGED <<lists, arrays, dev, j, handles, measured, failures>>

Init ==
    /\ deviceList \in DeviceLists /\ sizeList \in SizeLists
    /\ devices_str = IF deviceList = NotGiven THEN <<>> ELSE deviceList
    /\ sizes_str = IF sizeList = NotGiven THEN <<>> ELSE sizeList
    /\ pc = "devices" /\ used_devices = << >> /\ sizes = << >> /\ num_sizes = 0
    /\ dev = 0 /\ j = 0 /\ context = NULL /\ commands = NULL /\ live = {}
    /\ measured = << >> /\ failures = 0

Over == pc \in {"rejected", "overrun", "error", "exit"}

Next == \/ AllDevices \/ ReadDevice \/ DevicesRead
        \/ Allocate \/ ReadSize \/ SizesRead
        \/ PrepareBenchmark \/ Measure \/ Measured \/ Release \/ Exit
        \/ Over /\ UNCHANGED vars

Spec == Init /\ [][Next]_vars
-----------------------------------------------------------------------------
(* Properties.                                                             *)

\* Where the list names devices there are, up to a position, and in all.
NamedUpTo(n) ==
    {m \in 1..n : m <= Len(deviceList) /\ deviceList[m] \in 0..(NumDevices - 1)}
Named == NamedUpTo(Len(deviceList))

\* What the options ask for: every size with every device, both in the order
\* of the lists, or those there are without one.
RequestedDevices ==
    IF deviceList = NotGiven THEN [n \in 1..NumDevices |-> n - 1]
    ELSE [c \in 1..Cardinality(Named) |->
             deviceList[CHOOSE n \in Named : Cardinality(NamedUpTo(n)) = c]]

RequestedSizes == IF sizeList = NotGiven THEN <<DefaultSize>> ELSE sizeList

Requested ==
    LET D == RequestedDevices
        S == RequestedSizes
    IN  [n \in 1..(Len(D) * Len(S)) |->
            <<D[((n - 1) \div Len(S)) + 1], S[((n - 1) % Len(S)) + 1]>>]

Done == [n \in 1..Len(measured) |-> <<measured[n].device, measured[n].size>>]

\* What is measured is what was asked for, in its order, and all of it if the
\* program ends without an error: the rows of one array keep the devices'
\* sizes apart.
MeasuresTheRequest ==
    /\ IsPrefix(Done, Requested)
    /\ pc = "exit" => Done = Requested

\* The arrays are overrun only by a list of devices that repeats one, or by
\* one of more sizes than a row holds.
OverrunOnlyByLongLists ==
    pc = "overrun" =>
      \/ \E m, n \in 1..Len(deviceList) :
            m # n /\ deviceList[m] = deviceList[n] /\ deviceList[m] # Invalid
      \/ Len(sizeList) > MAX_SIZES

\* A device that could not be prepared is the last one: each device measured
\* before another one was measured with a queue of its own.
UnpreparedIsLast ==
    \A m, n \in 1..Len(measured) :
        measured[m].entry < measured[n].entry =>
          measured[m].queue = measured[m].entry
=============================================================================
