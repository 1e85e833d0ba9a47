--------------------------- MODULE BranchPenalty ---------------------------
(***************************************************************************)
(* main of branch_penalty.cpp behind its options: on every device chosen,  *)
(* for every number of branches and every width that fit, a selector is    *)
(* filled in and written to the device, the kernel is launched and the     *)
(* time it took is printed.                                                *)
(*                                                                         *)
(* shrCheckError only prints: after an error the program goes on with      *)
(* whatever it has.  A time is modelled by the launch it is of.            *)
(***************************************************************************)
EXTENDS Integers, Sequences

CONSTANTS
    BPSIZE,        \* work-items, and the largest number of branches (128)
    MaxDevices,    \* devices explored
    MaxFailures    \* failing calls explored

ASSUME PenaltyAssumption ==
    /\ BPSIZE \in Nat \ {0} /\ MaxDevices \in Nat /\ MaxFailures \in Nat

VARIABLES
    num_devices, device_id,
    stage,
    i,                        \* the device
    branchtypes, branchsize,
    k, curbranch,             \* the inner i
    branchSelector,
    buffer,                   \* d_branchSelector
    broken,                   \* the set-up went wrong: no launch is accepted
    event,                    \* the launch it is of, and the selector that ran
    launches,                 \* launches accepted
    time_start, time_end,     \* the launches they are of
    normtime,
    reported,                 \* history: an error was printed for this line
    failures,
    table                     \* the lines printed

choice  == <<num_devices, device_id>>
loops   == <<i, branchtypes, branchsize>>
filling == <<k, curbranch, branchSelector>>
times   == <<time_start, time_end, normtime>>
vars == <<choice, loops, filling, times, stage, buffer, broken, event,
          launches, reported, failures, table>>

Unset    == [n \in 0..(BPSIZE - 1) |-> 0]
NoEvent  == [launch |-> 0, ran |-> Unset]

Fails == failures < MaxFailures /\ failures' = failures + 1
-----------------------------------------------------------------------------
(* The devices.                                                            *)

SkipDevice ==
    /\ stage = "device" /\ i < num_devices
    /\ device_id # -1 /\ device_id # i
    /\ i' = i + 1
    /\ UNCHANGED <<choice, branchtypes, branchsize, filling, times, stage,
                   buffer, broken, event, launches, reported, failures, table>>

\* Without a context or the kernel's text there is nothing to build, which
\* ends the program.  A queue, kernel or buffer that is missing does not.
\* event is not initialised, nor are the contents of the buffer.
Setup ==
    /\ stage = "device" /\ i < num_devices
    /\ device_id \in {-1, i}
    /\ \/ stage' = "begin" /\ broken' = FALSE /\ UNCHANGED failures
       \/ stage' = "begin" /\ broken' = TRUE /\ Fails
       \/ stage' = "exit" /\ Fails /\ UNCHANGED broken
    /\ event' = NoEvent
    /\ buffer' = branchSelector
    /\ normtime' = 0
    /\ branchtypes' = 1 /\ branchsize' = 1
    /\ UNCHANGED <<choice, i, filling, time_start, time_end, launches,
                   reported, table>>

EndDevice ==
    /\ stage = "begin" /\ branchtypes > BPSIZE
    /\ i' = i + 1
    /\ stage' = "device"
    /\ UNCHANGED <<choice, branchtypes, branchsize, filling, times, buffer,
                   broken, event, launches, reported, failures, table>>

Exit ==
    /\ stage = "device" /\ i >= num_devices
    /\ stage' = "end"
    /\ UNCHANGED <<choice, loops, filling, times, buffer, broken, event,
                   launches, reported, failures, table>>
-----------------------------------------------------------------------------
(* One measurement.                                                        *)

\* Mutant: the branch of the last measurement is gone on with.
BeginOn ==
    /\ stage = "begin" /\ branchtypes <= BPSIZE
    /\ k' = 0 /\ reported' = FALSE
    /\ stage' = "fill"
    /\ UNCHANGED <<choice, loops, curbranch, branchSelector, times, buffer,
                   broken, event, launches, failures, table>>

\* Mutant: event is a variable of the innermost loop.
BeginFresh ==
    /\ stage = "begin" /\ branchtypes <= BPSIZE
    /\ k' = 0 /\ curbranch' = 0 /\ reported' = FALSE /\ event' = NoEvent
    /\ stage' = "fill"
    /\ UNCHANGED <<choice, loops, branchSelector, times, buffer, broken,
                   launches, failures, table>>

Begin ==
    /\ stage = "begin" /\ branchtypes <= BPSIZE
    /\ k' = 0 /\ curbranch' = 0 /\ reported' = FALSE
    /\ stage' = "fill"
    /\ UNCHANGED <<choice, loops, branchSelector, times, buffer, broken, event,
                   launches, failures, table>>

\* The branch of the next work-item.
NextBranch ==
    LET c == IF k % branchsize = 0 THEN curbranch + 1 ELSE curbranch
    IN  IF c % (branchtypes + 1) = 0 THEN 1 ELSE c

Fill ==
    /\ stage = "fill" /\ k < BPSIZE
    /\ curbranch' = NextBranch
    /\ branchSelector' = [branchSelector EXCEPT ![k] = NextBranch]
    /\ k' = k + 1
    /\ UNCHANGED <<choice, loops, times, stage, buffer, broken, event, launches,
                   reported, failures, table>>

\* Mutant: only the result of the launch is checked.
WriteUnchecked ==
    /\ stage = "fill" /\ k = BPSIZE
    /\ \/ buffer' = branchSelector /\ UNCHANGED failures
       \/ Fails /\ UNCHANGED buffer
       \/ broken /\ UNCHANGED <<buffer, failures>>
    /\ stage' = "launch"
    /\ UNCHANGED <<choice, loops, filling, times, broken, event, launches,
                   reported, table>>

\* It is a blocking write.
Write ==
    /\ stage = "fill" /\ k = BPSIZE
    /\ \/ buffer' = branchSelector /\ UNCHANGED <<reported, failures>>
       \/ reported' = TRUE /\ Fails /\ UNCHANGED buffer
       \/ broken /\ reported' = TRUE /\ UNCHANGED <<buffer, failures>>
    /\ stage' = "launch"
    /\ UNCHANGED <<choice, loops, filling, times, broken, event, launches, table>>

\* A launch that is not accepted leaves event as it is.
Launch ==
    /\ stage = "launch"
    /\ \/ /\ ~broken
          /\ launches' = launches + 1
          /\ event' = [launch |-> launches + 1, ran |-> buffer]
          /\ UNCHANGED <<reported, failures>>
       \/ /\ reported' = TRUE
          /\ IF broken THEN UNCHANGED failures ELSE Fails
          /\ UNCHANGED <<launches, event>>
    /\ stage' = "wait"
    /\ UNCHANGED <<choice, loops, filling, times, buffer, broken, table>>

\* clFinish, clWaitForEvents and the profiling of the event: each may fail,
\* and a time that is not delivered stays.  An event that was never set may
\* do anything.
Wait ==
    /\ stage = "wait"
    /\ \/ /\ event # NoEvent
          /\ time_start' = event.launch /\ time_end' = event.launch
          /\ stage' = "print"
          /\ UNCHANGED <<reported, failures>>
       \/ /\ time_start' \in {time_start, event.launch}
          /\ time_end' \in {time_end, event.launch}
          /\ reported' = TRUE
          /\ stage' = "print"
          /\ IF event = NoEvent THEN UNCHANGED failures ELSE Fails
       \/ /\ event = NoEvent
          /\ stage' = "crash"
          /\ UNCHANGED <<time_start, time_end, reported, failures>>
    /\ UNCHANGED <<choice, loops, filling, normtime, buffer, broken, event,
                   launches, table>>

\* Mutant: the last width is left out.
NextPointShort ==
    IF branchsize + 1 < BPSIZE \div branchtypes
    THEN branchsize' = branchsize + 1 /\ UNCHANGED branchtypes
    ELSE branchsize' = 1 /\ branchtypes' = branchtypes + 1

NextPoint ==
    IF branchsize < BPSIZE \div branchtypes
    THEN branchsize' = branchsize + 1 /\ UNCHANGED branchtypes
    ELSE branchsize' = 1 /\ branchtypes' = branchtypes + 1

PrintTime ==
    /\ stage = "print"
    /\ normtime' = IF branchtypes = 1 /\ branchsize = 1 THEN time_end ELSE normtime
    /\ table' = Append(table,
         [device |-> i, types |-> branchtypes, size |-> branchsize,
          start |-> time_start, end |-> time_end, norm |-> normtime',
          launch |-> launches, event |-> event, reported |-> reported])
    /\ NextPoint
    /\ stage' = "begin"
    /\ UNCHANGED <<choice, i, filling, time_start, time_end, buffer, broken,
                   event, launches, reported, failures>>

Over == stage \in {"exit", "end", "crash"}

Init ==
    /\ num_devices \in 0..MaxDevices /\ device_id \in -1..MaxDevices
    /\ stage = "device" /\ i = 0 /\ branchtypes = 1 /\ branchsize = 1
    /\ k = 0 /\ curbranch = 0 /\ branchSelector = Unset /\ buffer = Unset
    /\ broken = FALSE /\ event = NoEvent /\ launches = 0
    /\ time_start = 0 /\ time_end = 0 /\ normtime = 0
    /\ reported = FALSE /\ failures = 0 /\ table = << >>

Next == \/ SkipDevice \/ Setup \/ EndDevice \/ Exit \/ Begin \/ Fill \/ Write
        \/ Launch \/ Wait \/ PrintTime
        \/ Over /\ UNCHANGED vars

Spec == Init /\ [][Next]_vars
-----------------------------------------------------------------------------
(* Properties.                                                             *)

\* The branch of work-item n when types branches are each size wide.
Branch(n, types, size) == ((n \div size) % types) + 1

\* Before a selector is written, it has the given number of branches, in
\* runs of the given width that repeat in order, whatever the measurement
\* before it has left behind.
SelectorIsExact ==
    stage \in {"launch", "wait", "print"} =>
      \A n \in 0..(BPSIZE - 1) :
        branchSelector[n] = Branch(n, branchtypes, branchsize)

\* A line printed without an error message is of the launch made for it, on
\* the branches it states, although every call may fail and is gone on from;
\* and so is the time it is compared with, if that line had none either.
LinesAreOfTheirLaunch ==
    \A n \in 1..Len(table) :
      LET l == table[n]
          Sound(m) == ~table[m].reported
      IN  Sound(n) =>
            /\ l.start = l.launch /\ l.end = l.launch /\ l.event.launch = l.launch
            /\ \A m \in 1..(n - 1) : table[m].launch < l.launch
            /\ \A w \in 0..(BPSIZE - 1) :
                 l.event.ran[w] = Branch(w, l.types, l.size)
            /\ \A m \in 1..n :
                 Sound(m) /\ table[m].device = l.device /\ table[m].types = 1
                   /\ table[m].size = 1 => l.norm = table[m].launch

\* Every device chosen has a line for each number of branches and each width
\* with which all the branches occur, whatever fails on the way.
EveryPointIsMeasured ==
    stage = "end" =>
      LET Chosen == {d \in 0..(num_devices - 1) : device_id \in {-1, d}}
          Points == {p \in (1..BPSIZE) \X (1..BPSIZE) : p[1] * p[2] <= BPSIZE}
          Due    == {<<d, p[1], p[2]>> : d \in Chosen, p \in Points}
          Key(n) == <<table[n].device, table[n].types, table[n].size>>
      IN  /\ {Key(n) : n \in 1..Len(table)} = Due
          /\ \A n, m \in 1..Len(table) : Key(n) = Key(m) => n = m

\* The uninitialised event is used only as long as no launch of this device
\* has been accepted.
WildEventOnlyAtFirst ==
    stage = "crash" =>
      \A n \in 1..Len(table) : table[n].device = i => table[n].reported
=============================================================================
