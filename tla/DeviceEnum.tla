----------------------------- MODULE DeviceEnum -----------------------------
(***************************************************************************)
(* get_all_platforms and get_all_devices of clcommon.cpp, as a benchmark's *)
(* main calls them: the platforms are counted and listed, the devices of   *)
(* each are counted, one array is allocated for all of them, and each      *)
(* platform fills in its part.                                             *)
(*                                                                         *)
(* No result of a count call is looked at.  One that fails, as it does on  *)
(* a platform without devices, leaves the counter as malloc delivered it.  *)
(***************************************************************************)
EXTENDS Integers, SequencesExt

CONSTANTS
    MaxPlatforms,  \* platforms explored
    MaxDevices,    \* devices of a platform explored
    UIntMod,       \* unsigned int counts modulo this (2^32)
    SureAlloc,     \* array lengths malloc certainly serves
    MaxFailures    \* failures explored of calls that had no need to fail

ASSUME EnumAssumption ==
    /\ MaxPlatforms \in Nat /\ MaxDevices \in Nat /\ MaxFailures \in Nat
    /\ UIntMod \in Nat /\ MaxPlatforms * MaxDevices < UIntMod
    /\ SureAlloc \in Nat

UInt == 0..(UIntMod - 1)

VARIABLES
    present,      \* the devices each platform of the system has
    pc,
    platforms,    \* whether there is a list and it holds the platforms
    num_platforms,
    i,            \* the platform the loop is at, from 1
    num_devs,     \* the count of each platform so far
    counted,      \* history: the platforms whose count call succeeded
    filled,       \* history: the platforms whose devices were delivered
    num_devices,
    devs,         \* the array: a function on its indices
    offset,
    failures      \* needless failures so far

vars == <<present, pc, platforms, num_platforms, i, num_devs, counted, filled,
          num_devices, devs, offset, failures>>

Systems == UNION {[1..n -> 0..MaxDevices] : n \in 0..MaxPlatforms}

\* The d-th device of platform p; what malloc left; and no array at all.
Device(p, d) == <<p, d>>
Garbage      == <<0, 0>>
Null         == <<-1>>

Fails == failures < MaxFailures /\ failures' = failures + 1
Need(necessary) == IF necessary THEN UNCHANGED failures ELSE Fails
-----------------------------------------------------------------------------
(* get_all_platforms.                                                      *)

\* Without platforms, or when the first call fails, *num_platforms is not
\* assigned; when the second one fails, the list is not.
GetPlatforms ==
    /\ pc = "platforms"
    /\ \/ /\ present # << >>
          /\ platforms' = TRUE
          /\ num_platforms' = Len(present)
          /\ UNCHANGED failures
       \/ /\ platforms' = FALSE
          /\ num_platforms' \in IF present = << >> THEN {num_platforms}
                                ELSE {num_platforms, Len(present)}
          /\ Need(present = << >>)
    /\ pc' = "counters"
    /\ UNCHANGED <<present, i, num_devs, counted, filled, num_devices, devs,
                   offset>>
-----------------------------------------------------------------------------
(* get_all_devices.                                                        *)

\* The first access to the list: without one, a count left over by the
\* caller leads into a null pointer.
MallocCounters ==
    /\ pc = "counters"
    /\ pc' = IF num_platforms > 0 /\ ~platforms THEN "wild" ELSE "count"
    /\ num_devices' = 0
    /\ i' = 1
    /\ UNCHANGED <<present, platforms, num_platforms, num_devs, counted,
                   filled, devs, offset, failures>>

CountOf(n, succeeds) == IF succeeds THEN {present[n]} ELSE UInt

Count ==
    /\ pc = "count" /\ i <= num_platforms
    /\ \E succeeds \in BOOLEAN :
         /\ succeeds => present[i] > 0
         /\ Need(succeeds \/ present[i] = 0)
         /\ counted' = IF succeeds THEN counted \cup {i} ELSE counted
         /\ \E n \in CountOf(i, succeeds) :
              /\ num_devs' = Append(num_devs, n)
              /\ num_devices' = (num_devices + n) % UIntMod
    /\ i' = i + 1
    /\ UNCHANGED <<present, pc, platforms, num_platforms, filled, devs, offset>>

Allocate ==
    /\ pc = "count" /\ i > num_platforms
    /\ \/ devs' = [k \in 0..(num_devices - 1) |-> Garbage]
       \/ num_devices > SureAlloc /\ devs' = Null
    /\ i' = 1
    /\ pc' = "fill"
    /\ UNCHANGED <<present, platforms, num_platforms, num_devs, counted,
                   filled, num_devices, offset, failures>>

\* The second call must fail for a platform without devices, a count of 0,
\* or no array.
MustFail == present[i] = 0 \/ num_devs[i] = 0 \/ devs = Null

\* Mutant: the part of a platform that failed is skipped in the array.
FillFailureSkips ==
    /\ pc = "fill" /\ i <= num_platforms
    /\ Need(MustFail)
    /\ num_devices' = (num_devices - num_devs[i]) % UIntMod
    /\ offset' = offset + num_devs[i]
    /\ i' = i + 1
    /\ UNCHANGED <<present, pc, platforms, num_platforms, num_devs, counted,
                   filled, devs>>

FillFailure ==
    /\ pc = "fill" /\ i <= num_platforms
    /\ Need(MustFail)
    /\ num_devices' = (num_devices - num_devs[i]) % UIntMod
    /\ i' = i + 1
    /\ UNCHANGED <<present, pc, platforms, num_platforms, num_devs, counted,
                   filled, devs, offset>>

\* The platform stores as many of its devices as the counter asks for; a
\* store behind the end of the array is outside of it.
FillSuccess ==
    /\ pc = "fill" /\ i <= num_platforms
    /\ ~MustFail
    /\ LET asked == IF num_devs[i] < present[i] THEN num_devs[i] ELSE present[i]
           part  == offset..(offset + asked - 1)
       IN  IF part \subseteq DOMAIN devs
           THEN /\ devs' = [k \in DOMAIN devs |->
                              IF k \in part THEN Device(i, k - offset + 1)
                                            ELSE devs[k]]
                /\ UNCHANGED pc
           ELSE pc' = "wild" /\ UNCHANGED devs
    /\ offset' = (offset + num_devs[i]) % UIntMod
    /\ filled' = filled \cup {i}
    /\ i' = i + 1
    /\ UNCHANGED <<present, platforms, num_platforms, num_devs, counted,
                   num_devices, failures>>

Return ==
    /\ pc = "fill" /\ i > num_platforms
    /\ pc' = "done"
    /\ UNCHANGED <<present, platforms, num_platforms, i, num_devs, counted,
                   filled, num_devices, devs, offset, failures>>
-----------------------------------------------------------------------------
\* Most mains set num_platforms to 0; those of buffer_bandwidth and
\* mem_streaming leave it uninitialised.
Init ==
    /\ present \in Systems
    /\ num_platforms \in 0..MaxPlatforms
    /\ pc = "platforms" /\ platforms = FALSE /\ i = 1
    /\ num_devs = << >> /\ counted = {} /\ filled = {} /\ num_devices = 0
    /\ devs = Null /\ offset = 0 /\ failures = 0

Over == pc \in {"done", "wild"}

Next == \/ GetPlatforms \/ MallocCounters \/ Count \/ Allocate
        \/ FillFailure \/ FillSuccess \/ Return
        \/ Over /\ UNCHANGED vars

Spec == Init /\ [][Next]_vars
-----------------------------------------------------------------------------
(* Properties.                                                             *)

\* The count call succeeded on every platform that has devices.
Counted == {p \in DOMAIN present : present[p] > 0} \subseteq counted

\* The devices of the platforms that delivered theirs, and those of them that
\* come before one: on an earlier platform, or earlier on its own.
Delivered == UNION {{Device(p, d) : d \in 1..present[p]} : p \in filled}
DeliveredBefore(x) ==
    {y \in Delivered : y[1] < x[1] \/ (y[1] = x[1] /\ y[2] < x[2])}

\* When every count call on a platform with devices succeeded, the list is
\* that of the devices delivered, in their order, without holes or
\* repetitions, and num_devices is its length: whatever the counters of
\* platforms without devices hold, and whichever platforms fail to deliver.
\* What was counted for those is taken off again, and later platforms take
\* their place.
ListIsExact ==
    pc = "done" /\ platforms /\ Counted =>
      /\ num_devices = Cardinality(Delivered)
      /\ \A x \in Delivered : devs[Cardinality(DeliveredBefore(x))] = x

\* Memory outside the two lists is accessed only after get_all_platforms
\* has delivered no list, with a count that says otherwise, or after a count
\* call has failed.
StaysInBounds ==
    pc = "wild" => ~platforms \/ counted # DOMAIN present

\* "print short info on available devices": as the benchmarks' usage text has
\* it, every device of the system is in the list.
AllDevicesListed ==
    pc = "done" =>
      num_devices = FoldLeft(LAMBDA sum, n : sum + n, 0, present)
=============================================================================
