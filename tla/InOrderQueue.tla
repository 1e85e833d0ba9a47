---------------------------- MODULE InOrderQueue ----------------------------
(***************************************************************************)
(* The OpenCL command queue as buffer_bandwidth.cpp uses it: created with  *)
(* no properties, so the device executes the commands one after the other  *)
(* in the order of their enqueue calls, at a time of its own choosing.     *)
(* The runtime is not part of the repository.                              *)
(*                                                                         *)
(* A command is [src, dst]: the regions of memory it reads and writes.     *)
(* Executing it is one step; a program that never touches a region while a *)
(* command on it is pending cannot tell it from a longer one.              *)
(***************************************************************************)
EXTENDS Naturals, Sequences

CONSTANTS
    Regions,     \* regions of memory, of the host and of the device
    Contents,    \* what a region may hold
    Damaged(_),  \* what the n-th faulty transfer leaves behind
    MaxFaults    \* faulty transfers explored

VARIABLES
    queue,    \* commands accepted and not executed yet, oldest first
    mem,      \* what each region holds
    faults    \* faulty transfers so far

Command == [src: Regions, dst: Regions]

QueueInit(initial) == queue = << >> /\ mem = initial /\ faults = 0

Drained == queue = << >>

Pending(r) == \E i \in 1..Len(queue) : r \in {queue[i].src, queue[i].dst}

\* The two outcomes of the command at the head of the queue.
Transfer ==
    /\ queue # << >>
    /\ queue' = Tail(queue)
    /\ mem' = [mem EXCEPT ![Head(queue).dst] = mem[Head(queue).src]]
    /\ UNCHANGED faults

FaultyTransfer ==
    /\ queue # << >>
    /\ faults < MaxFaults
    /\ faults' = faults + 1
    /\ queue' = Tail(queue)
    /\ mem' = [mem EXCEPT ![Head(queue).dst] = Damaged(faults')]

Execute == Transfer \/ FaultyTransfer
=============================================================================
