----------------------------- MODULE Stopwatch ------------------------------
(***************************************************************************)
(* What a timed measurement of asynchronous commands promises, whatever    *)
(* the queue, the commands and the calls that fail: between two readings   *)
(* of the clock exactly the commands submitted between them execute.  None *)
(* from before is still pending when the clock starts, none from elsewhere *)
(* executes while it runs, and none is pending when the time is read.  A   *)
(* measurement that is abandoned gives no reading.                         *)
(*                                                                         *)
(* BufferBandwidth and MemStreaming implement it, each with a queue and    *)
(* failures of its own.                                                    *)
(***************************************************************************)
EXTENDS Naturals

CONSTANT
    Capacity    \* commands submitted in a measurement, at most

VARIABLES
    phase,      \* "idle", "running", or "read" when there is a reading
    submitted,  \* commands submitted since the clock started
    executed    \* commands executed since then

vars == <<phase, submitted, executed>>

Init == phase = "idle" /\ submitted = 0 /\ executed = 0

Start ==
    /\ phase = "idle" /\ phase' = "running"
    /\ UNCHANGED <<submitted, executed>>

Submit ==
    /\ phase = "running" /\ submitted < Capacity
    /\ submitted' = submitted + 1
    /\ UNCHANGED <<phase, executed>>

Execute ==
    /\ phase = "running" /\ executed < submitted
    /\ executed' = executed + 1
    /\ UNCHANGED <<phase, submitted>>

\* Time is read only when all that was submitted has executed.
Stop ==
    /\ phase = "running" /\ executed = submitted
    /\ phase' = "read"
    /\ UNCHANGED <<submitted, executed>>

\* The reading is used, or the measurement is given up.
Reset ==
    /\ phase \in {"running", "read"}
    /\ phase' = "idle" /\ submitted' = 0 /\ executed' = 0

Next == Start \/ Submit \/ Execute \/ Stop \/ Reset

Spec == Init /\ [][Next]_vars
=============================================================================
