----------------------- MODULE BufferBandwidthProofs ------------------------
(***************************************************************************)
(* Proofs about BufferBandwidth, for every number of sizes, repeats,       *)
(* iterations, failures and faults.  WatchInv counts the transfers of a    *)
(* measurement, and QueueInv says whose regions the pending ones use.      *)
(***************************************************************************)
EXTENDS BufferBandwidth, SequenceTheorems, TLAPS

Pairs == [src: Names \X Int, dst: Names \X Int]

(* While the clock runs, every transfer accepted was executed or is        *)
(* pending, and no iteration had two accepted.                             *)
WatchInv ==
    /\ clock \in BOOLEAN /\ accepted \in Nat /\ moved \in Nat /\ i \in Nat
    /\ queue \in Seq(Pairs)
    /\ size \in Int /\ repeat \in Int
    /\ dir \in Directions
    /\ pc \in {"loop", "mapped"} => clock
    /\ clock => /\ pc \in {"loop", "mapped", "failed"}
                /\ moved + Len(queue) = accepted
                /\ accepted <= Iterations
    /\ pc = "loop" => accepted <= i /\ i <= Iterations
    /\ pc = "mapped" => /\ i < Iterations /\ dir # "d2d"
                        /\ accepted <= (IF dir = "d2h" THEN i + 1 ELSE i)

LEMMA RunType == ASSUME size \in Int, repeat \in Int PROVE Run \in Int
  BY BandwidthAssumption DEF Run

\* An accepted transfer makes the queue longer by one.
LEMMA Enqueued ==
    ASSUME WatchInv, NEW src \in Names, NEW dst \in Names, Enqueue(src, dst)
    PROVE  queue' \in Seq(Pairs) /\ Len(queue') = Len(queue) + 1
<1>1. [src |-> Region(src), dst |-> Region(dst)] \in Pairs
    BY RunType DEF Pairs, Region, WatchInv
<1>2. queue \in Seq(Pairs) BY DEF WatchInv
<1> QED BY <1>1, <1>2, AppendProperties DEF Enqueue

\* An executed one makes it shorter.
LEMMA Executed ==
    ASSUME WatchInv, Q!Execute
    PROVE  /\ queue # << >>
           /\ queue' = Tail(queue)
           /\ queue' \in Seq(Pairs) /\ Len(queue') = Len(queue) - 1
<1>1. queue \in Seq(Pairs) BY DEF WatchInv
<1>2. queue # << >> /\ queue' = Tail(queue)
    BY DEF Q!Execute, Q!Transfer, Q!FaultyTransfer
<1> QED BY <1>1, <1>2, HeadTailProperties

\* A loop of main that goes on begins a run or shuts down.
LEMMA Printed ==
    ASSUME size \in Int, repeat \in Int, NEW STATE sums, PrintResult(sums)
    PROVE  pc' \in {"run", "shutdown"} /\ size' \in Int /\ repeat' \in Int
  BY BandwidthAssumption DEF PrintResult

LEMMA Turned ==
    ASSUME size \in Int, repeat \in Int, NEW STATE sums, NextRepeat(sums)
    PROVE  pc' \in {"run", "shutdown"} /\ size' \in Int /\ repeat' \in Int
<1>1. CASE repeat < Repeats
    BY <1>1 DEF NextRepeat
<1>2. CASE ~(repeat < Repeats)
    BY <1>2, Printed DEF NextRepeat
<1> QED BY <1>1, <1>2

LEMMA Ends == Source \in Names /\ Target \in Names
  BY DEF Source, Target, Names

LEMMA WatchInit == Init => WatchInv
<1> SUFFICES ASSUME Init PROVE WatchInv
    OBVIOUS
<1>1. queue \in Seq(Pairs)
    BY EmptySeq DEF Init, Q!QueueInit
<1>2. /\ pc = "prepare" /\ dir = "h2d" /\ size = 1 /\ repeat = 1
      /\ clock = FALSE /\ accepted = 0 /\ moved = 0 /\ i = 0
    BY DEF Init
<1>3. ~clock /\ clock \in BOOLEAN
    BY <1>2, Zenon
<1>4. /\ accepted \in Nat /\ moved \in Nat /\ i \in Nat
      /\ size \in Int /\ repeat \in Int /\ dir \in Directions
      /\ pc \notin {"loop", "mapped"}
    BY <1>2 DEF Directions
<1> QED BY <1>1, <1>3, <1>4, Zenon DEF WatchInv

LEMMA WatchStep == WatchInv /\ [Next]_vars => WatchInv'
<1> SUFFICES ASSUME WatchInv, [Next]_vars PROVE WatchInv'
    OBVIOUS
<1> USE BandwidthAssumption
<1> USE DEF mode, position, window, report
<1>1. CASE BeginRun \/ CreateBuffers \/ Stage \/ PrepareBenchmark \/ Shutdown
    BY <1>1, SMTT(30) DEF WatchInv, BeginRun, CreateBuffers, Stage, PrepareBenchmark, Shutdown, ReturnError, HostStore,
       Directions
<1>2. CASE Preload
    BY <1>2, Enqueued DEF WatchInv, Preload, ReturnError, Names
<1>3. CASE StartClock
    BY <1>3 DEF WatchInv, StartClock, Q!Drained
<1>4. CASE EnqueueTransfer
    BY <1>4, Enqueued, Ends DEF WatchInv, EnqueueTransfer, ReturnError
<1>5. CASE MapBuffer
    BY <1>5, Enqueued DEF WatchInv, MapBuffer, ReturnError, Names
<1>6. CASE CopyMapped
    BY <1>6, Enqueued DEF WatchInv, CopyMapped, Names
<1>7. CASE StopClock
    BY <1>7 DEF WatchInv, StopClock
<1>8. CASE ReadBack
    BY <1>8, Enqueued DEF WatchInv, ReadBack, Names
<1>9. CASE Compare
    BY <1>9 DEF WatchInv, Compare, Directions
<1>10. CASE Succeeded \/ Failed
  <2>1. pc' \in {"run", "shutdown"} /\ size' \in Int /\ repeat' \in Int
      BY <1>10, Turned, Printed DEF WatchInv, Succeeded, Failed
  <2>2. /\ clock' = FALSE
        /\ UNCHANGED <<accepted, moved, i, queue, dir>>
      BY <1>10 DEF WatchInv, Succeeded, Failed
  <2> QED BY <2>1, <2>2 DEF WatchInv
<1>11. CASE Device
    BY <1>11, Executed, SMTT(30) DEF WatchInv, Device
<1>12. CASE UNCHANGED vars
    BY <1>12 DEF WatchInv, vars
<1> QED BY <1>1, <1>2, <1>3, <1>4, <1>5, <1>6, <1>7, <1>8, <1>9, <1>10, <1>11, <1>12
        DEF Next, Host

\* While the clock runs, every transfer accepted was executed or is pending.
THEOREM WatchInvariant == Spec => []WatchInv
  BY WatchInit, WatchStep, PTL DEF Spec
-----------------------------------------------------------------------------
(* The refinement.                                                         *)

LEMMA StopwatchInit == Init => Watch!Init
  BY DEF Init, Watch!Init

LEMMA StopwatchStep ==
    WatchInv /\ [Next]_vars => [Watch!Next]_(Watch!vars)
<1> SUFFICES ASSUME WatchInv, [Next]_vars
             PROVE  [Watch!Next]_(Watch!vars)
    OBVIOUS
<1> USE BandwidthAssumption
<1> USE DEF mode, position, window, report
<1>1. CASE \/ BeginRun \/ CreateBuffers \/ Stage \/ PrepareBenchmark
           \/ Shutdown \/ Preload \/ Compare
  <2>1. pc \notin {"loop", "mapped", "readback"} /\ pc' # "readback"
    <3>1. CASE BeginRun \/ PrepareBenchmark \/ Shutdown
        BY <3>1 DEF BeginRun, PrepareBenchmark, Shutdown
    <3>2. CASE CreateBuffers \/ Stage
        BY <3>2 DEF CreateBuffers, Stage, ReturnError
    <3>3. CASE Preload
        BY <3>3 DEF Preload, ReturnError
    <3>4. CASE Compare
        BY <3>4 DEF Compare, WatchInv, Directions
    <3> QED BY <1>1, <3>1, <3>2, <3>3, <3>4
  <2>2. UNCHANGED <<clock, accepted, moved>>
      BY <1>1 DEF BeginRun, CreateBuffers, Stage, PrepareBenchmark, Shutdown,
         Preload, Compare
  <2> QED BY <2>1, <2>2 DEF Watch!vars
<1>2. CASE Succeeded
  <2>1. pc' \in {"run", "shutdown"}
      BY <1>2, Turned DEF WatchInv, Succeeded
  <2> QED BY <1>2, <2>1 DEF WatchInv, Succeeded, Watch!vars
<1>3. CASE StartClock
    BY <1>3 DEF WatchInv, StartClock, Watch!Next, Watch!Start
<1>4. CASE EnqueueTransfer
    BY <1>4 DEF WatchInv, EnqueueTransfer, ReturnError, Watch!Next, Watch!Submit, Watch!vars
<1>5. CASE MapBuffer
    BY <1>5 DEF WatchInv, MapBuffer, ReturnError, Watch!Next, Watch!Submit, Watch!vars
<1>6. CASE CopyMapped
    BY <1>6 DEF WatchInv, CopyMapped, Watch!Next, Watch!Submit, Watch!vars
<1>7. CASE StopClock
    BY <1>7 DEF WatchInv, StopClock, Q!Drained, Watch!Next, Watch!Stop
<1>8. CASE ReadBack
    BY <1>8 DEF WatchInv, ReadBack, Watch!Next, Watch!Reset
<1>10. CASE Failed
  <2>1. pc' \in {"run", "shutdown"}
      BY <1>10, Turned, Printed DEF WatchInv, Failed
  <2> QED BY <1>10, <2>1 DEF WatchInv, Failed, Watch!Next, Watch!Reset, Watch!vars
<1>11. CASE Device
    BY <1>11, Executed DEF WatchInv, Device, Watch!Next, Watch!Execute, Watch!vars
<1>12. CASE UNCHANGED vars
    BY <1>12 DEF vars, Watch!vars
<1> QED BY <1>1, <1>2, <1>3, <1>4, <1>5, <1>6, <1>7, <1>8, <1>10, <1>11, <1>12
        DEF Next, Host

\* The clock of a measurement covers exactly its own transfers.
THEOREM MeasurementsAreTimed == Spec => ImplementsStopwatch
<1>1. Spec => Watch!Init /\ [][Watch!Next]_(Watch!vars)
    BY WatchInvariant, StopwatchInit, StopwatchStep, PTL DEF Spec
<1> QED BY <1>1 DEF ImplementsStopwatch, Watch!Spec
-----------------------------------------------------------------------------
(* Which regions the pending transfers use.                                *)

Active == {"create", "preload", "stage", "start", "loop", "mapped",
           "readback", "compare"}

(* Pending transfers use regions of this run or of earlier ones, before    *)
(* the buffers are created only of earlier ones.  Data they refer to is    *)
(* allocated.                                                              *)
QueueInv ==
    /\ repeat \in 1..Repeats
    /\ DOMAIN mem = Regions
    /\ mem = [r \in DOMAIN mem |-> mem[r]]
    /\ \A name \in Names, n \in Int :
          Q!Pending(<<name, n>>) =>
            /\ n <= Run
            /\ pc \in {"run", "create"} => n < Run
            /\ name = "data" => n \in live
    /\ pc \in {"prepare", "readback", "ran"} => queue = << >>
    /\ pc \in Active => Run \in live

LEMMA NothingPending == ASSUME queue = << >>, NEW r PROVE ~Q!Pending(r)
  BY DEF Q!Pending

\* An accepted transfer adds its own regions to those in use.
LEMMA EnqueuedRegions ==
    ASSUME WatchInv, NEW src \in Names, NEW dst \in Names, Enqueue(src, dst),
           NEW r, Q!Pending(r)'
    PROVE  Q!Pending(r) \/ r \in {Region(src), Region(dst)}
<1> DEFINE new == [src |-> Region(src), dst |-> Region(dst)]
<1>1. new \in Pairs /\ queue \in Seq(Pairs)
    BY RunType DEF Pairs, Region, WatchInv
<1>2. queue' = Append(queue, new)
    BY DEF Enqueue
<1> HIDE DEF new
<1>3. PICK j \in 1..Len(queue') : r \in {queue'[j].src, queue'[j].dst}
    BY DEF Q!Pending
<1>4. CASE j = Len(queue) + 1
    BY <1>1, <1>2, <1>3, <1>4, AppendProperties DEF new
<1>5. CASE j # Len(queue) + 1
  <2>1. j \in 1..Len(queue) /\ queue'[j] = queue[j]
      BY <1>1, <1>2, <1>5, AppendProperties
  <2> QED BY <1>3, <2>1 DEF Q!Pending
<1> QED BY <1>4, <1>5

\* An executed one adds none.
LEMMA ExecutedRegions ==
    ASSUME WatchInv, Q!Execute, NEW r, Q!Pending(r)'
    PROVE  Q!Pending(r)
<1>1. queue \in Seq(Pairs) /\ queue # << >> /\ queue' = Tail(queue)
    BY Executed DEF WatchInv
<1>2. PICK j \in 1..Len(queue') : r \in {queue'[j].src, queue'[j].dst}
    BY DEF Q!Pending
<1>3. j + 1 \in 1..Len(queue) /\ queue'[j] = queue[j + 1]
    BY <1>1, <1>2, HeadTailProperties
<1> QED BY <1>2, <1>3 DEF Q!Pending

\* Runs are numbered in the order in which they are made.
LEMMA NextRunPrinted ==
    ASSUME WatchInv, QueueInv, NEW STATE sums, PrintResult(sums)
    PROVE  Run' \in Int /\ Run' > Run /\ repeat' \in 1..Repeats
<1>1. size' = size + 1 /\ repeat' = 1
    BY DEF PrintResult
<1>2. Repeats \in Nat \ {0} /\ size \in Int /\ repeat \in 1..Repeats
    BY BandwidthAssumption DEF WatchInv, QueueInv
<1>3. ((size + 1) - 1) * Repeats = ((size - 1) * Repeats) + Repeats
    BY <1>2
<1>4. (size - 1) * Repeats \in Int
    BY <1>2
<1> QED BY <1>1, <1>2, <1>3, <1>4 DEF Run

LEMMA NextRun ==
    ASSUME WatchInv, QueueInv, NEW STATE sums, NextRepeat(sums)
    PROVE  Run' \in Int /\ Run' > Run /\ repeat' \in 1..Repeats
<1>1. CASE repeat < Repeats
  <2>1. size' = size /\ repeat' = repeat + 1
      BY <1>1 DEF NextRepeat
  <2>2. Repeats \in Nat \ {0} /\ size \in Int /\ repeat \in 1..Repeats
      BY BandwidthAssumption DEF WatchInv, QueueInv
  <2>3. (size - 1) * Repeats \in Int
      BY <2>2
  <2> QED BY <1>1, <2>1, <2>2, <2>3 DEF Run
<1>2. CASE ~(repeat < Repeats)
    BY <1>2, NextRunPrinted DEF NextRepeat
<1> QED BY <1>1, <1>2

\* A store of the host leaves the memory defined on the same regions.
LEMMA Stored ==
    ASSUME QueueInv, NEW STATE name, NEW STATE content, HostStore(name, content)
    PROVE  /\ DOMAIN mem' = Regions
           /\ mem' = [r \in DOMAIN mem' |-> mem'[r]]
           /\ \A r \in Regions : r # Region(name) => mem'[r] = mem[r]
  BY DEF QueueInv, HostStore

LEMMA SameRun == UNCHANGED <<size, repeat>> => Run' = Run
  BY DEF Run

LEMMA SamePending == ASSUME UNCHANGED queue, NEW r PROVE Q!Pending(r)' <=> Q!Pending(r)
  BY DEF Q!Pending

LEMMA QueueInit == Init => QueueInv
<1> SUFFICES ASSUME Init PROVE QueueInv
    OBVIOUS
<1>1. /\ queue = << >>
      /\ mem = [r \in Regions |-> Junk(r[1])]
    BY DEF Init, Q!QueueInit
<1>2. pc = "prepare" /\ repeat = 1
    BY DEF Init
<1>3. \A name \in Names, n \in Int : ~Q!Pending(<<name, n>>)
    BY <1>1, NothingPending
<1> QED BY <1>1, <1>2, <1>3, BandwidthAssumption DEF QueueInv, Active

\* The memory part of the invariant, for every step.
LEMMA MemoryStep ==
    WatchInv /\ QueueInv /\ [Next]_vars =>
      DOMAIN mem' = Regions /\ mem' = [r \in DOMAIN mem' |-> mem'[r]]
<1> SUFFICES ASSUME WatchInv, QueueInv, [Next]_vars
             PROVE  DOMAIN mem' = Regions /\ mem' = [r \in DOMAIN mem' |-> mem'[r]]
    OBVIOUS
<1> USE DEF mode, position, window, report
<1>1. CASE UNCHANGED mem
    BY <1>1 DEF QueueInv
<1>2. CASE BeginRun
    BY <1>2, Stored DEF BeginRun
<1>3. CASE CreateBuffers
    BY <1>3 DEF CreateBuffers, QueueInv
<1>4. CASE Stage
    BY <1>4, Stored DEF Stage, QueueInv
<1>5. CASE CopyMapped
    BY <1>5, Stored DEF CopyMapped
<1>6. CASE ReadBack
    BY <1>6, Stored DEF ReadBack
<1>7. CASE Device
  <2>1. \E src, dst : mem' = [mem EXCEPT ![dst] = src]
      BY <1>7 DEF Device, Q!Execute, Q!Transfer, Q!FaultyTransfer
  <2> QED BY <2>1 DEF QueueInv
<1>8. CASE \/ Preload \/ StartClock \/ EnqueueTransfer \/ MapBuffer
           \/ StopClock \/ Compare \/ PrepareBenchmark \/ Succeeded
           \/ Failed \/ Shutdown \/ UNCHANGED vars
  <2>1. UNCHANGED mem
      BY <1>8 DEF Preload, StartClock, EnqueueTransfer, MapBuffer, StopClock,
         Compare, PrepareBenchmark, Succeeded, Failed, Shutdown, vars
  <2> QED BY <1>1, <2>1
<1> QED BY <1>2, <1>3, <1>4, <1>5, <1>6, <1>7, <1>8 DEF Next, Host

\* What a step does to the queue of an unchanged run: nothing, or it accepts
\* a transfer of the run.
Accepts == \E src \in Names, dst \in Names : Enqueue(src, dst)

LEMMA QueueStep == WatchInv /\ QueueInv /\ [Next]_vars => QueueInv'
<1> SUFFICES ASSUME WatchInv, QueueInv, [Next]_vars PROVE QueueInv'
    OBVIOUS
<1> USE DEF mode, position, window, report
<1>0. DOMAIN mem' = Regions /\ mem' = [r \in DOMAIN mem' |-> mem'[r]]
    BY MemoryStep
<1>1. ASSUME UNCHANGED <<size, repeat, queue>>, live \subseteq live',
             pc' \in {"run", "create"} =>
                queue = << >> \/ pc \in {"run", "create"},
             pc' \in {"prepare", "readback", "ran"} => queue = << >>,
             pc' \in Active => Run \in live'
      PROVE  QueueInv'
  <2>1. Run' = Run
      BY <1>1, SameRun
  <2>2. \A name \in Names, n \in Int :
          Q!Pending(<<name, n>>)' => Q!Pending(<<name, n>>) /\ queue # << >>
      BY <1>1, SamePending, NothingPending
  <2> QED BY <1>0, <1>1, <2>1, <2>2 DEF QueueInv
<1>2. ASSUME UNCHANGED <<size, repeat, live>>, Accepts,
             pc \in Active, pc' \in Active,
             pc' \notin {"create", "readback"}
      PROVE  QueueInv'
  <2>1. Run' = Run /\ Run \in Int
      BY <1>2, SameRun, RunType DEF WatchInv
  <2>2. PICK src \in Names, dst \in Names : Enqueue(src, dst)
      BY <1>2 DEF Accepts
  <2>3. \A name \in Names, n \in Int :
          Q!Pending(<<name, n>>)' => Q!Pending(<<name, n>>) \/ n = Run
      BY <2>2, EnqueuedRegions DEF Region
  <2>4. pc' \notin {"run", "create", "prepare", "readback", "ran"}
      BY <1>2 DEF Active
  <2> QED BY <1>0, <1>2, <2>1, <2>3, <2>4 DEF QueueInv
<1>3. ASSUME Run' \in Int, Run' > Run, repeat' \in 1..Repeats, UNCHANGED queue,
             live' = live \/ (queue = << >> /\ live' = live \ {Run}),
             pc' \in {"run", "shutdown"}
      PROVE  QueueInv'
  <2>1. Run \in Int
      BY RunType DEF WatchInv
  <2>2. \A name \in Names, n \in Int :
          Q!Pending(<<name, n>>)' => Q!Pending(<<name, n>>) /\ queue # << >>
      BY <1>3, SamePending, NothingPending
  <2> QED BY <1>0, <1>3, <2>1, <2>2 DEF QueueInv, Active
<1>4. CASE BeginRun
  <2>1. /\ UNCHANGED <<size, repeat, queue>> /\ live' = live \cup {Run}
        /\ pc = "run" /\ pc' = "create"
      BY <1>4 DEF BeginRun
  <2> QED BY <1>1, <2>1
<1>5. CASE CreateBuffers \/ Stage
  <2>1. /\ UNCHANGED <<size, repeat, queue, live>> /\ pc \in Active
        /\ pc' \in {"stage", "preload", "start", "failed"}
      BY <1>5 DEF CreateBuffers, Stage, ReturnError, Active
  <2>2. Run \in live
      BY <2>1 DEF QueueInv
  <2> QED BY <1>1, <2>1, <2>2
<1>6. CASE Preload
  <2>1. /\ UNCHANGED <<size, repeat, live>> /\ pc \in Active
        /\ \/ pc' = "stage" /\ Accepts
           \/ pc' \in {"stage", "failed"} /\ UNCHANGED queue
      BY <1>6 DEF Preload, ReturnError, Active, Accepts, Names
  <2>2. Run \in live
      BY <2>1 DEF QueueInv
  <2> QED BY <1>1, <1>2, <2>1, <2>2 DEF Active
<1>7. CASE StartClock \/ StopClock
  <2>1. /\ UNCHANGED <<size, repeat, queue, live>> /\ pc \in Active
        /\ pc' \in {"loop", "readback"} /\ queue = << >>
      BY <1>7 DEF StartClock, StopClock, Q!Drained, Active
  <2>2. Run \in live
      BY <2>1 DEF QueueInv
  <2> QED BY <1>1, <2>1, <2>2
<1>8. CASE EnqueueTransfer
  <2>1. /\ UNCHANGED <<size, repeat, live>> /\ pc = "loop"
        /\ \/ pc' = pc /\ Accepts
           \/ pc' \in {"loop", "failed"} /\ UNCHANGED queue
      BY <1>8, Ends DEF EnqueueTransfer, ReturnError, Accepts
  <2>2. Run \in live
      BY <2>1 DEF QueueInv, Active
  <2> QED BY <1>1, <1>2, <2>1, <2>2 DEF Active
<1>9. CASE MapBuffer
  <2>1. /\ UNCHANGED <<size, repeat, live>> /\ pc = "loop"
        /\ \/ pc' = "mapped" /\ Accepts
           \/ pc' \in {"loop", "mapped", "failed"} /\ UNCHANGED queue
      BY <1>9 DEF MapBuffer, ReturnError, Accepts, Names
  <2>2. Run \in live
      BY <2>1 DEF QueueInv, Active
  <2> QED BY <1>1, <1>2, <2>1, <2>2 DEF Active
<1>10. CASE CopyMapped
  <2>1. /\ UNCHANGED <<size, repeat, live>> /\ pc = "mapped" /\ pc' = "loop"
        /\ Accepts \/ UNCHANGED queue
      BY <1>10 DEF CopyMapped, Accepts, Names
  <2>2. Run \in live
      BY <2>1 DEF QueueInv, Active
  <2> QED BY <1>1, <1>2, <2>1, <2>2 DEF Active
<1>11. CASE ReadBack
  <2>1. /\ UNCHANGED <<size, repeat, live>>
        /\ pc = "readback" /\ pc' = "compare"
        /\ Accepts \/ UNCHANGED queue
      BY <1>11 DEF ReadBack, Accepts, Names
  <2>2. Run \in live
      BY <2>1 DEF QueueInv, Active
  <2> QED BY <1>1, <1>2, <2>1, <2>2 DEF Active
<1>12. CASE Compare
  <2>1. /\ UNCHANGED <<size, repeat, queue, live>> /\ pc = "compare"
        /\ queue = << >>
      BY <1>12 DEF Compare, Q!Drained
  <2>2. Run \in live
      BY <2>1 DEF QueueInv, Active
  <2> QED BY <1>1, <2>1, <2>2
<1>13. CASE PrepareBenchmark \/ Shutdown
  <2>1. /\ UNCHANGED <<size, repeat, queue, live>>
        /\ \/ pc = "prepare" /\ pc' = "run"
           \/ pc' = "exit"
      BY <1>13 DEF PrepareBenchmark, Shutdown
  <2>2. pc = "prepare" => queue = << >>
      BY DEF QueueInv
  <2> QED BY <1>1, <2>1, <2>2 DEF Active
<1>14. CASE Succeeded
  <2>1. queue = << >> /\ UNCHANGED queue /\ live' = live \ {Run}
      BY <1>14 DEF Succeeded, QueueInv
  <2>2. pc' \in {"run", "shutdown"}
      BY <1>14, Turned DEF Succeeded, WatchInv
  <2>3. Run' \in Int /\ Run' > Run /\ repeat' \in 1..Repeats
      BY <1>14, NextRun DEF Succeeded
  <2> QED BY <1>3, <2>1, <2>2, <2>3
<1>15. CASE Failed
  <2>1. UNCHANGED <<queue, live>>
      BY <1>15 DEF Failed
  <2>2. pc' \in {"run", "shutdown"}
      BY <1>15, Turned, Printed DEF Failed, WatchInv
  <2>3. Run' \in Int /\ Run' > Run /\ repeat' \in 1..Repeats
      BY <1>15, NextRun, NextRunPrinted DEF Failed
  <2> QED BY <1>3, <2>1, <2>2, <2>3
<1>16. CASE Device
  <2>1. UNCHANGED <<size, repeat, live, pc>> /\ Q!Execute
      BY <1>16 DEF Device
  <2>2. Run' = Run /\ queue # << >>
      BY <2>1, SameRun, Executed
  <2>3. \A name \in Names, n \in Int :
          Q!Pending(<<name, n>>)' => Q!Pending(<<name, n>>)
      BY <2>1, ExecutedRegions
  <2> QED BY <1>0, <2>1, <2>2, <2>3 DEF QueueInv
<1>17. CASE UNCHANGED vars
  <2>1. UNCHANGED <<size, repeat, queue, live, pc>>
      BY <1>17 DEF vars
  <2> QED BY <1>1, <2>1 DEF QueueInv
<1> QED BY <1>4, <1>5, <1>6, <1>7, <1>8, <1>9, <1>10, <1>11, <1>12, <1>13,
           <1>14, <1>15, <1>16, <1>17 DEF Next, Host

THEOREM QueueInvariant == Spec => [](WatchInv /\ QueueInv)
<1>1. Init => WatchInv /\ QueueInv
    BY WatchInit, QueueInit
<1>2. WatchInv /\ QueueInv /\ [Next]_vars => (WatchInv /\ QueueInv)'
    BY WatchStep, QueueStep
<1> QED BY <1>1, <1>2, PTL DEF Spec

\* No transfer that is still pending refers to a data array that was freed,
\* whatever fails and whenever the device executes what it was given.
THEOREM DataOutlives == Spec => []DataOutlivesCommands
<1>1. QueueInv => DataOutlivesCommands
  <2>1. Runs \subseteq Int /\ "data" \in Names
      BY BandwidthAssumption DEF Runs, Names
  <2> QED BY <2>1 DEF QueueInv, DataOutlivesCommands
<1> QED BY <1>1, QueueInvariant, PTL
-----------------------------------------------------------------------------
(* Races.                                                                  *)

Alone ==
    /\ \A r \in Regions : mem'[r] # mem[r] => ~Q!Pending(r)
    /\ pc \in {"mapped", "compare"} =>
         ~Q!Pending(Region("data")) /\ ~Q!Pending(Region("map"))
           /\ ~Q!Pending(Region("check"))

\* Before the buffers are created, no pending transfer is of this run.
LEMMA RunIsFresh ==
    ASSUME WatchInv, QueueInv, pc \in {"run", "create"}, NEW name \in Names
    PROVE  ~Q!Pending(Region(name))
  BY RunType DEF WatchInv, QueueInv, Region

LEMMA HostIsAlone == WatchInv /\ QueueInv /\ Host => Alone
<1> SUFFICES ASSUME WatchInv, QueueInv, Host PROVE Alone
    OBVIOUS
<1> USE DEF mode, position, window, report
<1>1. CASE queue = << >>
    BY <1>1, NothingPending DEF Alone
<1>2. ASSUME UNCHANGED mem, pc \notin {"mapped", "compare"} PROVE Alone
    BY <1>2 DEF Alone
<1>3. CASE BeginRun
  <2>1. pc = "run" /\ HostStore("data", Random(Run)) /\ "data" \in Names
      BY <1>3 DEF BeginRun, Names
  <2>2. \A r \in Regions : r # Region("data") => mem'[r] = mem[r]
      BY <2>1, Stored
  <2> QED BY <2>1, <2>2, RunIsFresh DEF Alone
<1>4. CASE CreateBuffers
  <2>1. pc = "create" /\ "dmem" \in Names /\ "dst" \in Names
      BY <1>4 DEF CreateBuffers, Names
  <2>2. \A r \in Regions : r \notin {Region("dmem"), Region("dst")} =>
                              mem'[r] = mem[r]
      BY <1>4 DEF CreateBuffers, QueueInv
  <2> QED BY <2>1, <2>2, RunIsFresh DEF Alone
<1>5. CASE Stage
  <2>1. queue = << >> \/ UNCHANGED mem
      BY <1>5 DEF Stage, Q!Drained
  <2> QED BY <1>1, <1>2, <1>5, <2>1 DEF Stage
<1>6. CASE CopyMapped \/ Compare \/ StartClock \/ StopClock
  <2>1. queue = << >>
      BY <1>6 DEF CopyMapped, Compare, StartClock, StopClock, Q!Drained
  <2> QED BY <1>1, <2>1
<1>7. CASE ReadBack \/ Succeeded \/ PrepareBenchmark
  <2>1. queue = << >>
      BY <1>7 DEF ReadBack, Succeeded, PrepareBenchmark, QueueInv
  <2> QED BY <1>1, <2>1
<1>8. CASE Preload \/ EnqueueTransfer \/ MapBuffer \/ Failed \/ Shutdown
  <2>1. UNCHANGED mem /\ pc \notin {"mapped", "compare"}
      BY <1>8 DEF Preload, EnqueueTransfer, MapBuffer, Failed, Shutdown
  <2> QED BY <1>2, <2>1
<1> QED BY <1>3, <1>4, <1>5, <1>6, <1>7, <1>8 DEF Host

\* The host never touches memory the device may be reading or writing, with
\* any number of transfers pending, those failed runs have left behind included.
THEOREM HostAndDeviceApart == Spec => NoRace
<1>1. WatchInv /\ QueueInv /\ [Next]_vars => [Host => Alone]_vars
    BY HostIsAlone
<1>2. Spec => [][Host => Alone]_vars
    BY <1>1, QueueInvariant, PTL DEF Spec
<1> QED BY <1>2 DEF NoRace, Alone
-----------------------------------------------------------------------------
(* Transfers that were not made.                                           *)

\* Where fewer transfers than asked for are to be expected.
Excused(d) == failures > 0 /\ (d = "d2d" \/ mapped)

\* The directions of this run that have been measured.
Measured ==
    {d \in Directions :
        \/ d = "h2d" /\ dir # "h2d"
        \/ d = "d2h" /\ dir = "d2d"
        \/ d = dir /\ pc \in {"readback", "compare", "ran"}}

(* A call that failed is counted, and a transfer that was not accepted, in *)
(* the iterations so far or in a measurement that was made, is excused.    *)
ShortInv ==
    /\ failures \in Nat
    /\ ready \/ pc = "prepare" \/ failures > 0
    /\ performed \in [Directions -> Int]
    /\ pc = "loop" => accepted = i \/ Excused(dir)
    /\ pc = "mapped" => /\ mapped
                        /\ \/ accepted = (IF dir = "d2h" THEN i + 1 ELSE i)
                           \/ failures > 0
    /\ pc = "ran" => dir = "d2d"
    /\ pc \in Active \cup {"ran"} =>
         \A d \in Measured : performed[d] = Iterations \/ Excused(d)

LEMMA ShortInit == Init => ShortInv
<1> SUFFICES ASSUME Init PROVE ShortInv
    OBVIOUS
<1>1. pc = "prepare" /\ performed = [d \in Directions |-> 0] /\ failures = 0
    BY DEF Init
<1> QED BY <1>1 DEF ShortInv, Active

\* A call that fails is counted, or was bound to fail.
LEMMA FailureCounted ==
    ASSUME ShortInv, pc # "prepare", Fails
    PROVE  failures' \in Nat /\ failures' > 0
  BY DEF ShortInv, Fails

LEMMA FailuresGrow ==
    ASSUME failures \in Nat, Fails \/ Succeeds
    PROVE  failures' \in Nat /\ failures' >= failures
  BY DEF Fails, Succeeds

\* Failures are only ever counted, and the options stay as they are.
LEMMA FailuresStep ==
    ASSUME ShortInv, [Next]_vars
    PROVE  /\ failures' \in Nat /\ failures' >= failures
           /\ mapped' = mapped
           /\ ready' = ready \/ pc = "prepare"
<1> USE DEF mode, position, window, report
<1>0. failures \in Nat
    BY DEF ShortInv
<1>1. CASE UNCHANGED <<mapped, ready>> /\ (UNCHANGED failures \/ Fails \/ Succeeds)
    BY <1>0, <1>1, FailuresGrow
<1>2. CASE CreateBuffers \/ Preload \/ Stage \/ ReadBack
    BY <1>1, <1>2 DEF CreateBuffers, Preload, Stage, ReadBack
<1>3. CASE EnqueueTransfer \/ MapBuffer \/ CopyMapped
    BY <1>1, <1>3 DEF EnqueueTransfer, MapBuffer, CopyMapped
<1>4. CASE \/ BeginRun \/ StartClock \/ StopClock \/ Compare \/ Succeeded
           \/ Failed \/ Shutdown \/ Device \/ UNCHANGED vars
    BY <1>1, <1>4 DEF BeginRun, StartClock, StopClock, Compare, Succeeded,
       Failed, Shutdown, Device, vars
<1>5. CASE PrepareBenchmark
    BY <1>0, <1>5 DEF PrepareBenchmark
<1> QED BY <1>2, <1>3, <1>4, <1>5 DEF Next, Host

LEMMA ShortStep == WatchInv /\ ShortInv /\ [Next]_vars => ShortInv'
<1> SUFFICES ASSUME WatchInv, ShortInv, [Next]_vars PROVE ShortInv'
    OBVIOUS
<1> USE DEF mode, position, window, report
<1>0. /\ failures' \in Nat /\ failures' >= failures /\ failures \in Nat
      /\ mapped' = mapped
      /\ ready' = ready \/ pc = "prepare"
    BY FailuresStep DEF ShortInv
<1>a. \A d : Excused(d) => Excused(d)'
    BY <1>0 DEF Excused
<1>b. ASSUME UNCHANGED <<performed, dir>>, pc # "prepare",
             pc' \in Active \cup {"ran"} => pc \in Active \cup {"ran"},
             pc' \in {"readback", "compare", "ran"} =>
                pc \in {"readback", "compare", "ran"},
             pc' = "ran" => pc = "ran",
             pc' = "loop" => accepted' = i' \/ Excused(dir)',
             pc' = "mapped" =>
                /\ mapped
                /\ \/ accepted' = (IF dir = "d2h" THEN i' + 1 ELSE i')
                   \/ failures' > 0
      PROVE  ShortInv'
  <2>1. /\ ready' \/ failures' > 0
        /\ performed' \in [Directions -> Int]
      BY <1>0, <1>b DEF ShortInv
  <2>2. \A d \in Measured' : d \in Measured
      BY <1>b DEF Measured
  <2>3. pc' \in Active \cup {"ran"} =>
          \A d \in Measured' : performed'[d] = Iterations \/ Excused(d)'
      BY <1>a, <1>b, <2>2 DEF ShortInv
  <2> QED BY <1>0, <1>b, <2>1, <2>3 DEF ShortInv
<1>1. CASE BeginRun
  <2>1. /\ performed' = [d \in Directions |-> 0] /\ dir' = "h2d"
        /\ pc = "run" /\ pc' = "create"
      BY <1>1 DEF BeginRun
  <2>2. Measured' = {}
      BY <2>1 DEF Measured
  <2> QED BY <1>0, <2>1, <2>2 DEF ShortInv
<1>2. CASE CreateBuffers \/ Stage
    BY <1>b, <1>2 DEF CreateBuffers, Stage, ReturnError, Active
<1>3. CASE Preload
    BY <1>b, <1>3 DEF Preload, ReturnError, Active
<1>4. CASE StartClock
    BY <1>b, <1>4 DEF StartClock, Active
<1>5. CASE EnqueueTransfer
  <2>1. pc = "loop" /\ UNCHANGED <<performed, dir>> /\ pc' \in {"loop", "failed"}
      BY <1>5 DEF EnqueueTransfer, ReturnError
  <2>2. pc' = "loop" => accepted' = i' \/ Excused(dir)'
    <3>1. CASE Succeeds /\ accepted' = accepted + 1 /\ i' = i + 1
        BY <1>a, <2>1, <3>1 DEF ShortInv
    <3>2. CASE Fails /\ dir = "d2d"
        BY <2>1, <3>2, FailureCounted DEF Excused
    <3>3. CASE pc' = "failed"
        BY <3>3
    <3> QED BY <1>5, <3>1, <3>2, <3>3 DEF EnqueueTransfer, ReturnError
  <2> QED BY <1>b, <2>1, <2>2 DEF Active
<1>6. CASE MapBuffer
  <2>1. /\ pc = "loop" /\ UNCHANGED <<performed, dir>> /\ mapped
        /\ pc' \in {"loop", "mapped", "failed"}
      BY <1>6 DEF MapBuffer, ReturnError
  <2>2. pc' = "loop" => Excused(dir)'
      BY <1>0, <1>6, <2>1, FailureCounted DEF MapBuffer, ReturnError, Excused
  <2>3. pc' = "mapped" =>
          \/ accepted' = (IF dir = "d2h" THEN i' + 1 ELSE i')
          \/ failures' > 0
      BY <1>0, <1>6, <2>1 DEF MapBuffer, ReturnError, ShortInv, Excused
  <2> QED BY <1>b, <2>1, <2>2, <2>3 DEF Active
<1>7. CASE CopyMapped
  <2>1. /\ pc = "mapped" /\ UNCHANGED <<performed, dir>> /\ mapped
        /\ pc' = "loop"
      BY <1>7 DEF CopyMapped, ShortInv
  <2>2. accepted' = i' \/ failures' > 0
    <3>1. i' = i + 1 /\ (accepted = (IF dir = "d2h" THEN i + 1 ELSE i) \/ failures > 0)
        BY <1>7, <2>1 DEF CopyMapped, ShortInv
    <3>2. failures > 0 => failures' > 0
        BY <1>0
    <3>3. CASE dir # "h2d"
      <4>1. dir = "d2h" /\ accepted' = accepted
          BY <1>7, <2>1, <3>3 DEF CopyMapped, WatchInv, Directions
      <4> QED BY <3>1, <3>2, <4>1
    <3>4. CASE dir = "h2d" /\ accepted' = accepted + 1
        BY <3>1, <3>2, <3>4
    <3>5. CASE dir = "h2d" /\ Fails
        BY <2>1, <3>5, FailureCounted
    <3> QED BY <1>7, <3>3, <3>4, <3>5 DEF CopyMapped
  <2> QED BY <1>0, <1>b, <2>1, <2>2 DEF Active, Excused
<1>8. CASE StopClock
  <2>1. /\ pc = "loop" /\ pc' = "readback" /\ dir' = dir /\ i = Iterations
        /\ performed' = [performed EXCEPT ![dir] = moved]
        /\ queue = << >>
      BY <1>8 DEF StopClock, Q!Drained
  <2>2. moved = accepted /\ dir \in Directions /\ moved \in Nat
      BY <2>1 DEF WatchInv
  <2>3. performed' \in [Directions -> Int] /\ performed'[dir] = moved
        /\ \A d \in Directions : d # dir => performed'[d] = performed[d]
      BY <2>1, <2>2 DEF ShortInv
  <2>4. \A d \in Measured' : d \in Measured \/ d = dir
      BY <2>1 DEF Measured
  <2>5. performed'[dir] = Iterations \/ Excused(dir)'
      BY <1>a, <2>1, <2>2, <2>3 DEF ShortInv
  <2>6. \A d \in Measured' : performed'[d] = Iterations \/ Excused(d)'
      BY <1>a, <2>1, <2>3, <2>4, <2>5 DEF ShortInv, Active, Measured
  <2> QED BY <1>0, <2>1, <2>3, <2>6 DEF ShortInv
<1>9. CASE ReadBack
    BY <1>b, <1>9 DEF ReadBack, Active
<1>10. CASE Compare
  <2>1. /\ pc = "compare" /\ UNCHANGED performed /\ dir \in Directions
        /\ \/ pc' \in {"exit", "failed"}
           \/ pc' = "create" /\ dir = "h2d" /\ dir' = "d2h"
           \/ pc' = "create" /\ dir = "d2h" /\ dir' = "d2d"
           \/ pc' = "ran" /\ dir = "d2d" /\ dir' = "d2d"
      BY <1>10 DEF Compare, WatchInv, Directions
  <2>2. pc' \in Active \cup {"ran"} => \A d \in Measured' : d \in Measured
      BY <2>1 DEF Measured, Active, Directions
  <2>3. pc' \in Active \cup {"ran"} =>
          \A d \in Measured' : performed'[d] = Iterations \/ Excused(d)'
      BY <1>a, <2>1, <2>2 DEF ShortInv, Active
  <2> QED BY <1>0, <2>1, <2>3 DEF ShortInv
<1>11. CASE PrepareBenchmark
  <2>1. /\ pc' = "run" /\ UNCHANGED performed
        /\ ready' \/ failures' > 0
      BY <1>0, <1>11 DEF PrepareBenchmark
  <2> QED BY <1>0, <2>1 DEF ShortInv, Active
<1>12. CASE Succeeded \/ Failed
  <2>1. pc' \in {"run", "shutdown"}
      BY <1>12, Turned, Printed DEF WatchInv, Succeeded, Failed
  <2>2. UNCHANGED <<performed, dir>> /\ pc # "prepare"
      BY <1>12 DEF Succeeded, Failed
  <2> QED BY <1>b, <2>1, <2>2 DEF Active
<1>13. CASE Shutdown
    BY <1>b, <1>13 DEF Shutdown, Active
<1>14. CASE Device \/ UNCHANGED vars
  <2>1. UNCHANGED <<performed, dir, pc, accepted, i, failures, mapped, ready>>
      BY <1>14 DEF Device, vars
  <2>2. Measured' = Measured /\ \A d : Excused(d)' <=> Excused(d)
      BY <2>1 DEF Measured, Excused
  <2> QED BY <2>1, <2>2 DEF ShortInv
<1> QED BY <1>1, <1>2, <1>3, <1>4, <1>5, <1>6, <1>7, <1>8, <1>9, <1>10,
           <1>11, <1>12, <1>13, <1>14 DEF Next, Host

\* A run that succeeds with fewer transfers than asked for lost them in calls
\* whose result is overwritten or not looked at.
THEOREM ShortIsExcused == Spec => []ShortOnlyWhereUnchecked
<1>1. Init => WatchInv /\ ShortInv
    BY WatchInit, ShortInit
<1>2. WatchInv /\ ShortInv /\ [Next]_vars => (WatchInv /\ ShortInv)'
    BY WatchStep, ShortStep
<1>3. ShortInv => ShortOnlyWhereUnchecked
  <2>1. ASSUME ShortInv, pc = "ran", NEW d \in Directions,
               performed[d] < Iterations
        PROVE  failures > 0 /\ (d = "d2d" \/ mapped)
    <3>1. d \in Measured /\ pc \in Active \cup {"ran"}
        BY <2>1 DEF ShortInv, Measured, Directions
    <3>2. performed[d] # Iterations
        BY <2>1, BandwidthAssumption DEF ShortInv
    <3> QED BY <2>1, <3>1, <3>2 DEF ShortInv, Excused
  <2> QED BY <2>1 DEF ShortOnlyWhereUnchecked
<1> QED BY <1>1, <1>2, <1>3, PTL DEF Spec
-----------------------------------------------------------------------------
(* Contents.                                                               *)

\* Memory m after f faults: the damage of a fault still to come is nowhere.
Sound(m, f) == \A r \in Regions, n \in Nat : m[r] = Damaged(n) => n <= f

\* What a measurement is checked against.
Origin == IF dir = "d2d" THEN "dst" ELSE "dmem"

(* When the comparison is reached and the read-back was accepted, it is    *)
(* pending, or the check array holds what was read, or damage that is      *)
(* nowhere else.                                                           *)
ContentInv ==
    /\ faults \in Nat /\ size \in Nat \ {0}
    /\ pc \notin {"shutdown", "exit"} => size <= Sizes
    /\ Sound(mem, faults)
    /\ \A j \in 1..Len(queue) :
         queue[j].src \in Regions /\ queue[j].dst \in Regions
    /\ pc = "compare" /\ reread =>
         \/ queue = << [src |-> Region(Origin), dst |-> Region("check")] >>
         \/ /\ queue = << >>
            /\ \/ mem[Region("check")] = mem[Region(Origin)]
               \/ mem[Region("check")] # mem[Region("data")]

\* The runs made are those of the loops.
LEMMA RunInRange ==
    ASSUME size \in 1..Sizes, repeat \in 1..Repeats
    PROVE  Run \in Runs
<1>1. Sizes \in Nat \ {0} /\ Repeats \in Nat \ {0}
    BY BandwidthAssumption
<1>2. \A a, b \in Nat : a <= b => a * Repeats <= b * Repeats
    BY <1>1
<1>3. (size - 1) * Repeats <= (Sizes - 1) * Repeats /\ (size - 1) * Repeats \in Nat
    BY <1>1, <1>2
<1>4. (Sizes - 1) * Repeats = (Sizes * Repeats) - Repeats /\ Sizes * Repeats \in Nat
    BY <1>1
<1> QED BY <1>1, <1>3, <1>4 DEF Run, Runs

LEMMA RegionsOfRun ==
    ASSUME QueueInv, ContentInv, pc \notin {"shutdown", "exit"}, NEW name \in Names
    PROVE  Region(name) \in Regions
<1>1. Run \in Runs
    BY RunInRange DEF QueueInv, ContentInv
<1> QED BY <1>1 DEF Region, Regions

LEMMA ContentsDiffer ==
    /\ \A n, k : Random(n) # Damaged(k)
    /\ \A name, n : Junk(name) # Damaged(n)
    /\ \A n, k : Damaged(n) = Damaged(k) => n = k
  BY DEF Random, Damaged, Junk

\* A store of the host keeps the memory sound when the content may be there.
LEMMA StoreIsSound ==
    ASSUME QueueInv, ContentInv, NEW STATE name, NEW STATE content,
           HostStore(name, content), Region(name) \in Regions,
           \A n \in Nat : content = Damaged(n) => n <= faults
    PROVE  Sound(mem', faults)
<1>1. \A r \in Regions :
        mem'[r] = IF r = Region(name) THEN content ELSE mem[r]
    BY DEF HostStore, QueueInv
<1>2. Sound(mem, faults)
    BY DEF ContentInv
<1> QED BY <1>1, <1>2 DEF Sound

\* So does an executed command.
LEMMA ExecuteIsSound ==
    ASSUME WatchInv, QueueInv, ContentInv, Q!Execute
    PROVE  faults' \in Nat /\ Sound(mem', faults')
<1>1. queue \in Seq(Pairs) /\ queue # << >> /\ 1 \in 1..Len(queue)
      /\ Head(queue) = queue[1]
    BY Executed DEF WatchInv
<1> DEFINE cmd == Head(queue)
<1>2. cmd.src \in Regions /\ cmd.dst \in Regions
    BY <1>1 DEF ContentInv
<1>3. faults \in Nat /\ Sound(mem, faults)
    BY DEF ContentInv
<1>4. CASE Q!Transfer
  <2>1. /\ faults' = faults
        /\ \A r \in Regions :
              mem'[r] = IF r = cmd.dst THEN mem[cmd.src] ELSE mem[r]
      BY <1>4 DEF Q!Transfer, QueueInv
  <2> QED BY <1>2, <1>3, <2>1 DEF Sound
<1>5. CASE Q!FaultyTransfer
  <2>1. /\ faults' = faults + 1
        /\ \A r \in Regions :
              mem'[r] = IF r = cmd.dst THEN Damaged(faults') ELSE mem[r]
      BY <1>5 DEF Q!FaultyTransfer, QueueInv
  <2> QED BY <1>3, <2>1, ContentsDiffer DEF Sound
<1> QED BY <1>4, <1>5 DEF Q!Execute

Commands == \A j \in 1..Len(queue) :
              queue[j].src \in Regions /\ queue[j].dst \in Regions

LEMMA AcceptedCommands ==
    ASSUME WatchInv, QueueInv, ContentInv, pc \notin {"shutdown", "exit"},
           Accepts
    PROVE  Commands'
<1>1. PICK src \in Names, dst \in Names : Enqueue(src, dst)
    BY DEF Accepts
<1> DEFINE new == [src |-> Region(src), dst |-> Region(dst)]
<1>2. Region(src) \in Regions /\ Region(dst) \in Regions
    BY <1>1, RegionsOfRun
<1>3. new \in Pairs /\ queue \in Seq(Pairs) /\ queue' = Append(queue, new)
    BY <1>1, RunType DEF Pairs, Region, WatchInv, Enqueue
<1>4. new.src \in Regions /\ new.dst \in Regions
    BY <1>2
<1> HIDE DEF new
<1>5. ASSUME NEW j \in 1..Len(queue')
      PROVE  queue'[j].src \in Regions /\ queue'[j].dst \in Regions
  <2>1. CASE j = Len(queue) + 1
      BY <1>3, <1>4, <2>1, AppendProperties
  <2>2. CASE j # Len(queue) + 1
    <3>1. j \in 1..Len(queue) /\ queue'[j] = queue[j]
        BY <1>3, <1>5, <2>2, AppendProperties
    <3> QED BY <3>1 DEF ContentInv
  <2> QED BY <2>1, <2>2
<1> QED BY <1>5 DEF Commands

LEMMA ExecutedCommands ==
    ASSUME WatchInv, ContentInv, Q!Execute
    PROVE  Commands'
<1>1. queue \in Seq(Pairs) /\ queue # << >> /\ queue' = Tail(queue)
    BY Executed DEF WatchInv
<1>2. \A j \in 1..Len(queue') : j + 1 \in 1..Len(queue) /\ queue'[j] = queue[j + 1]
    BY <1>1, HeadTailProperties
<1> QED BY <1>2 DEF Commands, ContentInv

\* Executing the read-back fills the check array with what was read, or with
\* damage that is nowhere else.
LEMMA ReadBackExecuted ==
    ASSUME WatchInv, QueueInv, ContentInv, pc = "compare", reread, Q!Execute,
           UNCHANGED <<size, repeat, dir>>
    PROVE  /\ queue' = << >>
           /\ \/ mem'[Region("check")'] = mem'[Region(Origin)']
              \/ mem'[Region("check")'] # mem'[Region("data")']
<1> DEFINE read == [src |-> Region(Origin), dst |-> Region("check")]
<1>1. queue = << read >>
    BY Executed DEF ContentInv
<1>2. /\ Head(queue) = read /\ Tail(queue) = << >>
      /\ Head(queue).src = Region(Origin) /\ Head(queue).dst = Region("check")
    BY <1>1
<1>3. queue' = << >>
    BY <1>2, Executed
<1>4. /\ Region("check") \in Regions /\ Region("data") \in Regions
      /\ Region(Origin) \in Regions
      /\ Region("check") # Region("data") /\ Region("check") # Region(Origin)
    BY RegionsOfRun DEF Origin, Names, Region
<1>5. \A name : Region(name)' = Region(name)
    BY SameRun DEF Region
<1>6. Origin' = Origin
    BY DEF Origin
<1>7. CASE Q!Transfer
  <2>1. \A r \in Regions : mem'[r] = IF r = Region("check")
                                     THEN mem[Region(Origin)] ELSE mem[r]
      BY <1>2, <1>7 DEF Q!Transfer, QueueInv
  <2>2. mem'[Region("check")] = mem'[Region(Origin)]
      BY <1>4, <2>1
  <2> QED BY <1>3, <1>5, <1>6, <2>2
<1>8. CASE Q!FaultyTransfer
  <2>1. /\ faults' = faults + 1
        /\ \A r \in Regions : mem'[r] = IF r = Region("check")
                                        THEN Damaged(faults') ELSE mem[r]
      BY <1>2, <1>8 DEF Q!FaultyTransfer, QueueInv
  <2>2. mem[Region("data")] # Damaged(faults')
      BY <1>4, <2>1 DEF ContentInv, Sound
  <2>3. mem'[Region("check")] # mem'[Region("data")]
      BY <1>4, <2>1, <2>2
  <2> QED BY <1>3, <1>5, <2>3
<1> QED BY <1>7, <1>8 DEF Q!Execute

LEMMA ContentInit == Init => ContentInv
<1> SUFFICES ASSUME Init PROVE ContentInv
    OBVIOUS
<1>1. /\ queue = << >> /\ faults = 0
      /\ mem = [r \in Regions |-> Junk(r[1])]
    BY DEF Init, Q!QueueInit
<1>2. pc = "prepare" /\ size = 1
    BY DEF Init
<1>3. Sound(mem, faults)
    BY <1>1, ContentsDiffer DEF Sound
<1>4. Len(queue) = 0
    BY <1>1
<1> QED BY <1>1, <1>2, <1>3, <1>4, BandwidthAssumption DEF ContentInv

\* The sizes measured are those of the loop.
LEMMA PrintedSize ==
    ASSUME size \in Nat \ {0}, NEW STATE sums, PrintResult(sums)
    PROVE  size' \in Nat \ {0} /\ (pc' # "shutdown" => size' <= Sizes)
<1>1. size' = size + 1 /\ pc' = IF size < Sizes THEN "run" ELSE "shutdown"
    BY DEF PrintResult
<1> QED BY <1>1, BandwidthAssumption

LEMMA TurnedSize ==
    ASSUME size \in 1..Sizes, NEW STATE sums, NextRepeat(sums)
    PROVE  size' \in Nat \ {0} /\ (pc' # "shutdown" => size' <= Sizes)
<1>1. CASE repeat < Repeats
    BY <1>1 DEF NextRepeat
<1>2. CASE ~(repeat < Repeats)
    BY <1>2, PrintedSize DEF NextRepeat
<1> QED BY <1>1, <1>2

LEMMA ContentStep == WatchInv /\ QueueInv /\ ContentInv /\ [Next]_vars => ContentInv'
<1> SUFFICES ASSUME WatchInv, QueueInv, ContentInv, [Next]_vars PROVE ContentInv'
    OBVIOUS
<1> USE DEF mode, position, window, report
<1>0. /\ faults \in Nat /\ size \in Nat \ {0} /\ Sound(mem, faults) /\ Commands
      /\ pc \notin {"shutdown", "exit"} => size \in 1..Sizes
    BY BandwidthAssumption DEF ContentInv, Commands
<1>1. ASSUME UNCHANGED <<size, faults>>, pc \notin {"shutdown", "exit"},
             Sound(mem', faults), UNCHANGED queue \/ Commands',
             pc' # "compare"
      PROVE  ContentInv'
  <2>1. Commands'
      BY <1>0, <1>1 DEF Commands
  <2> QED BY <1>0, <1>1, <2>1 DEF ContentInv, Commands
<1>2. CASE BeginRun
  <2>1. /\ UNCHANGED <<size, faults, queue>> /\ pc = "run" /\ pc' = "create"
        /\ HostStore("data", Random(Run))
      BY <1>2 DEF BeginRun
  <2>2. Region("data") \in Regions
      BY <2>1, RegionsOfRun DEF Names
  <2>3. Sound(mem', faults)
      BY <2>1, <2>2, StoreIsSound, ContentsDiffer
  <2> QED BY <1>1, <2>1, <2>3
<1>3. CASE CreateBuffers
  <2>1. /\ UNCHANGED <<size, faults, queue>> /\ pc = "create" /\ pc' # "compare"
        /\ \/ UNCHANGED mem
           \/ \E c \in Fresh("dmem"), d \in Fresh("dst") :
                mem' = [mem EXCEPT ![Region("dmem")] = c, ![Region("dst")] = d]
      BY <1>3 DEF CreateBuffers, ReturnError
  <2>2. \A r \in Regions :
          mem'[r] \in {mem[r], mem[Region("data")], Junk("dmem"), Junk("dst")}
      BY <2>1 DEF QueueInv, Fresh
  <2>3. Region("data") \in Regions
      BY <2>1, RegionsOfRun DEF Names
  <2>4. Sound(mem', faults)
      BY <1>0, <2>2, <2>3, ContentsDiffer DEF Sound
  <2> QED BY <1>1, <2>1, <2>4
<1>4. CASE Preload
  <2>1. /\ UNCHANGED <<size, faults, mem>> /\ pc = "preload" /\ pc' # "compare"
        /\ Accepts \/ UNCHANGED queue
      BY <1>4 DEF Preload, ReturnError, Accepts, Names
  <2> QED BY <1>0, <1>1, <2>1, AcceptedCommands
<1>5. CASE Stage
  <2>1. /\ UNCHANGED <<size, faults, queue>> /\ pc = "stage" /\ pc' # "compare"
      BY <1>5 DEF Stage, ReturnError
  <2>2. Region("pinned") \in Regions /\ Region("data") \in Regions
      BY <2>1, RegionsOfRun DEF Names
  <2>3. CASE UNCHANGED mem
      BY <1>0, <1>1, <2>1, <2>3
  <2>4. ASSUME NEW c \in Fresh("pinned"), HostStore("pinned", c)
        PROVE  ContentInv'
    <3>1. \A n \in Nat : c = Damaged(n) => n <= faults
        BY <1>0, <2>2, <2>4, ContentsDiffer DEF Sound, Fresh
    <3>2. Sound(mem', faults)
        BY <2>2, <2>4, <3>1, StoreIsSound
    <3> QED BY <1>1, <2>1, <3>2
  <2>5. UNCHANGED mem \/ \E c \in Fresh("pinned") : HostStore("pinned", c)
      BY <1>5 DEF Stage, Fresh
  <2> QED BY <2>3, <2>4, <2>5
<1>6. CASE StartClock \/ StopClock
  <2>1. /\ UNCHANGED <<size, faults, queue, mem>>
        /\ pc \notin {"shutdown", "exit"} /\ pc' # "compare"
      BY <1>6 DEF StartClock, StopClock
  <2> QED BY <1>0, <1>1, <2>1
<1>7. CASE EnqueueTransfer \/ MapBuffer
  <2>1. /\ UNCHANGED <<size, faults, mem>> /\ pc = "loop" /\ pc' # "compare"
        /\ Accepts \/ UNCHANGED queue
      BY <1>7, Ends DEF EnqueueTransfer, MapBuffer, ReturnError, Accepts, Names
  <2> QED BY <1>0, <1>1, <2>1, AcceptedCommands
<1>8. CASE CopyMapped
  <2>1. /\ UNCHANGED <<size, faults>> /\ pc = "mapped" /\ pc' = "loop"
        /\ Accepts \/ UNCHANGED queue
        /\ \/ HostStore("map", mem[Region("data")])
           \/ HostStore("data", mem[Region("map")])
      BY <1>8 DEF CopyMapped, Accepts, Names
  <2>2. Region("map") \in Regions /\ Region("data") \in Regions
      BY <2>1, RegionsOfRun DEF Names
  <2>3. \A name \in {"map", "data"} :
          \A n \in Nat : mem[Region(name)] = Damaged(n) => n <= faults
      BY <1>0, <2>2 DEF Sound
  <2>4. Sound(mem', faults)
      BY <2>1, <2>2, <2>3, StoreIsSound
  <2> QED BY <1>1, <2>1, <2>4, AcceptedCommands
<1>9. CASE ReadBack
  <2>1. /\ UNCHANGED <<size, repeat, dir, faults>>
        /\ pc = "readback" /\ pc' = "compare" /\ queue = << >>
        /\ \/ Enqueue(Origin, "check")
           \/ UNCHANGED queue /\ ~reread'
      BY <1>9 DEF ReadBack, QueueInv, Origin
  <2>2. Region("check") \in Regions /\ Region("data") \in Regions
      BY <2>1, RegionsOfRun DEF Names
  <2>3. Sound(mem', faults)
    <3>1. PICK c \in Fresh("check") : HostStore("check", c)
        BY <1>9 DEF ReadBack
    <3>2. \A n \in Nat : c = Damaged(n) => n <= faults
        BY <1>0, <2>2, ContentsDiffer DEF Sound, Fresh
    <3> QED BY <2>2, <3>1, <3>2, StoreIsSound
  <2>4. Commands'
    <3>1. Enqueue(Origin, "check") => Accepts
        BY DEF Accepts, Origin, Names
    <3>2. UNCHANGED queue => Commands'
        BY <1>0 DEF Commands
    <3> QED BY <2>1, <3>1, <3>2, AcceptedCommands
  <2>5. /\ \A name : Region(name)' = Region(name)
        /\ Origin' = Origin
      BY <2>1, SameRun DEF Region, Origin
  <2>6. CASE Enqueue(Origin, "check")
    <3>1. queue' = << [src |-> Region(Origin), dst |-> Region("check")] >>
        BY <2>1, <2>6 DEF Enqueue
    <3> QED BY <1>0, <2>1, <2>3, <2>4, <2>5, <3>1 DEF ContentInv, Commands
  <2>7. CASE ~reread'
      BY <1>0, <2>1, <2>3, <2>4, <2>7 DEF ContentInv, Commands
  <2> QED BY <2>1, <2>6, <2>7
<1>10. CASE Compare
  <2>1. /\ UNCHANGED <<size, faults, queue, mem>>
        /\ pc = "compare" /\ pc' # "compare"
      BY <1>10 DEF Compare, WatchInv, Directions
  <2> QED BY <1>0, <1>1, <2>1
<1>11. CASE PrepareBenchmark
  <2>1. /\ UNCHANGED <<size, faults, queue, mem>> /\ pc = "prepare" /\ pc' = "run"
      BY <1>11 DEF PrepareBenchmark
  <2> QED BY <1>0, <1>1, <2>1
<1>12. CASE Succeeded \/ Failed
  <2>1. UNCHANGED <<faults, queue, mem>> /\ pc \notin {"shutdown", "exit"}
      BY <1>12 DEF Succeeded, Failed
  <2>2. pc' \in {"run", "shutdown"}
      BY <1>12, Turned, Printed DEF WatchInv, Succeeded, Failed
  <2>3. size' \in Nat \ {0} /\ (pc' # "shutdown" => size' <= Sizes)
      BY <1>0, <1>12, <2>1, TurnedSize, PrintedSize DEF Succeeded, Failed
  <2>4. Sound(mem, faults)' /\ Commands'
      BY <1>0, <2>1 DEF Commands
  <2> QED BY <1>0, <2>1, <2>2, <2>3, <2>4 DEF ContentInv, Commands
<1>13. CASE Shutdown
  <2>1. UNCHANGED <<size, faults, queue, mem>> /\ pc' = "exit"
      BY <1>13 DEF Shutdown
  <2>2. Sound(mem, faults)' /\ Commands'
      BY <1>0, <2>1 DEF Commands
  <2> QED BY <1>0, <2>1, <2>2 DEF ContentInv, Commands
<1>14. CASE Device
  <2>1. UNCHANGED <<size, repeat, dir, pc, reread>> /\ Q!Execute
      BY <1>14 DEF Device
  <2>2. faults' \in Nat /\ Sound(mem', faults') /\ Commands'
      BY <2>1, ExecuteIsSound, ExecutedCommands
  <2>3. CASE pc = "compare" /\ reread
    <3>1. /\ queue' = << >>
          /\ \/ mem'[Region("check")'] = mem'[Region(Origin)']
             \/ mem'[Region("check")'] # mem'[Region("data")']
        BY <2>1, <2>3, ReadBackExecuted
    <3> QED BY <1>0, <2>1, <2>2, <2>3, <3>1 DEF ContentInv, Commands
  <2>4. CASE ~(pc = "compare" /\ reread)
      BY <1>0, <2>1, <2>2, <2>4 DEF ContentInv, Commands
  <2> QED BY <2>3, <2>4
<1>15. CASE UNCHANGED vars
  <2>1. UNCHANGED <<size, repeat, dir, faults, queue, mem, pc, reread>>
      BY <1>15 DEF vars
  <2>2. \A name : Region(name)' = Region(name)
      BY <2>1, SameRun DEF Region
  <2> QED BY <2>1, <2>2 DEF ContentInv, Sound, Origin
<1> QED BY <1>2, <1>3, <1>4, <1>5, <1>6, <1>7, <1>8, <1>9, <1>10, <1>11, <1>12,
           <1>13, <1>14, <1>15 DEF Next, Host

\* A measurement that passes a check whose read-back was accepted delivered
\* the data intact, also when the device damages transfers: only direct
\* transfers into a pinned buffer are not what the check looks at.
THEOREM CheckedIsDelivered == Spec => CheckedMeansDelivered
<1> DEFINE Passes == pc = "compare" /\ pc' \in {"create", "ran"} /\ reread
                       /\ ~(dir = "d2h" /\ pinned /\ ~mapped)
<1>1. Init => WatchInv /\ QueueInv /\ ContentInv
    BY WatchInit, QueueInit, ContentInit
<1>2. WatchInv /\ QueueInv /\ ContentInv /\ [Next]_vars =>
        (WatchInv /\ QueueInv /\ ContentInv)'
    BY WatchStep, QueueStep, ContentStep
<1>3. ASSUME WatchInv, ContentInv, [Next]_vars, Passes
      PROVE  Delivered
  <2>1. Compare
    <3>1. pc' # pc /\ pc = "compare"
        BY <1>3
    <3> QED BY <1>3, <3>1
            DEF Next, Host, Device, vars, BeginRun, CreateBuffers, Preload,
                Stage, StartClock, EnqueueTransfer, MapBuffer, CopyMapped,
                StopClock, ReadBack, PrepareBenchmark, Succeeded, Failed, Shutdown
  <2>2. /\ queue = << >> /\ dir \in Directions
        /\ mem[Region("check")] = mem[Region("data")]
      BY <1>3, <2>1 DEF Compare, Q!Drained, WatchInv
  <2>3. mem[Region("check")] = mem[Region(Origin)]
      BY <1>3, <2>2 DEF ContentInv
  <2> QED BY <1>3, <2>2, <2>3 DEF Delivered, Origin, Directions
<1>4. WatchInv /\ ContentInv /\ [Next]_vars => [Passes => Delivered]_vars
    BY <1>3
<1>5. Spec => [][Passes => Delivered]_vars
    BY <1>1, <1>2, <1>4, PTL DEF Spec
<1> QED BY <1>5 DEF CheckedMeansDelivered, Passes
=============================================================================
