-------------------------- MODULE MemLatencyProofs --------------------------
(***************************************************************************)
(* Proofs about MemLatency, for every machine, command line, number of     *)
(* repeats and of failing calls: what the loops of main print and what the *)
(* calls of run_latency_benchmark leave behind.                            *)
(***************************************************************************)
EXTENDS MemLatency, SequenceTheorems, FiniteSetTheorems, TLAPS

\* How many layouts and memory types main goes over.
NumLayouts == IF layoutSet THEN 1 ELSE 2
NumTypes   == IF typeSet THEN 1 ELSE 3

\* Within run_latency_benchmark, and behind a failing call.
Calling == {"commands", "program", "build", "kernel", "buffers", "write",
            "arguments", "launch", "wait", "profile", "read", "cleanup"}

\* A line has been begun and is not printed.
WithinLine == Calling \cup {"repeat", "failed"}

Combinations == (0..(NumDevices - 1)) \X Range(Layouts) \X Range(MemTypes)

\* Mean or not a number: what LineIsOfItsRepeats says of one line.
LineOK(l) == l.time = NaN \/ (l.time = Repeats /\ l.ops = l.of)

NaNs == {n \in 1..Len(lines) : lines[n].time = NaN}

(* What the variables hold.                                                *)
TypeInv ==
    /\ deviceId \in -1..(NumDevices - 1)
    /\ pc \in WithinLine \cup {"loop", "exit", "error", "died"}
    /\ lines \in Seq([of   : Combinations,
                      time : {NaN, Repeats},
                      ops  : Combinations \cup {None}])
    /\ dev \in 0..Len(usedDevices)
    /\ layoutcnt \in 0..NumLayouts /\ mtcnt \in 0..NumTypes
    /\ ops \in Combinations \cup {None}
    /\ failures \in Nat

(* The loops are where the number of lines says.                           *)
PlaceInv ==
    /\ layoutcnt = NumLayouts => mtcnt = 0
    /\ dev = Len(usedDevices) => layoutcnt = 0 /\ mtcnt = 0
    /\ pc \in WithinLine =>
         dev < Len(usedDevices) /\ layoutcnt < NumLayouts /\ mtcnt < NumTypes
    /\ pc = "exit" => dev = Len(usedDevices)
    /\ Len(lines) = (((dev * NumLayouts) + layoutcnt) * NumTypes) + mtcnt
    /\ \A n \in 1..Len(lines) : lines[n].of = Requested[n]

(* The sum is of the repeats so far, the operations are those of the last  *)
(* of them, and every line that is no number was paid for by a failure.    *)
LineInv ==
    /\ pc \in WithinLine => k \in 0..Repeats /\ time = k /\ (k > 0 => ops = Line)
    /\ pc \in Calling => k < Repeats
    /\ pc = "profile" => kernelAt = "done"
    /\ \A n \in 1..Len(lines) : LineOK(lines[n])
    /\ IsFiniteSet(NaNs)
    /\ Cardinality(NaNs) + (IF pc = "failed" THEN 1 ELSE 0) <= failures

(* What is held is of a kind Cleanup releases or never does: no call holds *)
(* a file that it did not close.                                           *)
LeakInv ==
    /\ leaked \in [Kinds -> Nat]
    /\ held \subseteq Kinds \ {"descriptor"}
    /\ OnlyFailuresLeak

MainInv == TypeInv /\ PlaceInv /\ LineInv /\ LeakInv
-----------------------------------------------------------------------------
(* What the steps do.                                                      *)

\* A call that goes on.
GoesOn ==
    /\ pc' \in Calling
    /\ pc' = "profile" => kernelAt' = "done"
    /\ held' \subseteq held \cup (Kinds \ {"descriptor"})
    /\ UNCHANGED <<leaked, failures>>

\* A call that returns an error.
GivesUp ==
    /\ pc' = "failed"
    /\ failures' = failures + 1
    /\ \E what \in SUBSET Kinds : LeaveBehind(what)

\* A step within a call of run_latency_benchmark goes on or gives up, and
\* leaves main's variables alone.
LEMMA CallStep ==
    ASSUME Call, ~Prepare, ~Cleanup, pc = "profile" => kernelAt = "done",
           held \subseteq Kinds
    PROVE  pc \in Calling /\ UNCHANGED <<input, mainVars>> /\ (GoesOn \/ GivesUp)
<1>1. ASSUME NEW also \in SUBSET Kinds, ReturnsError(also), CallFails
      PROVE  GivesUp
    BY <1>1 DEF ReturnsError, CallFails, GivesUp
<1>2. ASSUME NEW at \in Calling, NEW what \in SUBSET (Kinds \ {"descriptor"}),
             NEW next \in Calling \ {"profile"}, Step(at, what, next)
      PROVE  pc \in Calling /\ UNCHANGED <<input, mainVars>> /\ (GoesOn \/ GivesUp)
  <2>1. {} \in SUBSET Kinds
      OBVIOUS
  <2> QED BY <1>1, <1>2, <2>1 DEF Step, GoesOn
<1>3. CASE CreateCommandQueue
    BY <1>2, <1>3 DEF CreateCommandQueue, Calling, Kinds
<1>4. CASE LoadKernel
  <2>1. CASE Step("program", {"program"}, "build")
      BY <1>2, <2>1 DEF Calling, Kinds
  <2>2. CASE ~Step("program", {"program"}, "build")
      BY <1>1, <1>4, <2>2 DEF LoadKernel, Calling, Kinds
  <2> QED BY <2>1, <2>2
<1>5. CASE BuildProgram
    BY <1>2, <1>5 DEF BuildProgram, Calling, Kinds
<1>6. CASE CreateKernel
    BY <1>2, <1>6 DEF CreateKernel, Calling, Kinds
<1>7. CASE CreateBuffers
  <2>1. CASE Step("buffers", {"input", "result"}, "write")
      BY <1>2, <2>1 DEF Calling, Kinds
  <2>2. CASE ~Step("buffers", {"input", "result"}, "write")
      BY <1>1, <1>7, <2>2 DEF CreateBuffers, Calling, Kinds
  <2> QED BY <2>1, <2>2
<1>8. CASE WriteData
    BY <1>2, <1>8 DEF WriteData, Calling, Kinds
<1>9. CASE SetArguments
    BY <1>2, <1>9 DEF SetArguments, Calling, Kinds
<1>10. CASE Launch
  <2>1. {} \in SUBSET Kinds
      OBVIOUS
  <2> QED BY <1>1, <1>10, <2>1 DEF Launch, GoesOn, Calling, Kinds
<1>11. CASE Wait
  <2>1. {} \in SUBSET Kinds
      OBVIOUS
  <2> QED BY <1>1, <1>11, <2>1 DEF Wait, GoesOn, Calling
<1>12. CASE Profile
  <2>1. {} \in SUBSET Kinds
      OBVIOUS
  <2> QED BY <1>1, <1>12, <2>1 DEF Profile, GoesOn, Calling
<1>13. CASE ReadResult
    BY <1>2, <1>13 DEF ReadResult, Calling, Kinds
<1> QED BY <1>3, <1>4, <1>5, <1>6, <1>7, <1>8, <1>9, <1>10, <1>11, <1>12, <1>13
        DEF Call

\* The input never changes.
LEMMA InputFixed == [Next]_vars => UNCHANGED input
  BY DEF Next, Main, Call, vars, NextLayout, NextDevice, Exit, CreateContext,
     PrintMean, Failed, Prepare, CreateCommandQueue, LoadKernel, BuildProgram,
     CreateKernel, CreateBuffers, WriteData, SetArguments, Launch, Wait, Profile,
     ReadResult, Cleanup, Step, Execute, input

\* The lists of layouts and types are as long as main takes them to be, and
\* what the loops stand at is one of the combinations.
LEMMA Lists ==
    ASSUME TypeInv
    PROVE  /\ Len(usedDevices) \in Nat
           /\ NumLayouts \in {1, 2} /\ NumTypes \in {1, 3}
           /\ TypesDone <=> mtcnt = NumTypes
           /\ LayoutsDone <=> layoutcnt = NumLayouts
           /\ dev < Len(usedDevices) /\ layoutcnt < NumLayouts /\ mtcnt < NumTypes
                => Line \in Combinations
<1>1. Len(usedDevices) \in Nat
      /\ \A n \in 1..Len(usedDevices) : usedDevices[n] \in 0..(NumDevices - 1)
    BY MemLatencyAssumption DEF TypeInv, usedDevices
<1>2. NumLayouts \in {1, 2} /\ NumTypes \in {1, 3}
    BY DEF NumLayouts, NumTypes
<1>3. TypesDone <=> mtcnt = NumTypes
    BY DEF TypesDone, NumTypes, TypeInv
<1>4. LayoutsDone <=> layoutcnt = NumLayouts
    BY DEF LayoutsDone, NumLayouts, TypeInv
<1>5. ASSUME dev < Len(usedDevices), layoutcnt < NumLayouts, mtcnt < NumTypes
      PROVE  Line \in Combinations
  <2>1. usedDevices[dev + 1] \in 0..(NumDevices - 1)
      BY <1>1, <1>5 DEF TypeInv
  <2>2. memType \in Range(MemTypes)
      BY <1>5 DEF memType, NumTypes, MemTypes, typeSet, Range, TypeInv
  <2>3. dataLayout \in Range(Layouts)
      BY <1>5 DEF dataLayout, NumLayouts, Layouts, layoutSet, Range, TypeInv
  <2> QED BY <2>1, <2>2, <2>3 DEF Line, Combinations
<1> QED BY <1>1, <1>2, <1>3, <1>4, <1>5
-----------------------------------------------------------------------------
(* The lines.                                                              *)

\* The combination the loops stand at is the next one of the request.
LEMMA LineIsNext ==
    ASSUME TypeInv, PlaceInv, dev < Len(usedDevices), layoutcnt < NumLayouts,
           mtcnt < NumTypes
    PROVE  /\ Len(lines) + 1 \in DOMAIN Requested
           /\ Requested[Len(lines) + 1] = Line
<1> DEFINE L == IF layoutSet THEN <<layoutWord>> ELSE Layouts
           T == IF typeSet THEN <<typeWord>> ELSE MemTypes
           n == Len(lines) + 1
<1>1. Len(L) = NumLayouts /\ Len(T) = NumTypes
    BY DEF NumLayouts, NumTypes, Layouts, MemTypes
<1>2. L[layoutcnt + 1] = dataLayout
    BY DEF dataLayout, NumLayouts, TypeInv
<1>3. T[mtcnt + 1] = memType
    BY DEF memType, NumTypes, TypeInv
<1>4. /\ Len(usedDevices) \in Nat /\ dev \in Nat /\ dev < Len(usedDevices)
      /\ layoutcnt \in 0..(NumLayouts - 1) /\ mtcnt \in 0..(NumTypes - 1)
      /\ NumLayouts \in {1, 2} /\ NumTypes \in {1, 3}
      /\ n = (((dev * NumLayouts) + layoutcnt) * NumTypes) + mtcnt + 1
    BY Lists DEF TypeInv, PlaceInv
<1> HIDE DEF L, T, n
<1>5. /\ (n - 1) % NumTypes = mtcnt
      /\ ((n - 1) \div NumTypes) % NumLayouts = layoutcnt
      /\ (n - 1) \div (NumLayouts * NumTypes) = dev
      /\ n \in 1..(Len(usedDevices) * (NumLayouts * NumTypes))
  <2>1. CASE NumLayouts = 1 /\ NumTypes = 1
      BY <1>4, <2>1
  <2>2. CASE NumLayouts = 1 /\ NumTypes = 3
      BY <1>4, <2>2
  <2>3. CASE NumLayouts = 2 /\ NumTypes = 1
      BY <1>4, <2>3
  <2>4. CASE NumLayouts = 2 /\ NumTypes = 3
      BY <1>4, <2>4
  <2> QED BY <1>4, <2>1, <2>2, <2>3, <2>4
<1>6. Requested = [x \in 1..(Len(usedDevices) * (Len(L) * Len(T))) |->
                     <<usedDevices[((x - 1) \div (Len(L) * Len(T))) + 1],
                       L[(((x - 1) \div Len(T)) % Len(L)) + 1],
                       T[((x - 1) % Len(T)) + 1]>>]
    BY DEF Requested, L, T
<1> QED BY <1>1, <1>2, <1>3, <1>5, <1>6 DEF Line, n

\* What a step may do about a line: print it, as main does.
Prints(t) ==
    /\ lines' = Append(lines, [of |-> Line, time |-> t, ops |-> ops])
    /\ mtcnt' = mtcnt + 1 /\ pc' = "loop"
    /\ UNCHANGED <<dev, layoutcnt, ops, failures>>

\* A printed line is the next one of the request.
LEMMA PrintsNext ==
    ASSUME TypeInv, PlaceInv, LineInv, UNCHANGED input, pc \in WithinLine,
           NEW t \in {NaN, Repeats}, Prints(t),
           t = Repeats => ops = Line, t = NaN => pc = "failed"
    PROVE  TypeInv' /\ PlaceInv' /\ LineInv'
<1> DEFINE l == [of |-> Line, time |-> t, ops |-> ops]
           S == [of   : Combinations,
                 time : {NaN, Repeats},
                 ops  : Combinations \cup {None}]
<1>1. dev < Len(usedDevices) /\ layoutcnt < NumLayouts /\ mtcnt < NumTypes
    BY DEF PlaceInv
<1>2. l \in S /\ lines \in Seq(S) /\ lines' = Append(lines, l)
    BY <1>1, Lists DEF TypeInv, Prints
<1>3. /\ lines' \in Seq(S) /\ Len(lines) \in Nat /\ Len(lines') = Len(lines) + 1
      /\ \A n \in 1..Len(lines) : lines'[n] = lines[n]
      /\ lines'[Len(lines) + 1] = l
    BY <1>2, AppendProperties, LenProperties
<1>4. UNCHANGED <<usedDevices, NumLayouts, NumTypes, Requested>>
    BY DEF input, usedDevices, NumLayouts, NumTypes, layoutSet, typeSet, Requested
<1>5. TypeInv'
    BY <1>1, <1>3, <1>4, Lists DEF TypeInv, Prints, input
<1>6. PlaceInv'
  <2>1. \A n \in 1..Len(lines') : lines'[n].of = Requested'[n]
    <3>1. l.of = Requested[Len(lines) + 1]
        BY <1>1, LineIsNext
    <3>2. \A n \in 1..Len(lines) : lines[n].of = Requested[n]
        BY DEF PlaceInv
    <3>3. l.of = Line
        OBVIOUS
    <3> HIDE DEF l
    <3> QED BY ONLY <1>3, <1>4, <3>1, <3>2
  <2>2. Len(lines') = (((dev' * NumLayouts') + layoutcnt') * NumTypes') + mtcnt'
    <3>1. (((dev * NumLayouts) + layoutcnt) * NumTypes) \in Int /\ mtcnt \in Int
        BY Lists DEF TypeInv
    <3> QED BY <1>3, <1>4, <3>1 DEF PlaceInv, Prints
  <2>3. pc' = "loop" /\ dev' < Len(usedDevices') /\ layoutcnt' < NumLayouts'
      BY <1>1, <1>4 DEF Prints
  <2>4. pc' \notin WithinLine
      BY <2>3 DEF WithinLine, Calling
  <2>5. layoutcnt' # NumLayouts' /\ dev' # Len(usedDevices')
    <3>1. /\ NumLayouts \in Int /\ layoutcnt \in Int /\ Len(usedDevices) \in Int
          /\ dev \in Int /\ layoutcnt' = layoutcnt /\ dev' = dev
        BY Lists DEF TypeInv, Prints
    <3> QED BY <1>1, <1>4, <3>1
  <2> QED BY <2>1, <2>2, <2>3, <2>4, <2>5 DEF PlaceInv
<1>7. LineInv'
  <2>1. LineOK(l)
      BY DEF LineOK
  <2>2. \A n \in 1..Len(lines') : LineOK(lines'[n])
      BY <1>3, <2>1 DEF LineInv, LineOK
  <2>3. pc' \notin WithinLine \cup Calling /\ pc' # "profile" /\ pc' # "failed"
      BY DEF Prints, WithinLine, Calling
  <2>4. CASE t = NaN
    <3>1. NaNs' = NaNs \cup {Len(lines) + 1}
        BY <1>3, <2>4 DEF NaNs
    <3>2. Cardinality(NaNs') <= Cardinality(NaNs) + 1 /\ IsFiniteSet(NaNs')
          /\ Cardinality(NaNs) \in Nat /\ Cardinality(NaNs') \in Nat
      <4>1. IsFiniteSet(NaNs)
          BY DEF LineInv
      <4>2. /\ IsFiniteSet(NaNs \cup {Len(lines) + 1})
            /\ Cardinality(NaNs \cup {Len(lines) + 1})
                 \in {Cardinality(NaNs), Cardinality(NaNs) + 1}
          BY <4>1, FS_AddElement, Zenon
      <4>3. Cardinality(NaNs) \in Nat
          BY <4>1, FS_CardinalityType
      <4> QED BY <3>1, <4>2, <4>3
    <3>3. /\ Cardinality(NaNs) + 1 <= failures /\ failures' = failures /\ failures \in Nat
          /\ pc' = "loop"
        BY <2>4 DEF LineInv, Prints, TypeInv
    <3>4. Cardinality(NaNs') + (IF pc' = "failed" THEN 1 ELSE 0) <= failures'
        BY <3>2, <3>3
    <3> QED BY <2>2, <2>3, <3>2, <3>3, <3>4 DEF LineInv
  <2>5. CASE t # NaN
    <3>1. NaNs' = NaNs
        BY <1>3, <2>5 DEF NaNs
    <3>2. Cardinality(NaNs) \in Nat /\ IsFiniteSet(NaNs')
        BY <3>1, FS_CardinalityType DEF LineInv
    <3>3. pc # "failed" => Cardinality(NaNs) + 0 <= failures
        BY DEF LineInv
    <3>4. pc = "failed" => Cardinality(NaNs) + 1 <= failures
        BY DEF LineInv
    <3>5. failures' = failures /\ failures \in Nat /\ pc' = "loop"
        BY DEF Prints, TypeInv
    <3>6. Cardinality(NaNs') + (IF pc' = "failed" THEN 1 ELSE 0) <= failures'
        BY <3>1, <3>2, <3>3, <3>4, <3>5
    <3> QED BY <2>2, <2>3, <3>2, <3>6 DEF LineInv
  <2> QED BY <2>4, <2>5
<1> QED BY <1>5, <1>6, <1>7

\* Every step of main and of a call preserves the invariant of the lines.
LEMMA LinesStep ==
    ASSUME TypeInv, PlaceInv, LineInv, LeakInv, [Next]_vars
    PROVE  TypeInv' /\ PlaceInv' /\ LineInv'
<1>1. UNCHANGED input
    BY InputFixed
<1>2. UNCHANGED <<usedDevices, NumLayouts, NumTypes, Requested>>
    BY <1>1 DEF input, usedDevices, NumLayouts, NumTypes, layoutSet, typeSet, Requested
<1>3. /\ Len(usedDevices) \in Nat
      /\ NumLayouts \in {1, 2} /\ NumTypes \in {1, 3}
    BY Lists
<1>4. ASSUME UNCHANGED <<lines, dev, layoutcnt, mtcnt, ops, k, time>>,
             pc' \in {"failed"} \cup Calling \cup {"died"}, pc \in WithinLine,
             pc' \in Calling => k < Repeats,
             pc' = "profile" => kernelAt' = "done",
             \/ pc' # "failed" /\ failures' = failures
             \/ pc' = "failed" /\ pc # "failed" /\ failures' = failures + 1
      PROVE  TypeInv' /\ PlaceInv' /\ LineInv'
  <2>1. UNCHANGED <<NaNs, Line>>
      BY <1>1, <1>4 DEF NaNs, Line, input, usedDevices, dataLayout, memType, layoutSet,
         typeSet
  <2>2. TypeInv'
      BY <1>1, <1>2, <1>4 DEF TypeInv, input, WithinLine
  <2>3. PlaceInv'
      BY <1>2, <1>4 DEF PlaceInv, WithinLine, Calling
  <2>4. Cardinality(NaNs) \in Nat /\ IsFiniteSet(NaNs)
      BY FS_CardinalityType DEF LineInv
  <2>5. LineInv'
      BY <1>4, <2>1, <2>4 DEF LineInv, WithinLine, Calling, TypeInv, LineOK
  <2> QED BY <2>2, <2>3, <2>5
<1>5. ASSUME UNCHANGED <<lines, failures>>, pc' \in {"loop", "exit", "error"}
      PROVE  LineInv'
  <2>1. UNCHANGED NaNs
      BY <1>5 DEF NaNs
  <2>2. Cardinality(NaNs) \in Nat /\ IsFiniteSet(NaNs)
      BY FS_CardinalityType DEF LineInv
  <2>3. \A n \in 1..Len(lines') : LineOK(lines[n])' <=> LineOK(lines[n])
      BY <1>5 DEF LineOK
  <2>4. Cardinality(NaNs) <= failures
      BY <2>2 DEF LineInv, TypeInv
  <2> QED BY <1>5, <2>1, <2>2, <2>3, <2>4 DEF LineInv, WithinLine, Calling
<1>6. CASE NextLayout
  <2>1. /\ layoutcnt' = layoutcnt + 1 /\ layoutcnt < NumLayouts
        /\ mtcnt' = 0 /\ mtcnt = NumTypes /\ dev < Len(usedDevices)
        /\ UNCHANGED <<lines, failures, dev, ops, pc>> /\ pc = "loop"
      BY <1>6, Lists DEF NextLayout, TypeInv
  <2>2. TypeInv'
      BY <1>1, <1>2, <1>3, <2>1 DEF TypeInv, input
  <2>3. Len(lines) = ((((dev * NumLayouts) + layoutcnt + 1) * NumTypes) + 0)
    <3>1. Len(lines) = (((dev * NumLayouts) + layoutcnt) * NumTypes) + NumTypes
        BY <2>1 DEF PlaceInv
    <3>2. dev \in Int /\ layoutcnt \in Int
        BY DEF TypeInv
    <3> QED BY <1>3, <3>1, <3>2
  <2>4. \A n \in 1..Len(lines') : lines'[n].of = Requested'[n]
      BY <1>2, <2>1 DEF PlaceInv
  <2>5. Len(lines') = ((((dev' * NumLayouts') + layoutcnt') * NumTypes') + mtcnt')
    <3>1. (dev * NumLayouts) + layoutcnt + 1 = (dev * NumLayouts) + (layoutcnt + 1)
        BY <1>3 DEF TypeInv
    <3> QED BY <1>2, <2>1, <2>3, <3>1
  <2>6. PlaceInv'
      BY <1>2, <2>1, <2>4, <2>5 DEF PlaceInv, WithinLine, Calling
  <2> QED BY <1>5, <2>1, <2>2, <2>6
<1>7. CASE NextDevice
  <2>1. /\ layoutcnt' = 0 /\ layoutcnt = NumLayouts
        /\ mtcnt' = 0 /\ mtcnt = 0 /\ dev < Len(usedDevices) /\ dev' = dev + 1
        /\ UNCHANGED <<lines, failures, ops, pc>> /\ pc = "loop"
      BY <1>7, Lists DEF NextDevice, TypeInv, PlaceInv
  <2>2. TypeInv'
      BY <1>1, <1>2, <1>3, <2>1 DEF TypeInv, input
  <2>3. (dev * NumLayouts) + NumLayouts = (dev + 1) * NumLayouts
      BY <1>3 DEF TypeInv
  <2>4. PlaceInv'
      BY <1>2, <1>3, <2>1, <2>3 DEF PlaceInv, TypeInv, WithinLine, Calling
  <2> QED BY <1>5, <2>1, <2>2, <2>4
<1>8. CASE Exit
  <2>1. /\ UNCHANGED <<lines, failures, ops, dev, layoutcnt, mtcnt>>
        /\ pc' = "exit" /\ dev = Len(usedDevices)
      BY <1>8 DEF Exit, mainVars, loops
  <2>2. TypeInv' /\ PlaceInv'
      BY <1>1, <1>2, <2>1 DEF TypeInv, PlaceInv, WithinLine, Calling, input
  <2> QED BY <1>5, <2>1, <2>2
<1>9. CASE CreateContext
  <2>1. /\ UNCHANGED <<lines, dev, layoutcnt, mtcnt>> /\ pc = "loop"
        /\ dev < Len(usedDevices) /\ layoutcnt < NumLayouts /\ mtcnt < NumTypes
        /\ \/ pc' = "repeat" /\ k' = 0 /\ time' = 0 /\ ops' = None /\ UNCHANGED failures
           \/ pc' = "error" /\ failures' = failures + 1 /\ UNCHANGED <<k, time, ops>>
      BY <1>9, Lists DEF CreateContext, CallFails, TypeInv, loops
  <2>2. TypeInv'
      BY <1>1, <1>2, <2>1 DEF TypeInv, WithinLine, input
  <2>3. PlaceInv'
      BY <1>2, <2>1 DEF PlaceInv, WithinLine, Calling
  <2>4. UNCHANGED NaNs /\ Cardinality(NaNs) \in Nat /\ IsFiniteSet(NaNs)
      BY <2>1, FS_CardinalityType DEF NaNs, LineInv
  <2>5. LineInv'
      BY <2>1, <2>4, MemLatencyAssumption DEF LineInv, WithinLine, Calling, TypeInv, LineOK
  <2> QED BY <2>2, <2>3, <2>5
<1>10. CASE PrintMean
  <2>1. /\ pc = "repeat" /\ ~(k < Repeats) /\ Prints(time') /\ UNCHANGED time
      BY <1>10 DEF PrintMean, MoreRepeats, PrintLine, Prints
  <2>2. time = Repeats /\ k > 0 /\ ops = Line
      BY <2>1, MemLatencyAssumption DEF LineInv, WithinLine
  <2>3. Repeats # NaN /\ pc \in WithinLine
      BY <2>1, MemLatencyAssumption DEF NaN, WithinLine
  <2> QED BY <1>1, <2>1, <2>2, <2>3, PrintsNext
<1>11. CASE Failed
  <2>1. pc = "failed" /\ Prints(NaN)
      BY <1>11 DEF Failed, PrintLine, Prints
  <2>2. Repeats # NaN /\ pc \in WithinLine
      BY <2>1, MemLatencyAssumption DEF NaN, WithinLine
  <2> QED BY <1>1, <2>1, <2>2, PrintsNext
<1>12. CASE Prepare
  <2>1. UNCHANGED <<lines, dev, layoutcnt, mtcnt, ops, k, time, failures>>
      BY <1>12 DEF Prepare, mainVars, loops
  <2>2. pc = "repeat" /\ k < Repeats /\ pc' \in {"died", "commands"}
      BY <1>12 DEF Prepare, MoreRepeats
  <2> QED BY <1>4, <2>1, <2>2 DEF WithinLine, Calling
<1>13. CASE Cleanup
  <2>1. /\ UNCHANGED <<lines, dev, layoutcnt, mtcnt, failures>>
        /\ pc = "cleanup" /\ pc' = "repeat"
        /\ ops' = Line /\ time' = time + 1 /\ k' = k + 1
      BY <1>13 DEF Cleanup, loops
  <2>2. UNCHANGED <<NaNs, Line>>
      BY <1>1, <2>1 DEF NaNs, Line, input, usedDevices, dataLayout, memType, layoutSet,
         typeSet
  <2>3. Line \in Combinations
      BY <2>1, Lists DEF PlaceInv, WithinLine, Calling
  <2>4. TypeInv'
      BY <1>1, <1>2, <2>1, <2>3 DEF TypeInv, WithinLine, input
  <2>5. PlaceInv'
      BY <1>2, <2>1 DEF PlaceInv, WithinLine, Calling
  <2>6. Cardinality(NaNs) \in Nat /\ IsFiniteSet(NaNs)
      BY FS_CardinalityType DEF LineInv
  <2>7. LineInv'
      BY <2>1, <2>2, <2>6, MemLatencyAssumption
         DEF LineInv, WithinLine, Calling, TypeInv, LineOK
  <2> QED BY <2>4, <2>5, <2>7
<1>14. CASE Call /\ ~Prepare /\ ~Cleanup
  <2>1. pc \in Calling /\ UNCHANGED <<input, mainVars>> /\ (GoesOn \/ GivesUp)
      BY <1>14, CallStep DEF LineInv, LeakInv
  <2>2. /\ UNCHANGED <<lines, dev, layoutcnt, mtcnt, ops, k, time>>
        /\ pc \in WithinLine /\ pc # "failed" /\ k < Repeats
      BY <2>1 DEF mainVars, loops, WithinLine, Calling, LineInv
  <2>3. CASE GoesOn
      BY <1>4, <2>2, <2>3 DEF GoesOn, Calling
  <2>4. CASE GivesUp
      BY <1>4, <2>2, <2>4 DEF GivesUp, Calling
  <2> QED BY <2>1, <2>3, <2>4
<1>15. CASE Execute \/ UNCHANGED vars
  <2>1. /\ UNCHANGED <<pc, lines, dev, layoutcnt, mtcnt, ops, k, time, failures>>
        /\ kernelAt' \in {kernelAt, "done"}
      BY <1>15 DEF Execute, vars, mainVars, loops
  <2>2. UNCHANGED <<NaNs, Line>>
      BY <1>1, <2>1 DEF NaNs, Line, input, usedDevices, dataLayout, memType, layoutSet,
         typeSet
  <2>3. TypeInv' /\ PlaceInv'
      BY <1>1, <1>2, <2>1 DEF TypeInv, PlaceInv, input
  <2>4. LineInv'
      BY <2>1, <2>2 DEF LineInv, LineOK
  <2> QED BY <2>3, <2>4
<1> QED BY <1>6, <1>7, <1>8, <1>9, <1>10, <1>11, <1>12, <1>13, <1>14, <1>15
        DEF Next, Main
-----------------------------------------------------------------------------
(* What is left behind.                                                    *)

\* What a step leaves is released or paid for by a failing call.
LEMMA LeakStep ==
    ASSUME TypeInv, LineInv, LeakInv, [Next]_vars
    PROVE  LeakInv'
<1>1. ASSUME UNCHANGED <<leaked, failures>>, held' \subseteq Kinds \ {"descriptor"}
      PROVE  LeakInv'
    BY <1>1 DEF LeakInv, OnlyFailuresLeak
<1>2. ASSUME GivesUp PROVE LeakInv'
  <2>1. PICK what \in SUBSET Kinds : LeaveBehind(what)
      BY <1>2 DEF GivesUp
  <2>2. leaked' = [r \in Kinds |-> leaked[r] + IF r \in what THEN 1 ELSE 0] /\ held' = {}
      BY <2>1 DEF LeaveBehind
  <2>3. failures' = failures + 1 /\ failures \in Nat /\ leaked \in [Kinds -> Nat]
        /\ \A r \in Kinds \ {"info", "result", "event"} : leaked[r] <= failures
      BY <1>2 DEF GivesUp, TypeInv, LeakInv, OnlyFailuresLeak
  <2>4. leaked' \in [Kinds -> Nat]
        /\ \A r \in Kinds : leaked'[r] \in Nat /\ leaked'[r] <= leaked[r] + 1
      BY <2>2, <2>3
  <2>5. \A r \in Kinds \ {"info", "result", "event"} : leaked'[r] <= failures'
      BY <2>3, <2>4
  <2> QED BY <2>2, <2>4, <2>5 DEF LeakInv, OnlyFailuresLeak
<1>3. CASE Cleanup
  <2> DEFINE what == held \ {"input", "program", "kernel", "commands", "data"}
  <2>1. /\ leaked' = [r \in Kinds |-> leaked[r] + IF r \in what THEN 1 ELSE 0]
        /\ held' = {} /\ UNCHANGED failures
      BY <1>3 DEF Cleanup, LeaveBehind
  <2>2. what \subseteq {"info", "result", "event"}
      BY DEF LeakInv, Kinds
  <2> HIDE DEF what
  <2>3. leaked' \in [Kinds -> Nat]
      BY <2>1 DEF LeakInv
  <2>4. \A r \in Kinds \ {"info", "result", "event"} : leaked'[r] = leaked[r]
    <3> SUFFICES ASSUME NEW r \in Kinds, r \notin {"info", "result", "event"}
                 PROVE  leaked'[r] = leaked[r]
        OBVIOUS
    <3>1. r \notin what
        BY <2>2
    <3>2. leaked[r] \in Nat
        BY DEF LeakInv
    <3> QED BY <2>1, <3>1, <3>2
  <2> QED BY <2>1, <2>3, <2>4 DEF LeakInv, OnlyFailuresLeak
<1>4. CASE Prepare
  <2>1. UNCHANGED <<leaked, failures>> /\ held' \subseteq held \cup {"info", "data"}
      BY <1>4 DEF Prepare
  <2> QED BY <1>1, <2>1 DEF LeakInv, Kinds
<1>5. CASE Call /\ ~Prepare /\ ~Cleanup
  <2>1. GoesOn \/ GivesUp
      BY <1>5, CallStep DEF LineInv, LeakInv
  <2> QED BY <1>1, <1>2, <2>1 DEF GoesOn, LeakInv
<1>6. CASE CreateContext
  <2>1. UNCHANGED <<held, leaked>> /\ failures' \in {failures, failures + 1}
      BY <1>6 DEF CreateContext, CallFails
  <2> QED BY <2>1 DEF LeakInv, OnlyFailuresLeak, TypeInv
<1>7. CASE \/ NextLayout \/ NextDevice \/ Exit \/ PrintMean \/ Failed \/ Execute
           \/ UNCHANGED vars
  <2>1. UNCHANGED <<held, leaked, failures>>
      BY <1>7 DEF NextLayout, NextDevice, Exit, PrintMean, Failed, Execute, vars
  <2> QED BY <1>1, <2>1 DEF LeakInv
<1> QED BY <1>3, <1>4, <1>5, <1>6, <1>7 DEF Next, Main

\* The invariant holds before the first device.
LEMMA MainInit == Init => MainInv
<1> SUFFICES ASSUME Init PROVE MainInv
    OBVIOUS
<1> USE MemLatencyAssumption
<1>1. /\ deviceId \in DeviceIds /\ pc = "loop" /\ dev = 0 /\ layoutcnt = 0 /\ mtcnt = 0
      /\ ops = None /\ lines = << >> /\ failures = 0
      /\ held = {} /\ leaked = [r \in Kinds |-> 0]
    BY DEF Init
<1>2. Len(usedDevices) \in Nat \ {0}
    BY <1>1 DEF usedDevices
<1>3. NumLayouts \in {1, 2} /\ NumTypes \in {1, 3}
    BY DEF NumLayouts, NumTypes
<1>4. TypeInv
    BY <1>1, <1>2, <1>3, EmptySeq DEF TypeInv, WithinLine
<1>5. PlaceInv
    BY <1>1, <1>2, <1>3 DEF PlaceInv, WithinLine, Calling
<1>6. NaNs = {}
    BY <1>1 DEF NaNs
<1>7. LineInv
    BY <1>1, <1>6, FS_EmptySet DEF LineInv, WithinLine, Calling
<1>8. LeakInv
    BY <1>1 DEF LeakInv, OnlyFailuresLeak
<1> QED BY <1>4, <1>5, <1>7, <1>8 DEF MainInv
-----------------------------------------------------------------------------
\* A sequence whose elements begin a longer one is a prefix of it.
LEMMA PrefixIs ==
    \A m, n \in Nat : \A s, t :
        /\ m <= n /\ s = [x \in 1..m |-> s[x]] /\ t = [x \in 1..n |-> t[x]]
        /\ \A x \in 1..m : s[x] = t[x]
        => IsPrefix(s, t) /\ (m = n => s = t)
<1> TAKE m, n \in Nat
<1> TAKE s, t
<1> HAVE /\ m <= n /\ s = [x \in 1..m |-> s[x]] /\ t = [x \in 1..n |-> t[x]]
         /\ \A x \in 1..m : s[x] = t[x]
<1> DEFINE S == {s[x] : x \in 1..m} \cup {t[x] : x \in 1..n}
<1>1. s \in Seq(S) /\ t \in Seq(S) /\ Len(s) = m /\ Len(t) = n
  <2>1. (\A x \in 1..m : s[x] \in S) /\ (\A x \in 1..n : t[x] \in S)
      OBVIOUS
  <2> HIDE DEF S
  <2>2. s \in [1..m -> S]
      BY <2>1
  <2>3. t \in [1..n -> S]
      BY <2>1
  <2> QED BY <2>2, <2>3, SeqDef, LenProperties
<1> HIDE DEF S
<1>2. \A x \in 1..m : s[x] \in S /\ t[x] \in S
    BY <1>1, ElementOfSeq
<1>3. SubSeq(s, 1, m) \in Seq(S) /\ SubSeq(t, 1, m) \in Seq(S)
      /\ Len(SubSeq(s, 1, m)) = m /\ Len(SubSeq(t, 1, m)) = m
      /\ \A x \in 1..m : SubSeq(s, 1, m)[x] = s[x] /\ SubSeq(t, 1, m)[x] = t[x]
  <2>1. 1 \in Int /\ m \in Int
      OBVIOUS
  <2>2. ASSUME NEW q, \A x \in 1..m : q[x] \in S
        PROVE  /\ SubSeq(q, 1, m) \in Seq(S)
               /\ Len(SubSeq(q, 1, m)) = IF 1 <= m THEN m - 1 + 1 ELSE 0
               /\ \A x \in 1..(m - 1 + 1) : SubSeq(q, 1, m)[x] = q[1 + x - 1]
      BY <2>1, <2>2, SubSeqProperties
  <2>3. ASSUME NEW q, \A x \in 1..m : q[x] \in S
        PROVE  /\ SubSeq(q, 1, m) \in Seq(S) /\ Len(SubSeq(q, 1, m)) = m
               /\ \A x \in 1..m : SubSeq(q, 1, m)[x] = q[x]
      BY <2>2, <2>3
  <2> QED BY <1>2, <2>3
<1>4. SubSeq(s, 1, m) = SubSeq(t, 1, m)
    BY <1>3, SeqEqual
<1> QED BY <1>1, <1>4, SeqEqual DEF IsPrefix

\* The invariant holds throughout.
LEMMA MainInvariant == Spec => []MainInv
<1>1. MainInv /\ [Next]_vars => MainInv'
    BY LinesStep, LeakStep DEF MainInv
<1> QED BY MainInit, <1>1, PTL DEF Spec

\* What is printed follows the request, in order and without gaps, whichever
\* calls fail: all of it by the time the program exits.
LEMMA PlaceGivesOrder == MainInv => LinesFollowTheRequest
<1> SUFFICES ASSUME TypeInv, PlaceInv PROVE LinesFollowTheRequest
    BY DEF MainInv
<1> DEFINE N == Len(usedDevices) * (NumLayouts * NumTypes)
<1>1. /\ Len(usedDevices) \in Nat /\ NumLayouts \in {1, 2} /\ NumTypes \in {1, 3}
    BY Lists
<1>2. N \in Nat /\ Len(lines) \in Nat /\ Len(lines) <= N
  <2>1. CASE dev < Len(usedDevices)
    <3>1. CASE layoutcnt < NumLayouts
        BY <1>1, <2>1, <3>1 DEF PlaceInv, TypeInv
    <3>2. CASE layoutcnt = NumLayouts
        BY <1>1, <2>1, <3>2 DEF PlaceInv, TypeInv
    <3> QED BY <1>1, <3>1, <3>2 DEF TypeInv
  <2>2. CASE dev = Len(usedDevices)
      BY <1>1, <2>2 DEF PlaceInv
  <2> QED BY <1>1, <2>1, <2>2 DEF TypeInv
<1>3. DOMAIN Requested = 1..N
  <2>1. CASE layoutSet
    <3>1. CASE typeSet
        BY <2>1, <3>1 DEF Requested, NumLayouts, NumTypes
    <3>2. CASE ~typeSet
        BY <2>1, <3>2 DEF Requested, NumLayouts, NumTypes, MemTypes
    <3> QED BY <3>1, <3>2
  <2>2. CASE ~layoutSet
    <3>1. CASE typeSet
        BY <2>2, <3>1 DEF Requested, NumLayouts, NumTypes, Layouts
    <3>2. CASE ~typeSet
        BY <2>2, <3>2 DEF Requested, NumLayouts, NumTypes, MemTypes, Layouts
    <3> QED BY <3>1, <3>2
  <2> QED BY <2>1, <2>2
<1>4. Requested = [n \in 1..N |-> Requested[n]]
    BY <1>3 DEF Requested
<1>5. \A n \in 1..Len(lines) : Printed[n] = Requested[n]
    BY DEF Printed, PlaceInv
<1>6. Printed = [n \in 1..Len(lines) |-> Printed[n]]
    BY DEF Printed
<1> HIDE DEF N
<1>7. IsPrefix(Printed, Requested) /\ (Len(lines) = N => Printed = Requested)
  <2>1. Len(lines) \in Nat /\ N \in Nat /\ Len(lines) <= N
      BY <1>2
  <2>2. \A s, t :
           /\ s = [x \in 1..Len(lines) |-> s[x]] /\ t = [x \in 1..N |-> t[x]]
           /\ \A x \in 1..Len(lines) : s[x] = t[x]
           => IsPrefix(s, t) /\ (Len(lines) = N => s = t)
      BY <2>1, PrefixIs
  <2> QED BY <1>4, <1>5, <1>6, <2>2, Zenon
<1>8. ASSUME pc = "exit" PROVE Len(lines) = N
  <2>1. dev = Len(usedDevices) /\ layoutcnt = 0 /\ mtcnt = 0
      BY <1>8 DEF PlaceInv
  <2> QED BY <1>1, <2>1 DEF PlaceInv, N
<1> QED BY <1>7, <1>8 DEF LinesFollowTheRequest

\* Whatever calls fail and whatever the options name, each combination asked
\* for is printed once, in the order of main's loops.
THEOREM LinesInOrder == Spec => []LinesFollowTheRequest
  BY MainInvariant, PlaceGivesOrder, PTL

\* A line is the mean over all its repeats, with the operations of its own
\* layout and type, or not a number, and there are no more of those than
\* failing calls.
THEOREM LinesOfTheirRepeats == Spec => []LineIsOfItsRepeats
<1>1. MainInv => LineIsOfItsRepeats
  <2> SUFFICES ASSUME TypeInv, LineInv PROVE LineIsOfItsRepeats
      BY DEF MainInv
  <2>1. Cardinality(NaNs) \in Nat
      BY FS_CardinalityType DEF LineInv
  <2>2. Cardinality(NaNs) <= failures
      BY <2>1 DEF LineInv, TypeInv
  <2> QED BY <2>2 DEF LineInv, LineIsOfItsRepeats, LineOK, NaNs
<1> QED BY MainInvariant, <1>1, PTL

\* A successful call releases whatever a kind of resource it acquired, but
\* for three kinds: of the others no more are left than calls have failed.
THEOREM FailuresAloneLeak == Spec => []OnlyFailuresLeak
<1>1. MainInv => OnlyFailuresLeak
    BY DEF MainInv, LeakInv
<1> QED BY MainInvariant, <1>1, PTL
=============================================================================
