---------------------------- MODULE StreamKernel ----------------------------
(***************************************************************************)
(* The kernels local_mem, global_mem and private_mem of mem_streaming.cl,  *)
(* as one launch of work-groups of work-items.  Every work-item fills its  *)
(* part of two arrays, s1 and the twice as long s2, waits at a barrier for *)
(* its group, adds s2[idx] + s2[2*idx] to its part of s1, and adds that    *)
(* part up in output.  It reads cells of s2 other work-items have filled.  *)
(*                                                                         *)
(* The arrays of local_mem belong to a group and those of private_mem to a *)
(* work-item, and hold nothing when a launch begins.  Those of global_mem  *)
(* are buffers all the groups share, and outlive the launch.               *)
(*                                                                         *)
(* The components of a vector are treated alike, so a cell has one value,  *)
(* and the 100 * 100 additions to a cell count as one.                     *)
(***************************************************************************)
EXTENDS Integers, FiniteSets

CONSTANT
    Groups,    \* the most groups of a launch
    Locals,    \* the most work-items of a group
    Cells      \* the most cells of s1

ASSUME KernelAssumption ==
    Groups \in Nat \ {0} /\ Locals \in Nat \ {0} /\ Cells \in Nat \ {0}

VARIABLES
    type,        \* the kernel
    units,       \* groups of a launch
    localRange,  \* work-items of a group
    ELEMENTS,    \* cells of s1 the kernel is compiled for
    allocated,   \* cells of s1 there are
    phase, idx,  \* where each work-item is
    half,        \* the cells of s2 that hold 0.5
    s1,          \* what each cell of s1 holds
    output,      \* the sums of the work-items
    warm,        \* whether s2 held 0.5 when the launch began
    launches,    \* history: launches begun on these buffers
    dirty,       \* history: those in which Garbage was read
    stray        \* whether something outside the arrays was accessed

shape == <<type, units, localRange, ELEMENTS, allocated>>
kernelVars == <<shape, phase, idx, half, s1, output, warm, launches, dirty, stray>>

Types == {"local", "private", "global"}

AllItems == (0..(Groups - 1)) \X (0..(Locals - 1))
Items    == (0..(units - 1)) \X (0..(localRange - 1))

\* What memory holds that nothing was stored in, and all that is computed
\* from it.
Garbage == -1

\* The memory that holds the arrays a work-item uses.
Space(it) == CASE type = "private" -> it
               [] type = "local"   -> <<it[1], 0>>
               [] type = "global"  -> <<0, 0>>

\* A work-item of private_mem uses all the cells of its arrays, the others
\* share theirs out.
First(it) == IF type = "private" THEN 0 ELSE it[2]
Step      == IF type = "private" THEN 1 ELSE localRange

Idle == \A it \in Items : phase[it] = "done"

\* Mutant: the loops go one cell too far.
AdvanceInclusive(it, limit, nextPhase, start) ==
    IF idx[it] + Step <= limit
    THEN idx' = [idx EXCEPT ![it] = @ + Step] /\ UNCHANGED phase
    ELSE idx' = [idx EXCEPT ![it] = start] /\ phase' = [phase EXCEPT ![it] = nextPhase]

\* A work-item at the last cell of a loop goes on to the next one.
Advance(it, limit, nextPhase, start) ==
    IF idx[it] + Step < limit
    THEN idx' = [idx EXCEPT ![it] = @ + Step] /\ UNCHANGED phase
    ELSE idx' = [idx EXCEPT ![it] = start] /\ phase' = [phase EXCEPT ![it] = nextPhase]
-----------------------------------------------------------------------------
\* Fresh buffers, for the launches to come.
NewBuffers ==
    /\ half' = {} /\ s1' = [c \in AllItems \X (0..(Cells - 1)) |-> Garbage]
    /\ output' = [it \in AllItems |-> 0]
    /\ phase' = [it \in AllItems |-> "done"] /\ idx' = [it \in AllItems |-> 0]
    /\ warm' = FALSE /\ launches' = 0 /\ dirty' = {}

\* reqd_work_group_size and the host make a group no larger than ELEMENTS,
\* so that every work-item enters every loop.
BeginLaunch ==
    /\ phase' = [it \in AllItems |-> IF it \in Items THEN "lower" ELSE "done"]
    /\ idx' = [it \in AllItems |-> IF it \in Items THEN First(it) ELSE 0]
    /\ IF type = "global" THEN UNCHANGED <<half, s1>>
       ELSE half' = {} /\ s1' = [c \in DOMAIN s1 |-> Garbage]
    /\ warm' = (type = "global" /\ launches > 0)
    /\ launches' = launches + 1
    /\ UNCHANGED <<shape, output, dirty, stray>>

\* An access behind the end of an array: nothing is known after it.
Stray == stray' = TRUE /\ UNCHANGED <<phase, idx, half, s1>>

FillLower(it) ==
    /\ phase[it] = "lower"
    /\ IF idx[it] >= allocated THEN Stray
       ELSE /\ half' = half \cup {<<Space(it), idx[it]>>}
            /\ s1' = [s1 EXCEPT ![<<Space(it), idx[it]>>] = 0]
            /\ Advance(it, ELEMENTS, "upper", First(it) + ELEMENTS)
            /\ UNCHANGED stray
    /\ UNCHANGED <<shape, output, warm, launches, dirty>>

\* Mutant: the upper half of s2 is left as it is.
FillUpperNot(it) ==
    /\ phase[it] = "upper"
    /\ IF idx[it] >= 2 * allocated THEN Stray
       ELSE /\ Advance(it, 2 * ELEMENTS, "barrier", First(it))
            /\ UNCHANGED <<half, s1, stray>>
    /\ UNCHANGED <<shape, output, warm, launches, dirty>>

FillUpper(it) ==
    /\ phase[it] = "upper"
    /\ IF idx[it] >= 2 * allocated THEN Stray
       ELSE /\ half' = half \cup {<<Space(it), idx[it]>>}
            /\ Advance(it, 2 * ELEMENTS, "barrier", First(it))
            /\ UNCHANGED <<s1, stray>>
    /\ UNCHANGED <<shape, output, warm, launches, dirty>>

Members(g) == {it \in Items : it[1] = g}

\* Mutant: there is no barrier.
BarrierNone(g) ==
    /\ g < units
    /\ \E it \in Members(g) : phase[it] = "barrier"
                              /\ phase' = [phase EXCEPT ![it] = "add"]
    /\ UNCHANGED <<shape, idx, half, s1, output, warm, launches, dirty, stray>>

Barrier(g) ==
    /\ g < units
    /\ \A it \in Members(g) : phase[it] = "barrier"
    /\ phase' = [it \in AllItems |-> IF it \in Members(g) THEN "add" ELSE phase[it]]
    /\ UNCHANGED <<shape, idx, half, s1, output, warm, launches, dirty, stray>>

\* The work-item that fills a cell of s2: the upper half is dealt out anew.
Owner(c) == (IF c < ELEMENTS THEN c ELSE c - ELEMENTS) % localRange

\* What a work-item may read from a cell of s2.  The barrier fences local
\* memory only: in a buffer, the cell of another work-item may still look as
\* it did when the launch began.
MayBeHalf(it, c) == <<Space(it), c>> \in half
MayBeGarbage(it, c) ==
    ~MayBeHalf(it, c) \/ (type = "global" /\ ~warm /\ Owner(c) # it[2])

Add(it) ==
    /\ phase[it] = "add"
    /\ LET read == {idx[it], 2 * idx[it]}
           sum  == s1[<<Space(it), idx[it]>>]
       IN  \/ /\ \A c \in read : MayBeHalf(it, c)
              /\ s1' = [s1 EXCEPT ![<<Space(it), idx[it]>>] =
                                    IF sum = Garbage THEN Garbage ELSE sum + 1]
              /\ UNCHANGED dirty
           \/ /\ \E c \in read : MayBeGarbage(it, c)
              /\ s1' = [s1 EXCEPT ![<<Space(it), idx[it]>>] = Garbage]
              /\ dirty' = dirty \cup {launches}
    /\ Advance(it, ELEMENTS, "sum", First(it))
    /\ UNCHANGED <<shape, half, output, warm, launches, stray>>

Sum(it) ==
    /\ phase[it] = "sum"
    /\ LET cell == s1[<<Space(it), idx[it]>>]
       IN  output' = [output EXCEPT ![it] =
                        IF Garbage \in {@, cell} THEN Garbage ELSE @ + cell]
    /\ Advance(it, ELEMENTS, "done", 0)
    /\ UNCHANGED <<shape, half, s1, warm, launches, dirty, stray>>

Work(it) == FillLower(it) \/ FillUpper(it) \/ Add(it) \/ Sum(it)

Running == /\ ~stray
           /\ \/ \E it \in Items : Work(it)
              \/ \E g \in 0..(Groups - 1) : Barrier(g)
=============================================================================
