------------------------- MODULE MCKernelOverheads -------------------------
(* A small instance of KernelOverheads: for the enumeration alone all      *)
(* systems of up to three platforms and two failures, for the benchmark    *)
(* those of up to two devices on two platforms and one failure.            *)
EXTENDS KernelOverheads

MCTests == <<[args |-> 1, lines |-> 8], [args |-> 2, lines |-> 2]>>

MCInit ==
    /\ OverheadsInit
    /\ stage = "options" => present \in {<< >>, <<1>>, <<2>>, <<0, 1>>, <<1, 1>>}

MCNext == OverheadsNext /\ (stage # "elsewhere" => failures' <= 1)

MCSpec == MCInit /\ [][MCNext]_all
=============================================================================
