---------------------------- MODULE MCMemLatency ----------------------------
(***************************************************************************)
(* A small instance of MemLatency: a machine whose devices have room for   *)
(* every block, none for constants, or a single step of local memory.      *)
(***************************************************************************)
EXTENDS MemLatency

\* All devices, or the last one.
MCDeviceIds == {-1, 1}

MCBlockKinds ==
    {[t \in Range(MemTypes) |-> "larger"],
     [t \in Range(MemTypes) |-> IF t = "const" THEN "empty" ELSE "larger"],
     [t \in Range(MemTypes) |-> IF t = "local" THEN "step" ELSE "larger"]}
=============================================================================
