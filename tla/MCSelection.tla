----------------------------- MODULE MCSelection -----------------------------
(***************************************************************************)
(* A small instance of Selection: lists of up to three tokens, for a       *)
(* machine of two devices and rows of two sizes.                           *)
(***************************************************************************)
EXTENDS Selection

MCDeviceLists == BoundedSeq({0, 1, 2, 3, Invalid}, 3) \cup {NotGiven}
MCSizeLists   == BoundedSeq({5, 7, Invalid}, 3) \cup {NotGiven}
=============================================================================
