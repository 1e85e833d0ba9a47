--------------------------- MODULE MCLatencyChase ---------------------------
(***************************************************************************)
(* A small instance of LatencyChase: 4 words for the 128 of the source, a  *)
(* 5-bit unsigned int and a 10-bit unsigned long, so that 2 words of the   *)
(* one make the other, as 32 and 64 bits do.                               *)
(***************************************************************************)
EXTENDS LatencyChase

\* Byte sizes, at 2 bytes a word: none, below one step, one step, between
\* one and two, two steps and a remainder, up to the widest block of 28 words.
MCRequests == {0, 5, 8, 14, 16, 17, 25, 41, 63}

\* Devices with less than the headroom, none to spare, and some.
MCMemSizes == {1, 2, 20, 36, 300}
=============================================================================
