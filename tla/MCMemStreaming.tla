--------------------------- MODULE MCMemStreaming ---------------------------
(***************************************************************************)
(* Small devices for MemStreaming: two compute units of four work-items,   *)
(* halved to two for three elements; and one unit of two work-items.       *)
(***************************************************************************)
EXTENDS MemStreaming

MCSquare == {<<4, 2>>}
MCPair   == {<<2, 1>>}
=============================================================================
