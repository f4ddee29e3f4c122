------------------------------ MODULE MCUdpPath ------------------------------
(***************************************************************************)
(* Two slots and four frames: of two datagrams, of too many, of one that   *)
(* is shorter than what was in its slot, and one with number UINT32_MAX.   *)
(* The first two that can arrive have interleaved and planar chroma, both  *)
(* with padded rows.                                                       *)
(***************************************************************************)
EXTENDS JpegPath

MCSize == [f \in Frames |-> CASE f = 0 -> 3 [] f = 1 -> 5 [] f = 2 -> 1 [] f = 3 -> 2]

Interleaved == [width |-> 4, height |-> 4, yStride |-> 5, uvStride |-> 6, uvStep |-> 2]
Planar == [width |-> 4, height |-> 2, yStride |-> 6, uvStride |-> 3, uvStep |-> 1]
MCImage == [f \in Frames |-> IF f = 0 THEN Interleaved ELSE Planar]
=============================================================================
