--------------------------- MODULE MCSegmentFetch ---------------------------
(* SegmentFetch with one .ts link and one other segment, which every playlist
   lists. *)
EXTENDS SegmentFetch

CONSTANTS a, b, s1, s2, w1, w2, v1, v2

MCListings == {<<b, a>>}
=============================================================================
