--------------------------- MODULE MCNearestServers ---------------------------
(* NearestServers on small files, and what KNearest rests on: in any short sequence *)
(* HasRank agrees with sorting.                                                     *)
EXTENDS NearestServers, SequencesExt

ASSUME RankIsPlaceInOrder ==
  \A s \in BoundedSeq(0..3, 5) :
    LET sorted == SortSeq(s, LAMBDA a, b : a < b)
    IN  \A x \in 0..3, i \in 0..(Len(s) - 1) : HasRank(s, x, i) <=> x = sorted[i + 1]
=============================================================================
