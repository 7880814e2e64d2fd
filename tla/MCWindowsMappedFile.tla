------------------------- MODULE MCWindowsMappedFile --------------------------
(***************************************************************************)
(* Two views of two handles of a file of at most six bytes, granularity    *)
(* four: views within one unit, across two, up to the end, and too long.   *)
(***************************************************************************)
EXTENDS WindowsMappedFile, TLC

CONSTANTS f1, f2, v1, v2

TwoFiles    == {f1, f2}
TwoViews    == {v1, v2}
SomeOffsets == {-1, 0, 3, 5}
Symmetry    == Permutations(TwoFiles) \cup Permutations(TwoViews)
=============================================================================
