----------------------------- MODULE MCMappedFile -----------------------------
(***************************************************************************)
(* Files of at most six bytes on pages of four: views that start inside a  *)
(* page, end inside the file, at its end, or past it, and cross a page.    *)
(***************************************************************************)
EXTENDS MappedFile, TLC

CONSTANTS f1, f2, v1, v2, i1, i2

TwoFiles    == {f1, f2}
TwoViews    == {v1, v2}
OneInode    == {i1}
TwoInodes   == {i1, i2}
SomeOffsets == {-1, 0, 3}
Symmetry    == Permutations(TwoFiles) \cup Permutations(TwoViews) \cup Permutations(TwoInodes)
=============================================================================
