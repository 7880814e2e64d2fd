---------------------------- MODULE MCArchiveSystem ----------------------------
(***************************************************************************)
(* Two directories: one has the file itself, the other a link to a link to *)
(* a file elsewhere.  One loader takes both formats, the other only one.   *)
(***************************************************************************)
EXTENDS ArchiveSystem

CONSTANTS p1, p2, n1, own, alias, further, far, l1, l2, c1

ThePaths      == {p1, p2}
TheNames      == {n1}
ThePlaces     == {own, alias, further, far}
TheChildPaths == [x \in ThePaths \X TheNames |-> IF x[1] = p1 THEN own ELSE alias]
TheLinks      == [place \in {alias, further} |-> IF place = alias THEN further ELSE far]
TheLoaders    == {l1, l2}
TheFormats    == {"pak", "zip"}
TheAccepts    == [l \in TheLoaders |-> IF l = l1 THEN {"pak", "zip"} ELSE {"zip"}]
OneCaller     == {c1}
=============================================================================
