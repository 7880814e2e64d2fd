----------------------------- MODULE MCDirectories -----------------------------
(***************************************************************************)
(* A directory, one below it with a file in it, a link to that one, and a  *)
(* directory that other programs remove again.                             *)
(***************************************************************************)
EXTENDS Directories

CONSTANTS root, outer, inner, file, alias, temp, c1, c2

ThePaths   == {outer, inner, file, alias, temp}
TheParents == [p \in ThePaths |-> CASE p = inner -> outer
                                    [] p = file  -> inner
                                    [] OTHER     -> root]
TheLinks   == [p \in {alias} |-> inner]
TheDirs    == {inner, alias, temp}
TheFiles   == {file}
OnlyTemp   == {temp}
TwoCallers == {c1, c2}
=============================================================================
