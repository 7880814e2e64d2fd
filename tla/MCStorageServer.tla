---------------------------- MODULE MCStorageServer ----------------------------
(***************************************************************************)
(* A directory with changing files, an archive, and a hashed-only archive  *)
(* that has the same path as the other.                                    *)
(***************************************************************************)
EXTENDS StorageServer

CONSTANTS n1, h1, loose, archive, patch, c1

TheNames      == {n1}
TheHashes     == {h1}
TheHash       == [n \in {n1} |-> h1]
TheMountables == {loose, archive, patch}
TheOffers     == [m \in TheMountables |-> CASE m = loose   -> {n1}
                                            [] m = archive -> {n1}
                                            [] m = patch   -> {h1}]
ThePaths      == [m \in TheMountables |-> IF m = loose THEN "loose" ELSE "archive"]
OnlyLoose     == {loose}
OneCaller     == {c1}
=============================================================================
