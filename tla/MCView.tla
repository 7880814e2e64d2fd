-------------------------------- MODULE MCView --------------------------------
(***************************************************************************)
(* A view of two or three bytes shared by two or three threads: every      *)
(* operation, with arguments that stay inside, end at, or go past the end  *)
(* of the view.                                                            *)
(***************************************************************************)
EXTENDS View, TLC

CONSTANTS t1, t2, t3

TwoThreads    == {t1, t2}
ThreeThreads  == {t1, t2, t3}
OneByte       == {0}
TwoBytes      == {0, 1}
MCFromOffsets == {-1, 1, 2}
MCSeekOffsets == {-1, 1, 3}
AllOperations == LockedTransfers \cup UnlockedTransfers \cup {"seek"}
Locking       == LockedTransfers \cup {"seek"}
Symmetry      == Permutations(ThreeThreads)
=============================================================================
