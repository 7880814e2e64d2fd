---------------------------- MODULE MCPlatformFile ----------------------------
(***************************************************************************)
(* Platform files of at most three bytes on pages of two: calls that stay  *)
(* inside the file, that grow it within a page and into the next page, and *)
(* that ask for more than the file system gives.                           *)
(***************************************************************************)
EXTENDS PlatformFile, TLC

CONSTANTS t1, t2, h1, h2, i1

OneThread  == {t1}
TwoThreads == {t1, t2}
OneHandle  == {h1}
TwoHandles == {h1, h2}
OneInode   == {i1}
TwoBytes   == {0, 1}

On(h, requests, offsets, bytes) ==
  [op : {"read"}, handle : {h}, requested : requests]
    \cup [op : {"write"}, handle : {h}, requested : requests, byte : bytes]
    \cup [op : {"write_to"}, handle : {h}, requested : requests, offset : offsets, byte : bytes]

ReadFrom(h, requests, offsets) ==
  [op : {"read_from"}, handle : {h}, requested : requests, offset : offsets]

Seek(h, offsets) == [op : {"seek"}, handle : {h}, offset : offsets, whence : Whence]

\* Transfers of two threads on one handle.  read_from stays inside the file
\* the runs start with, so that it never has to grow it.
SharedCalls == On(h1, {1, 2}, {0, 1}, {1}) \cup ReadFrom(h1, {2}, {0})

\* One thread and every operation on two handles of one file.
SequentialCalls ==
  On(h1, {1, 2}, {0, 2}, {1}) \cup ReadFrom(h1, {1}, {1, 2}) \cup Seek(h1, {-1, 0, 2})
    \cup On(h2, {1}, {2}, {1})

\* A seek, and a transfer it may overtake.
SeekCalls == Seek(h1, {1}) \cup On(h1, {1}, {}, {1})
=============================================================================
