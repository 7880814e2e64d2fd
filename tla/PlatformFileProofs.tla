-------------------------- MODULE PlatformFileProofs --------------------------
(***************************************************************************)
(* Platform files for any number of threads, handles and calls, any sizes  *)
(* and any page size.                                                      *)
(*                                                                         *)
(* All rests on what the program counter says of a thread: that its view   *)
(* is the one its call asked for, that its file stays open for as long,    *)
(* and which locks it holds.  Four things are built on that.               *)
(*                                                                         *)
(* - dirty: a byte that is not on disk belongs to a write still running.   *)
(* - Backing: where a view through a writable file ends, the file does not *)
(*   end before.  It needs GrowthAgreed: two calls that are to truncate    *)
(*   the file at the same time agree on its size.  The exclusive lock sees *)
(*   to that for the calls of one handle, except read_from, whose callers  *)
(*   have to agree among themselves (ReadersAgree).                        *)
(* - the cursor: a transfer works on the bytes behind it.  That needs      *)
(*   SeeksApart: seek takes no lock, so its callers have to.               *)
(* - the refinement of AtomicFile, on writable handles.  Shown says what   *)
(*   the mapping shows, and needs SeeksAlone; Blank, that a file which     *)
(*   grows grows by zeros.  A call takes effect with its memcpy.           *)
(***************************************************************************)
EXTENDS PlatformFile, ViewArithProofs, FiniteSetTheorems

Transfers == Exclusive \cup {"read_from"}

\* The stages of a call, by what they hold.
Outside == {"idle", "enter", "settle", "told"}
Mapped  == {"mapped", "copied", "flush", "done"}

Access(t) == file[HandleOf(t)].access

\* The file a caller holds is the one the path names; nothing else is open.
OneInode ==
  \A h \in Handles :
    IF file[h].owned THEN path \in Inodes /\ file[h].inode = path
    ELSE file[h] = Storage!ClosedFile

\* What the program counter of a thread says of its call and its view.
InOrder(t) ==
  /\ pc[t] # "idle" => call[t] \in Calls /\ file[HandleOf(t)].owned
  /\ pc[t] \in Outside => view[t] = Storage!FreeView
  /\ pc[t] = "opening" => view[t].stage \in {"sized", "grown"}
  /\ pc[t] \in Mapped => view[t].stage = "mapped"
  /\ pc[t] \in {"settle", "told"} => call[t].op = "seek"
  /\ pc[t] \notin Outside =>
       /\ call[t].op \in Transfers
       /\ view[t].file = HandleOf(t)
       /\ view[t].view_length = call[t].requested
       /\ view[t].file_size <= MaxFileSize
  /\ view[t].stage = "mapped" => Storage!Mappable(t)
  /\ view[t].stage \in {"grown", "mapped"} /\ Storage!CanWrite(Access(t)) =>
       Storage!MappingEnd(t) <= MaxFileSize

\* What a call has loaded: a cursor to add to, or the target of a seek.
Loaded(t) ==
  /\ pc[t] = "copied" => seen[t] \in Sizes
  /\ pc[t] = "settle" => seen[t] \in Offsets

\* The mutex of a handle is held by the transfers that are inside, read_from
\* in shared and the others in exclusive mode.
Locks ==
  \A h \in Handles, t \in Threads :
    /\ writer[h] = t <=> pc[t] \notin Outside /\ HandleOf(t) = h /\ call[t].op \in Exclusive
    /\ t \in readers[h] <=> pc[t] \notin Outside /\ HandleOf(t) = h /\ call[t].op \notin Exclusive
    /\ writer[h] # NoThread => readers[h] = {}

IInv == TypeOK /\ OneInode /\ (\A t \in Threads : InOrder(t) /\ Loaded(t)) /\ Locks

\* A byte that is not on disk was written by a call that is still running.
Unsynced ==
  \A i \in Inodes :
    /\ i # path => dirty[i] = {}
    /\ \A p \in dirty[i] :
         \E t \in Threads : pc[t] \in {"copied", "flush"} /\ call[t].op \in Writes /\ p \in Span(t)

Backing ==
  \A t \in Threads :
    pc[t] \notin Outside /\ Storage!CanWrite(Access(t)) =>
      IF Storage!Growing(t) THEN size[path] <= Storage!MappingEnd(t)
      ELSE Storage!MappingEnd(t) <= size[path]

\* While a transfer is under way nobody seeks on its handle.
SeeksApart ==
  \A t, u \in Threads :
    pc[t] = "settle" /\ pc[u] \notin Outside => HandleOf(t) # HandleOf(u)

\* A transfer at the cursor works on the bytes behind it ...
FollowsCursor(t) ==
  pc[t] \in {"opening", "mapped", "copied"} /\ call[t].op \in AtCursor =>
    /\ view[t].file_offset = cursor[HandleOf(t)]
    /\ pc[t] = "copied" => seen[t] = cursor[HandleOf(t)]

\* ... a seek between its two stores has a target inside the file ...
TargetInside(t) == pc[t] = "settle" => seen[t] \in 0 .. size[path]

\* ... and otherwise the cursor of a writable handle is inside as well.
CursorInside(h) ==
  /\ file[h].owned /\ Storage!CanWrite(file[h].access)
  /\ \A t \in Threads : pc[t] = "settle" => HandleOf(t) # h
  => cursor[h] <= size[path]

CursorFollows ==
  /\ \A t \in Threads : FollowsCursor(t) /\ TargetInside(t)
  /\ \A h \in Handles : CursorInside(h)

-----------------------------------------------------------------------------
(* Numbers and calls                                                         *)

LEMMA SizeFacts ==
  /\ HalfWord \in Nat \ {0} /\ Word \in Nat /\ Word = 2 * HalfWord /\ MaxFileSize \in Nat
  /\ MaxFileSize < HalfWord
  /\ 0 .. MaxFileSize \subseteq Sizes /\ 0 \in Sizes /\ Sizes \subseteq Nat
BY HalfWordAssumption, SizeAssumption DEF Word, Sizes

LEMMA Conversions ==
  /\ \A o \in Offsets : AsSize(o) \in Sizes
  /\ \A s \in Sizes : AsOffset(s) \in Offsets /\ AsSize(AsOffset(s)) = s
BY HalfWordAssumption DEF Offsets, Sizes, AsSize, AsOffset, Word

LEMMA WordSum ==
  ASSUME NEW a \in Sizes, NEW b \in Sizes
  PROVE  Plus(a, b) \in Sizes /\ Minus(a, b) \in Sizes
BY HalfWordAssumption DEF Plus, Minus, Sizes, Word

\* Every call carries the arguments its operation uses.
LEMMA CallTypes ==
  ASSUME NEW c \in Calls
  PROVE  /\ c.handle \in Handles /\ c.op \in Transfers \cup {"seek"}
         /\ c.op \in Transfers =>
              /\ c.requested \in Sizes /\ c.requested + Granularity <= Word
              /\ c.op \notin AtCursor => c.offset \in Offsets
         /\ c.op \in Writes => c.op \in Exclusive /\ c.byte \in Bytes
         /\ c.op = "seek" => c.offset \in Offsets /\ c.whence \in Whence
BY CallAssumption DEF Transfers, Exclusive, AtCursor, Writes

\* MappedFile counts with the same arithmetic.
LEMMA SameArithmetic ==
  /\ Storage!Sizes = Sizes
  /\ \A o, l, s :
       /\ Storage!mapping_end(o, l, s) = mapping_end(o, l, s)
       /\ Storage!map_length(o, l, s) = map_length(o, l, s)
       /\ Storage!release_length(o, l) = release_length(o, l)
       /\ Storage!real_offset(o) = real_offset(o)
       /\ Storage!PagesOf(l) = PagesOf(l)
       /\ Storage!AsSize(o) = AsSize(o)
<1>1. Storage!Word = Word
  BY DEF Storage!Word, Word
<1>2. \A a, b : Storage!Plus(a, b) = Plus(a, b) /\ Storage!Minus(a, b) = Minus(a, b)
  BY <1>1 DEF Storage!Plus, Plus, Storage!Minus, Minus
<1>3. \A o, l, s : Storage!mapping_size(o, l, s) = mapping_size(o, l, s)
  BY <1>2 DEF Storage!mapping_size, mapping_size
<1>4. \A o : Storage!real_offset(o) = real_offset(o)
  BY DEF Storage!real_offset, real_offset
<1>5. \A o : Storage!page_delta(o) = page_delta(o)
  BY <1>2, <1>4 DEF Storage!page_delta, page_delta
<1>6. \A o, l, s : Storage!mapping_end(o, l, s) = mapping_end(o, l, s)
  BY <1>2, <1>3 DEF Storage!mapping_end, mapping_end
<1>7. \A o, l, s : Storage!map_length(o, l, s) = map_length(o, l, s)
  BY <1>2, <1>3, <1>5 DEF Storage!map_length, map_length
<1>8. \A o, l : Storage!release_length(o, l) = release_length(o, l)
  BY <1>2, <1>5 DEF Storage!release_length, release_length
<1>9. Storage!Sizes = Sizes /\ (\A o : Storage!AsSize(o) = AsSize(o))
  BY <1>1 DEF Storage!Sizes, Sizes, Storage!AsSize, AsSize
<1>10. \A l : Storage!PagesOf(l) = PagesOf(l)
  BY DEF Storage!PagesOf, PagesOf
<1> QED BY <1>4, <1>6, <1>7, <1>8, <1>9, <1>10

LEMMA ViewNumbersAre ==
  ASSUME NEW t \in Threads
  PROVE  /\ Storage!MappingEnd(t)
              = mapping_end(view[t].file_offset, view[t].view_length, view[t].file_size)
         /\ Storage!MapLength(t)
              = map_length(view[t].file_offset, view[t].view_length, view[t].file_size)
         /\ Storage!ReleaseLength(t) = release_length(view[t].file_offset, view[t].view_length)
         /\ Storage!Mappable(t) <=> /\ Storage!MapLength(t) \in 1 .. HalfWord - 1
                                    /\ real_offset(view[t].file_offset) < HalfWord
BY SameArithmetic
   DEF Storage!MappingEnd, Storage!MapLength, Storage!ReleaseLength, Storage!Mappable

\* What a well-typed view makes of its fields.
LEMMA ViewNumbers ==
  ASSUME TypeOK, NEW t \in Threads
  PROVE  /\ Storage!MappingEnd(t) \in Nat
         /\ Storage!MapLength(t) \in Nat /\ PagesOf(Storage!MapLength(t)) \in Nat
         /\ Storage!ReleaseLength(t) \in Nat /\ PagesOf(Storage!ReleaseLength(t)) \in Nat
<1> DEFINE o == view[t].file_offset
           l == view[t].view_length
           s == view[t].file_size
<1>1. o \in Sizes /\ l \in Sizes /\ s \in Sizes
  BY SameArithmetic DEF TypeOK, Storage!TypeOK
<1>2. mapping_size(o, l, s) \in Sizes
  BY <1>1, WordSum DEF mapping_size
<1>3. page_delta(o) \in Sizes
  <2>1. page_delta(o) = o - real_offset(o) /\ real_offset(o) \in 0 .. o
    BY <1>1, RealOffset
  <2>2. o \in Nat /\ o < Word
    BY <1>1, SizeFacts DEF Sizes
  <2> QED BY <2>1, <2>2, SizeFacts DEF Sizes
<1>4. mapping_end(o, l, s) \in Sizes
  BY <1>1, <1>2, WordSum DEF mapping_end
<1>5. map_length(o, l, s) \in Sizes
  BY <1>2, <1>3, WordSum DEF map_length
<1>6. release_length(o, l) \in Sizes
  BY <1>1, <1>3, WordSum DEF release_length
<1>7. \A n \in Sizes : n \in Nat /\ PagesOf(n) \in Nat
  BY SizeFacts, PagesHold
<1> QED BY <1>4, <1>5, <1>6, <1>7, ViewNumbersAre

\* A mapped view ends where open_mapping thinks it does.
LEMMA MappedEnd ==
  ASSUME TypeOK, NEW t \in Threads, Storage!Mappable(t),
         view[t].view_length # 0, view[t].view_length + Granularity <= Word
  PROVE  /\ Storage!MappingEnd(t) = view[t].file_offset + view[t].view_length
         /\ Storage!MappingEnd(t) < Word
<1> DEFINE o == view[t].file_offset
           l == view[t].view_length
<1>1. o \in Sizes /\ l \in Sizes
  BY SameArithmetic DEF TypeOK, Storage!TypeOK
<1>2. /\ real_offset(o) \in Nat /\ page_delta(o) = o - real_offset(o)
      /\ page_delta(o) \in 0 .. Granularity - 1
  BY <1>1, RealOffset
<1>3. o \in Nat /\ l \in Nat /\ Word = 2 * HalfWord /\ HalfWord \in Nat
  BY <1>1, SizeFacts
<1>4. Plus(page_delta(o), l) < HalfWord /\ real_offset(o) < HalfWord
  <2>1. Storage!MapLength(t) = Plus(page_delta(o), l)
    BY ViewNumbersAre DEF map_length, mapping_size
  <2> HIDE DEF o, l
  <2> QED BY <1>3, <2>1, ViewNumbersAre DEF o
<1>5. Storage!MappingEnd(t) = Plus(o, l)
  BY ViewNumbersAre DEF mapping_end, mapping_size
<1>6. l + Granularity <= Word
  OBVIOUS
<1> HIDE DEF o, l
<1>7. Plus(page_delta(o), l) = page_delta(o) + l
  BY <1>2, <1>3, <1>6, GranularityAssumption DEF Plus
<1>8. o + l < Word
  BY <1>2, <1>3, <1>4, <1>7
<1> QED BY <1>5, <1>8 DEF Plus, o, l

\* A transfer moves all it was asked for: its view is that long.
LEMMA CountIsRequest ==
  ASSUME TypeOK, NEW t \in Threads, call[t] \in Calls, InOrder(t), pc[t] \notin Outside
  PROVE  /\ call[t].requested \in Nat /\ view[t].file_offset \in Nat
         /\ view[t].view_length = call[t].requested
         /\ view[t].view_length + Granularity <= Word
         /\ Count(t) = call[t].requested
         /\ Span(t) = view[t].file_offset .. view[t].file_offset + view[t].view_length - 1
<1> DEFINE n == call[t].requested
<1>1. n \in Sizes /\ n + Granularity <= Word /\ view[t].view_length = n
  BY CallTypes DEF InOrder
<1>2. view[t].file_offset \in Nat
  BY SizeFacts, SameArithmetic DEF TypeOK, Storage!TypeOK
<1>3. n \in Nat /\ n < Word
  BY <1>1, SizeFacts DEF Sizes
<1>4. Count(t) = calculate_allowance(n, 0, n)
  BY <1>1 DEF Count
<1>5. calculate_allowance(n, 0, n) = n
  <2> HIDE DEF n
  <2> QED BY <1>3 DEF calculate_allowance, Plus
<1> QED BY <1>1, <1>2, <1>3, <1>4, <1>5 DEF Span

-----------------------------------------------------------------------------
(* What a step leaves alone                                                  *)

\* The numbers of a view depend on its fields only.
LEMMA SameView ==
  ASSUME NEW t \in Threads,
         view'[t].file_offset = view[t].file_offset,
         view'[t].view_length = view[t].view_length,
         view'[t].file_size = view[t].file_size
  PROVE  /\ Storage!MappingEnd(t)' = Storage!MappingEnd(t)
         /\ Storage!Mappable(t)' <=> Storage!Mappable(t)
BY DEF Storage!MappingEnd, Storage!Mappable, Storage!MapLength

\* A transfer that lets its view go does not close the file: its caller still
\* holds the handle.
LEMMA ReleaseMoves ==
  ASSUME IInv, NEW t \in Threads, pc[t] \notin Outside, Storage!Release(t)
  PROVE  UNCHANGED file /\ view' = [view EXCEPT ![t] = Storage!FreeView]
<1>1. view[t].file = HandleOf(t) /\ file[HandleOf(t)].owned
  BY DEF IInv, InOrder, Outside
<1> QED BY <1>1 DEF Storage!Release

\* Steps that only end a call: seek has its answer, or get_size threw.
Quit(t) == SeekReturn(t) \/ Throw(t)

LEMMA QuitIs ==
  ASSUME IInv, NEW t \in Threads, Quit(t)
  PROVE  /\ UNCHANGED <<path, size, file, view, pages, data, dirty, cursor, lockVars, signal>>
         /\ pc[t] \in {"enter", "told"} /\ pc'[t] = "idle" /\ Leave(t)
         /\ pc[t] \in Outside /\ pc'[t] \in Outside
         /\ view[t] = Storage!FreeView
<1>1. /\ UNCHANGED <<path, size, file, view, pages, data, dirty, cursor, lockVars, signal>>
      /\ pc[t] \in {"enter", "told"} /\ Leave(t)
  BY DEF Quit, SeekReturn, Throw, storageVars
<1>2. pc'[t] = "idle"
  BY <1>1 DEF Leave, IInv, TypeOK
<1>3. view[t] = Storage!FreeView
  BY <1>1 DEF IInv, InOrder, Outside
<1> QED BY <1>1, <1>2, <1>3 DEF Outside

\* A step of a thread concerns its own call and view.
LEMMA StepMoves ==
  ASSUME IInv, NEW t \in Threads, Step(t)
  PROVE  /\ UNCHANGED <<path, file>>
         /\ \A u \in Threads \ {t} :
              /\ view'[u] = view[u] /\ pc'[u] = pc[u]
              /\ call'[u] = call[u] /\ seen'[u] = seen[u]
<1> USE DEF IInv, TypeOK, Storage!TypeOK, storageVars, lockVars
<1>1. CASE Begin(t)
  BY <1>1 DEF Begin, Storage!GetView
<1>2. CASE Resize(t)
  BY <1>2 DEF Resize, Storage!Grow, Storage!KeepSize
<1>3. CASE Map(t)
  BY <1>3 DEF Map, Storage!Map
<1>4. CASE Fail(t)
  <2>1. Storage!Release(t) /\ UNCHANGED path /\ pc[t] \notin Outside
    BY <1>4 DEF Fail, Storage!GrowFails, Storage!MapFails, Outside
  <2> QED BY <1>4, <2>1, ReleaseMoves DEF Fail, Leave
<1>5. CASE Copy(t) \/ Fault(t) \/ Advance(t) \/ Flush(t)
  BY <1>5 DEF Copy, Fault, Advance, Flush
<1>6. CASE Return(t)
  <2>1. Storage!Release(t) /\ UNCHANGED path /\ pc[t] \notin Outside
    BY <1>6 DEF Return, Storage!Destroy, Outside
  <2> QED BY <1>6, <2>1, ReleaseMoves DEF Return, Leave
<1>7. CASE SeekLoad(t) \/ SeekStore(t)
  BY <1>7 DEF SeekLoad, SeekStore
<1>8. CASE Quit(t)
  BY <1>8, QuitIs DEF Leave
<1> QED BY <1>1, <1>2, <1>3, <1>4, <1>5, <1>6, <1>7, <1>8 DEF Step, Quit

-----------------------------------------------------------------------------
(* The invariant                                                             *)

\* The thread of a transfer, its handle and its view.
LEMMA InTransfer ==
  ASSUME IInv, NEW t \in Threads, pc[t] \notin Outside
  PROVE  /\ call[t] \in Calls /\ HandleOf(t) \in Handles /\ call[t].op \in Transfers
         /\ file[HandleOf(t)].owned /\ InodeOf(HandleOf(t)) = path /\ path \in Inodes
         /\ view[t].file = HandleOf(t) /\ Storage!InodeOf(t) = path
         /\ size[path] \in 0 .. MaxFileSize /\ size[path] \in Nat
<1>1. /\ call[t] \in Calls /\ file[HandleOf(t)].owned /\ call[t].op \in Transfers
      /\ view[t].file = HandleOf(t)
  BY DEF IInv, InOrder, Outside
<1>2. HandleOf(t) \in Handles
  BY <1>1, CallTypes DEF HandleOf
<1>3. path \in Inodes /\ file[HandleOf(t)].inode = path
  BY <1>1, <1>2 DEF IInv, OneInode
<1>4. size[path] \in 0 .. MaxFileSize
  BY <1>3 DEF IInv, TypeOK, Storage!TypeOK
<1> QED BY <1>1, <1>2, <1>3, <1>4, SizeFacts DEF InodeOf, Storage!InodeOf

\* What a transfer through a writable file covers lies in what the file system
\* gives a file.
LEMMA RangeFits ==
  ASSUME IInv, NEW t \in Threads, pc[t] \in Mapped, Storage!CanWrite(Access(t)) \/ Span(t) = {}
  PROVE  Span(t) \subseteq Positions
<1>1. pc[t] \notin Outside /\ view[t].stage = "mapped" /\ InOrder(t) /\ TypeOK
  BY DEF IInv, InOrder, Mapped, Outside
<1>2. /\ view[t].file_offset \in Nat /\ view[t].view_length \in Nat
      /\ view[t].view_length + Granularity <= Word
      /\ Span(t) = view[t].file_offset .. view[t].file_offset + view[t].view_length - 1
  BY <1>1, CountIsRequest, InTransfer
<1>3. CASE Span(t) = {} \/ view[t].view_length = 0
  BY <1>2, <1>3
<1>4. CASE Storage!CanWrite(Access(t)) /\ view[t].view_length # 0
  <2>1. /\ Storage!MappingEnd(t) <= MaxFileSize
        /\ Storage!MappingEnd(t) = view[t].file_offset + view[t].view_length
    BY <1>1, <1>2, <1>4, MappedEnd DEF InOrder
  <2> QED BY <1>2, <2>1, SizeFacts DEF Positions
<1> QED BY <1>3, <1>4

LEMMA InitInv == Init => IInv
<1> SUFFICES ASSUME Init PROVE IInv
  OBVIOUS
<1>1. Storage!TypeOK
  <2>1. Storage!Init
    BY DEF Init
  <2>2. size \in [Inodes -> 0 .. MaxFileSize]
    BY <2>1, SizeAssumption DEF Storage!Init
  <2>3. view \in [Threads -> [stage : {"free", "sized", "grown", "mapped"},
                              file : Handles \cup {NoHandle},
                              file_offset : Sizes, view_length : Sizes, file_size : Sizes]]
    BY <2>1, SizeFacts DEF Storage!Init, Storage!FreeView
  <2>4. file \in [Handles -> [inode : Inodes \cup {NoInode}, access : Storage!FileAccess,
                              owned : BOOLEAN]]
    BY <2>1 DEF Storage!Init, Storage!ClosedFile, Storage!FileAccess
  <2>5. path \in Inodes \cup {NoInode} /\ pages \in [Threads -> Nat]
    BY <2>1 DEF Storage!Init
  <2> QED BY <2>2, <2>3, <2>4, <2>5, SameArithmetic DEF Storage!TypeOK
<1>4. TypeOK
  BY <1>1, SizeFacts DEF Init, TypeOK
<1>2. OneInode /\ \A t \in Threads : InOrder(t) /\ Loaded(t)
  BY DEF Init, Storage!Init, OneInode, InOrder, Loaded, Storage!ClosedFile, Storage!FreeView, Outside,
         Mapped
<1>3. Locks
  BY SentinelAssumption DEF Init, Locks, Outside
<1> QED BY <1>2, <1>3, <1>4 DEF IInv

LEMMA InOrderKeeps ==
  ASSUME NEW t \in Threads, InOrder(t),
         view'[t] = view[t], pc'[t] = pc[t], call'[t] = call[t],
         pc[t] # "idle" => /\ file'[HandleOf(t)].owned
                           /\ file'[HandleOf(t)].access = file[HandleOf(t)].access
  PROVE  InOrder(t)'
<1>1. /\ Storage!MappingEnd(t)' = Storage!MappingEnd(t)
      /\ Storage!Mappable(t)' <=> Storage!Mappable(t)
  BY SameView
<1>2. HandleOf(t)' = HandleOf(t)
  BY DEF HandleOf
<1>3. view[t].stage \in {"grown", "mapped"} => pc[t] # "idle"
  BY DEF InOrder, Outside, Storage!FreeView
<1> QED BY <1>1, <1>2, <1>3 DEF InOrder, Access

\* The steps of a call keep its stages in order.
LEMMA StepInOrder ==
  ASSUME IInv, NEW t \in Threads, Step(t)
  PROVE  InOrder(t)'
<1>1. /\ InOrder(t) /\ TypeOK
      /\ view \in [Threads -> [stage : {"free", "sized", "grown", "mapped"},
                               file : Handles \cup {NoHandle},
                               file_offset : Sizes, view_length : Sizes, file_size : Sizes]]
      /\ pc \in [Threads -> {"idle", "enter", "opening", "mapped", "copied", "flush", "done",
                             "settle", "told"}]
      /\ call \in [Threads -> Calls \cup {NoCall}]
  BY SameArithmetic DEF IInv, TypeOK, Storage!TypeOK
<1>2. UNCHANGED file
  BY StepMoves
<1>3. ASSUME pc'[t] = "idle", view'[t] = Storage!FreeView PROVE InOrder(t)'
  BY <1>3 DEF InOrder, Outside, Mapped, Storage!FreeView
<1>4. ASSUME pc[t] \notin Outside, pc'[t] \notin Outside, call'[t] = call[t],
             view'[t].file = view[t].file,
             view'[t].file_offset = view[t].file_offset,
             view'[t].view_length = view[t].view_length,
             view'[t].file_size = view[t].file_size,
             pc'[t] = "opening" => view'[t].stage \in {"sized", "grown"},
             pc'[t] \in Mapped => view'[t].stage = "mapped",
             view'[t].stage = "mapped" => Storage!Mappable(t),
             view'[t].stage \in {"grown", "mapped"} /\ Storage!CanWrite(Access(t)) =>
               Storage!MappingEnd(t) <= MaxFileSize
      PROVE  InOrder(t)'
  <2>1. /\ Storage!MappingEnd(t)' = Storage!MappingEnd(t)
        /\ Storage!Mappable(t)' <=> Storage!Mappable(t)
    BY <1>4, SameView
  <2>2. HandleOf(t)' = HandleOf(t) /\ Access(t)' = Access(t)
    BY <1>2, <1>4 DEF HandleOf, Access
  <2> QED BY <1>1, <1>2, <1>4, <2>1, <2>2 DEF InOrder, Outside
<1>5. CASE Begin(t)
  <2>1. /\ pc[t] = "enter" /\ call[t].op # "seek" /\ pc'[t] = "opening" /\ UNCHANGED call
        /\ path # NoInode
        /\ view'[t].stage = "sized" /\ view'[t].file = HandleOf(t)
        /\ view'[t].view_length = call[t].requested /\ view'[t].file_size = size[path]
    BY <1>1, <1>5 DEF Begin, Storage!GetView
  <2>2. call[t] \in Calls /\ file[HandleOf(t)].owned /\ call[t].op \in Transfers
    BY <1>1, <2>1, CallTypes DEF InOrder
  <2>3. size[path] <= MaxFileSize
    BY <1>1, <2>1, SizeFacts DEF TypeOK, Storage!TypeOK
  <2>4. HandleOf(t)' = HandleOf(t)
    BY <2>1 DEF HandleOf
  <2> QED BY <1>2, <2>1, <2>2, <2>3, <2>4 DEF InOrder, Outside, Mapped
<1>6. CASE Resize(t)
  <2>1. pc[t] = "opening" /\ UNCHANGED <<pc, call>> /\ view[t].stage = "sized"
    BY <1>6 DEF Resize, Storage!Grow, Storage!KeepSize
  <2>2. view' = [view EXCEPT ![t].stage = "grown"]
    BY <1>6 DEF Resize, Storage!Grow, Storage!KeepSize
  <2>3. Storage!CanWrite(Access(t)) => Storage!MappingEnd(t) <= MaxFileSize
    <3>1. view[t].file = HandleOf(t) /\ view[t].file_size <= MaxFileSize
      BY <1>1, <2>1 DEF InOrder, Outside
    <3>2. CASE Storage!Grow(t)
      BY <3>2 DEF Storage!Grow
    <3>3. CASE Storage!KeepSize(t)
      <4>1. Storage!CanWrite(Access(t)) => ~ Storage!MappingEnd(t) > view[t].file_size
        BY <3>1, <3>3 DEF Storage!KeepSize, Storage!MustGrow, Access
      <4>2. Storage!MappingEnd(t) \in Nat /\ view[t].file_size \in Nat
        BY <1>1, ViewNumbers, SizeFacts
      <4> QED BY <3>1, <4>1, <4>2, SizeFacts
    <3> QED BY <1>6, <3>2, <3>3 DEF Resize
  <2> QED BY <1>1, <1>4, <2>1, <2>2, <2>3 DEF Outside, Mapped
<1>7. CASE Map(t)
  <2>1. /\ pc[t] = "opening" /\ pc' = [pc EXCEPT ![t] = "mapped"] /\ UNCHANGED call
        /\ view[t].stage = "grown" /\ Storage!Mappable(t)
        /\ view' = [view EXCEPT ![t].stage = "mapped"]
    BY <1>7 DEF Map, Storage!Map
  <2>2. Storage!CanWrite(Access(t)) => Storage!MappingEnd(t) <= MaxFileSize
    BY <1>1, <2>1 DEF InOrder
  <2> QED BY <1>1, <1>4, <2>1, <2>2 DEF Outside, Mapped
<1>8. CASE Fail(t) \/ Return(t)
  <2>1. Storage!Release(t) /\ pc[t] \notin Outside /\ Leave(t)
    BY <1>8 DEF Fail, Return, Storage!GrowFails, Storage!MapFails, Storage!Destroy, Outside
  <2>2. view'[t] = Storage!FreeView /\ pc'[t] = "idle"
    BY <1>1, <2>1, ReleaseMoves DEF Leave
  <2> QED BY <1>3, <2>2
<1>9. CASE Copy(t) \/ Advance(t) \/ Flush(t)
  <2>1. /\ pc[t] \in Mapped /\ pc'[t] \in Mapped /\ UNCHANGED <<call, view>>
    BY <1>1, <1>9 DEF Copy, Advance, Flush, Mapped, storageVars
  <2>2. view[t].stage = "mapped"
    BY <1>1, <2>1 DEF InOrder
  <2>3. /\ Storage!Mappable(t)
        /\ Storage!CanWrite(Access(t)) => Storage!MappingEnd(t) <= MaxFileSize
    BY <1>1, <2>2 DEF InOrder
  <2>4. pc[t] \notin Outside /\ pc'[t] \notin Outside /\ pc'[t] # "opening"
    BY <2>1 DEF Mapped, Outside
  <2>5. view'[t] = view[t] /\ call'[t] = call[t]
    BY <2>1
  <2> QED BY <1>4, <2>2, <2>3, <2>4, <2>5
<1>10. CASE Fault(t)
  <2>1. pc[t] = "mapped" /\ UNCHANGED <<view, file, pc, call>>
    BY <1>10 DEF Fault, storageVars
  <2>2. file[HandleOf(t)].owned
    BY <1>1, <2>1 DEF InOrder
  <2> QED BY <1>1, <2>1, <2>2, InOrderKeeps
<1>11. CASE SeekLoad(t)
  <2>1. /\ pc[t] = "enter" /\ call[t].op = "seek" /\ pc'[t] = "settle" /\ UNCHANGED <<call, view>>
    BY <1>1, <1>11 DEF SeekLoad, storageVars
  <2>2. call[t] \in Calls /\ file[HandleOf(t)].owned /\ view[t] = Storage!FreeView
    BY <1>1, <2>1 DEF InOrder, Outside
  <2>3. HandleOf(t)' = HandleOf(t)
    BY <2>1 DEF HandleOf
  <2> QED BY <1>2, <2>1, <2>2, <2>3 DEF InOrder, Outside, Mapped, Storage!FreeView
<1>12. CASE SeekStore(t)
  <2>1. pc[t] = "settle" /\ pc'[t] = "told" /\ UNCHANGED <<call, view>>
    BY <1>1, <1>12 DEF SeekStore, storageVars
  <2>2. /\ call[t] \in Calls /\ call[t].op = "seek" /\ file[HandleOf(t)].owned
        /\ view[t] = Storage!FreeView
    BY <1>1, <2>1 DEF InOrder, Outside
  <2>3. HandleOf(t)' = HandleOf(t)
    BY <2>1 DEF HandleOf
  <2> QED BY <1>2, <2>1, <2>2, <2>3 DEF InOrder, Outside, Mapped, Storage!FreeView
<1>13. CASE Quit(t)
  BY <1>3, <1>13, QuitIs
<1> QED BY <1>5, <1>6, <1>7, <1>8, <1>9, <1>10, <1>11, <1>12, <1>13 DEF Step, Quit

\* Whatever the cursor is, a seek has a target inside the file.
LEMMA SeekTarget ==
  ASSUME IInv, NEW t \in Threads, pc[t] = "enter", call[t].op = "seek"
  PROVE  LET target == seek_target(size[path], AsOffset(cursor[HandleOf(t)]), call[t].offset,
                                   call[t].whence)
         IN  /\ target \in 0 .. size[path] /\ target \in Offsets /\ target \in Int
             /\ path \in Inodes /\ size[path] \in Nat
<1>1. call[t] \in Calls /\ file[HandleOf(t)].owned
  BY DEF IInv, InOrder
<1>2. HandleOf(t) \in Handles /\ call[t].offset \in Offsets /\ call[t].whence \in Whence
  BY <1>1, CallTypes DEF HandleOf
<1>3. path \in Inodes /\ size[path] \in 0 .. MaxFileSize
  BY <1>1, <1>2 DEF IInv, OneInode, TypeOK, Storage!TypeOK
<1>4. AsOffset(cursor[HandleOf(t)]) \in Offsets
  BY <1>2, Conversions DEF IInv, TypeOK
<1>5. size[path] \in 0 .. HalfWord - 1 /\ size[path] \in Nat
  BY <1>3, SizeFacts
<1>6. seek_target(size[path], AsOffset(cursor[HandleOf(t)]), call[t].offset, call[t].whence)
        \in 0 .. size[path]
  BY <1>2, <1>4, <1>5, SeekLands
<1>7. \A n \in 0 .. size[path] : n \in Offsets /\ n \in Int
  BY <1>5, SizeFacts DEF Offsets
<1> QED BY <1>3, <1>5, <1>6, <1>7

LEMMA StepTypes ==
  ASSUME IInv, NEW t \in Threads, Step(t)
  PROVE  TypeOK'
<1>1. /\ TypeOK /\ InOrder(t) /\ UNCHANGED <<path, file>>
      /\ path \in Inodes \cup {NoInode} /\ size \in [Inodes -> 0 .. MaxFileSize]
      /\ file \in [Handles -> [inode : Inodes \cup {NoInode}, access : Storage!FileAccess,
                               owned : BOOLEAN]]
      /\ view \in [Threads -> [stage : {"free", "sized", "grown", "mapped"},
                               file : Handles \cup {NoHandle},
                               file_offset : Sizes, view_length : Sizes, file_size : Sizes]]
      /\ pages \in [Threads -> Nat]
  BY StepMoves, SameArithmetic DEF IInv, TypeOK, Storage!TypeOK
<1>2. /\ data \in [Inodes -> [Positions -> Bytes]]
      /\ dirty \in [Inodes -> SUBSET Positions]
      /\ cursor \in [Handles -> Sizes]
      /\ writer \in [Handles -> Threads \cup {NoThread}]
      /\ readers \in [Handles -> SUBSET Threads]
      /\ pc \in [Threads -> {"idle", "enter", "opening", "mapped", "copied", "flush", "done",
                             "settle", "told"}]
      /\ call \in [Threads -> Calls \cup {NoCall}]
      /\ seen \in [Threads -> Int]
      /\ signal \in {"none", "SIGSEGV", "SIGBUS"}
  BY <1>1 DEF TypeOK
\* The storage variables.
<1>3. ASSUME size' \in [Inodes -> 0 .. MaxFileSize],
             view' \in [Threads -> [stage : {"free", "sized", "grown", "mapped"},
                                    file : Handles \cup {NoHandle},
                                    file_offset : Sizes, view_length : Sizes,
                                    file_size : Sizes]],
             pages' \in [Threads -> Nat]
      PROVE  Storage!TypeOK'
  BY <1>1, <1>3, SameArithmetic DEF Storage!TypeOK
<1>4. ASSUME UNCHANGED storageVars PROVE Storage!TypeOK'
  BY <1>1, <1>4, <1>3 DEF storageVars
<1>5. ASSUME Storage!Release(t), UNCHANGED size, pages' \in [Threads -> Nat],
             pc[t] \notin Outside
      PROVE  Storage!TypeOK'
  <2>1. view' = [view EXCEPT ![t] = Storage!FreeView]
    BY <1>5, ReleaseMoves
  <2>2. Storage!FreeView \in [stage : {"free", "sized", "grown", "mapped"},
                              file : Handles \cup {NoHandle},
                              file_offset : Sizes, view_length : Sizes, file_size : Sizes]
    BY SizeFacts DEF Storage!FreeView
  <2> QED BY <1>1, <1>3, <1>5, <2>1, <2>2
\* The mutex and the locals.
<1>6. ASSUME NEW h \in Handles, Unlock(t, h), Leave(t), UNCHANGED <<data, dirty, cursor, signal>>,
             Storage!TypeOK'
      PROVE  TypeOK'
  <2>1. /\ writer' \in [Handles -> Threads \cup {NoThread}]
        /\ readers' \in [Handles -> SUBSET Threads]
    BY <1>2, <1>6 DEF Unlock
  <2>2. /\ pc' \in [Threads -> {"idle", "enter", "opening", "mapped", "copied", "flush", "done",
                                "settle", "told"}]
        /\ call' \in [Threads -> Calls \cup {NoCall}] /\ seen' \in [Threads -> Int]
    BY <1>2, <1>6 DEF Leave
  <2> QED BY <1>2, <1>6, <2>1, <2>2 DEF TypeOK
<1>7. CASE Begin(t)
  <2> DEFINE h == HandleOf(t)
             offset == IF call[t].op \in AtCursor THEN AsOffset(cursor[h]) ELSE call[t].offset
  <2>1. /\ pc[t] = "enter" /\ call[t].op # "seek" /\ Acquire(t, h)
        /\ Storage!GetView(h, t, offset, call[t].requested)
        /\ pc' = [pc EXCEPT ![t] = "opening"]
        /\ UNCHANGED <<data, dirty, cursor, call, seen, reply, signal>>
    BY <1>7 DEF Begin
  <2>2. call[t] \in Calls
    BY <1>1, <2>1 DEF InOrder
  <2>3. h \in Handles /\ call[t].requested \in Sizes /\ call[t].op \in Transfers
        /\ (call[t].op \notin AtCursor => call[t].offset \in Offsets)
    BY <2>1, <2>2, CallTypes DEF HandleOf
  <2> HIDE DEF h
  <2>4. offset \in Offsets
    BY <1>2, <2>3, Conversions
  <2> HIDE DEF offset
  <2>5. /\ view' = [view EXCEPT ![t] =
                      [stage |-> "sized", file |-> h, file_offset |-> AsSize(offset),
                       view_length |-> call[t].requested, file_size |-> size[path]]]
        /\ path # NoInode /\ UNCHANGED <<size, pages>>
    BY <2>1, SameArithmetic DEF Storage!GetView
  <2>6. AsSize(offset) \in Sizes /\ size[path] \in Sizes
    BY <1>1, <2>4, <2>5, Conversions, SizeFacts
  <2>7. Storage!TypeOK'
    BY <1>1, <1>3, <2>3, <2>5, <2>6
  <2>8. /\ writer' \in [Handles -> Threads \cup {NoThread}]
        /\ readers' \in [Handles -> SUBSET Threads]
    <3>1. \/ writer' = [writer EXCEPT ![h] = t] /\ UNCHANGED readers
          \/ readers' = [readers EXCEPT ![h] = @ \cup {t}] /\ UNCHANGED writer
      BY <2>1 DEF Acquire
    <3> QED BY <1>2, <2>3, <3>1
  <2> QED BY <1>2, <2>1, <2>7, <2>8 DEF TypeOK
<1>8. CASE Resize(t)
  <2>1. /\ view' = [view EXCEPT ![t].stage = "grown"] /\ UNCHANGED pages
        /\ size' = size \/ /\ Storage!MappingEnd(t) <= MaxFileSize
                           /\ size' = [size EXCEPT ![Storage!InodeOf(t)] = Storage!MappingEnd(t)]
    BY <1>8 DEF Resize, Storage!Grow, Storage!KeepSize
  <2>2. Storage!MappingEnd(t) \in Nat
    BY <1>1, ViewNumbers
  <2>3. size' \in [Inodes -> 0 .. MaxFileSize]
    BY <1>1, <2>1, <2>2, SizeFacts
  <2>4. Storage!TypeOK'
    BY <1>1, <1>3, <2>1, <2>3
  <2>5. data' = [i \in Inodes |-> Truncated(i)]
        /\ UNCHANGED <<dirty, cursor, lockVars, pc, call, seen, reply, signal>>
    BY <1>8 DEF Resize
  <2>6. \A i \in Inodes : Truncated(i) \in [Positions -> Bytes]
    BY <1>2, ByteAssumption DEF Truncated
  <2>7. data' \in [Inodes -> [Positions -> Bytes]]
    BY <2>5, <2>6
  <2> QED BY <1>2, <2>4, <2>5, <2>7 DEF TypeOK, lockVars
<1>9. CASE Map(t)
  <2>1. /\ view' = [view EXCEPT ![t].stage = "mapped"] /\ UNCHANGED size
        /\ pages' = [pages EXCEPT ![t] = PagesOf(Storage!MapLength(t))]
    BY <1>9, SameArithmetic DEF Map, Storage!Map
  <2>2. PagesOf(Storage!MapLength(t)) \in Nat
    BY <1>1, ViewNumbers
  <2>3. Storage!TypeOK'
    BY <1>1, <1>3, <2>1, <2>2
  <2> QED BY <1>2, <1>9, <2>3 DEF Map, TypeOK, lockVars
<1>10. CASE Fail(t)
  <2>1. /\ Storage!Release(t) /\ UNCHANGED <<size, pages>> /\ pc[t] \notin Outside
        /\ Unlock(t, HandleOf(t)) /\ Leave(t) /\ UNCHANGED <<data, dirty, cursor, signal>>
    BY <1>10 DEF Fail, Storage!GrowFails, Storage!MapFails, Outside
  <2> QED BY <1>1, <1>5, <1>6, <2>1, InTransfer
<1>11. CASE Return(t)
  <2> DEFINE released == Storage!PagesOf(Storage!ReleaseLength(t))
  <2>1. /\ Storage!Release(t) /\ UNCHANGED size /\ pc[t] \notin Outside
        /\ pages' = [pages EXCEPT ![t] = IF released >= @ THEN 0 ELSE @ - released]
        /\ Unlock(t, HandleOf(t)) /\ Leave(t) /\ UNCHANGED <<data, dirty, cursor, signal>>
    BY <1>11 DEF Return, Storage!Destroy, Outside
  <2>2. released \in Nat
    BY <1>1, ViewNumbers, SameArithmetic
  <2> HIDE DEF released
  <2>3. pages' \in [Threads -> Nat]
    BY <1>1, <2>1, <2>2
  <2> QED BY <1>5, <1>6, <2>1, <2>3, InTransfer
<1>12. CASE Copy(t)
  <2> DEFINE i == InodeOf(HandleOf(t))
  <2>1. pc[t] = "mapped" /\ pc[t] \in Mapped /\ pc[t] \notin Outside
    BY <1>12 DEF Copy, Mapped, Outside
  <2>2. HandleOf(t) \in Handles /\ i \in Inodes /\ call[t] \in Calls
    BY <2>1, InTransfer
  <2>3. Storage!TypeOK'
    BY <1>4, <1>12 DEF Copy
  <2>4. data' \in [Inodes -> [Positions -> Bytes]]
    <3>1. CASE call[t].op \in Writes
      <4>1. data' = [data EXCEPT ![i] =
              [p \in Positions |-> IF p \in Span(t) /\ p < size[i] THEN call[t].byte ELSE @[p]]]
        BY <1>12, <3>1 DEF Copy
      <4>2. call[t].byte \in Bytes
        BY <2>2, <3>1, CallTypes
      <4> HIDE DEF i
      <4> QED BY <1>2, <2>2, <4>1, <4>2
    <3>2. CASE call[t].op \notin Writes
      BY <1>2, <1>12, <3>2 DEF Copy
    <3> QED BY <3>1, <3>2
  <2>5. dirty' \in [Inodes -> SUBSET Positions]
    <3>1. CASE call[t].op \in Writes
      <4>1. dirty' = [dirty EXCEPT ![i] = @ \cup Span(t)]
        BY <1>12, <3>1 DEF Copy
      <4>2. Span(t) \subseteq Positions
        BY <1>12, <2>1, <3>1, RangeFits DEF Copy, Access
      <4> HIDE DEF i
      <4> QED BY <1>2, <2>2, <4>1, <4>2
    <3>2. CASE call[t].op \notin Writes
      BY <1>2, <1>12, <3>2 DEF Copy
    <3> QED BY <3>1, <3>2
  <2>6. /\ seen' = [seen EXCEPT ![t] = cursor[HandleOf(t)]]
        /\ pc' = [pc EXCEPT ![t] = "copied"]
        /\ UNCHANGED <<cursor, lockVars, call, signal>>
    BY <1>12 DEF Copy
  <2>7. cursor[HandleOf(t)] \in Int
    <3>1. cursor[HandleOf(t)] \in Sizes
      BY <1>2, <2>2
    <3>2. \A n \in Sizes : n \in Int
      BY SizeFacts
    <3> QED BY <3>1, <3>2
  <2> HIDE DEF i
  <2> QED BY <1>2, <2>3, <2>4, <2>5, <2>6, <2>7 DEF TypeOK, lockVars
<1>13. CASE Fault(t)
  <2>1. signal' \in {"none", "SIGSEGV", "SIGBUS"}
    BY <1>13 DEF Fault
  <2> QED BY <1>2, <1>4, <1>13, <2>1 DEF Fault, TypeOK, lockVars
<1>14. CASE Advance(t)
  <2>1. pc[t] = "copied" /\ pc[t] \in Mapped /\ pc[t] \notin Outside
    BY <1>14 DEF Advance, Mapped, Outside
  <2>2. HandleOf(t) \in Handles /\ call[t] \in Calls
    BY <2>1, InTransfer
  <2>3. Count(t) \in Sizes /\ seen[t] \in Sizes
    BY <1>1, <2>1, <2>2, CountIsRequest, CallTypes, InTransfer DEF IInv, Loaded
  <2>4. Plus(seen[t], Count(t)) \in Sizes
    BY <2>3, WordSum
  <2>5. /\ cursor' = cursor
           \/ cursor' = [cursor EXCEPT ![HandleOf(t)] = Plus(seen[t], Count(t))]
        /\ pc' = [pc EXCEPT ![t] = "flush"] \/ pc' = [pc EXCEPT ![t] = "done"]
        /\ UNCHANGED <<storageVars, data, dirty, lockVars, call, seen, signal>>
    BY <1>14 DEF Advance
  <2> QED BY <1>2, <1>4, <2>2, <2>4, <2>5 DEF TypeOK, lockVars
<1>15. CASE Flush(t)
  <2> DEFINE i == InodeOf(HandleOf(t))
  <2>1. pc[t] \notin Outside
    BY <1>15 DEF Flush, Outside
  <2>2. i \in Inodes
    BY <2>1, InTransfer
  <2>3. /\ dirty' = dirty \/ dirty' = [dirty EXCEPT ![i] = @ \ Flushed(t)]
        /\ pc' = [pc EXCEPT ![t] = "done"]
        /\ UNCHANGED <<storageVars, data, cursor, lockVars, call, seen, signal>>
    BY <1>15 DEF Flush
  <2> HIDE DEF i
  <2> QED BY <1>2, <1>4, <2>2, <2>3 DEF TypeOK, lockVars
<1>16. CASE SeekLoad(t)
  <2> DEFINE h == HandleOf(t)
  <2>1. pc[t] = "enter" /\ call[t].op = "seek" /\ call[t] \in Calls
    BY <1>1, <1>16 DEF SeekLoad, InOrder
  <2>2. h \in Handles /\ call[t].offset \in Offsets /\ call[t].whence \in Whence
    BY <2>1, CallTypes DEF HandleOf
  <2>3. seek_target(size[path], AsOffset(cursor[h]), call[t].offset, call[t].whence) \in Int
    BY <2>1, SeekTarget DEF h
  <2>4. cursor[h] \in Sizes /\ AsSize(call[t].offset) \in Sizes
    BY <1>2, <2>2, Conversions
  <2>5. Plus(cursor[h], AsSize(call[t].offset)) \in Sizes
    BY <2>4, WordSum
  <2>6. /\ seen' = [seen EXCEPT ![t] =
                      seek_target(size[path], AsOffset(cursor[h]), call[t].offset, call[t].whence)]
        /\ \/ cursor' = cursor
           \/ cursor' = [cursor EXCEPT ![h] = Plus(@, AsSize(call[t].offset))]
        /\ pc' = [pc EXCEPT ![t] = "settle"]
        /\ UNCHANGED <<storageVars, data, dirty, lockVars, call, signal>>
    BY <1>16 DEF SeekLoad
  <2> HIDE DEF h
  <2>7. cursor' \in [Handles -> Sizes]
    BY <1>2, <2>2, <2>5, <2>6
  <2> QED BY <1>2, <1>4, <2>3, <2>6, <2>7 DEF TypeOK, lockVars
<1>17. CASE SeekStore(t)
  <2>1. pc[t] = "settle" /\ seen[t] \in Offsets /\ call[t] \in Calls
    BY <1>1, <1>17 DEF SeekStore, IInv, Loaded, InOrder
  <2>2. HandleOf(t) \in Handles /\ AsSize(seen[t]) \in Sizes
    BY <2>1, CallTypes, Conversions DEF HandleOf
  <2>3. /\ cursor' = [cursor EXCEPT ![HandleOf(t)] = AsSize(seen[t])]
        /\ pc' = [pc EXCEPT ![t] = "told"]
        /\ UNCHANGED <<storageVars, data, dirty, lockVars, call, seen, signal>>
    BY <1>17 DEF SeekStore
  <2>4. cursor' \in [Handles -> Sizes]
    BY <1>2, <2>2, <2>3
  <2> QED BY <1>2, <1>4, <2>3, <2>4 DEF TypeOK, lockVars
<1>18. CASE Quit(t)
  <2>1. /\ UNCHANGED <<path, size, file, view, pages, data, dirty, cursor, lockVars, signal>>
        /\ Leave(t)
    BY <1>18, QuitIs
  <2>2. /\ pc' \in [Threads -> {"idle", "enter", "opening", "mapped", "copied", "flush", "done",
                                "settle", "told"}]
        /\ call' \in [Threads -> Calls \cup {NoCall}] /\ seen' \in [Threads -> Int]
    BY <1>2, <2>1 DEF Leave
  <2> QED BY <1>2, <1>4, <2>1, <2>2 DEF TypeOK, lockVars, storageVars
<1> QED
  BY <1>7, <1>8, <1>9, <1>10, <1>11, <1>12, <1>13, <1>14, <1>15, <1>16, <1>17, <1>18
     DEF Step, Quit

LEMMA StepLoaded ==
  ASSUME IInv, NEW t \in Threads, Step(t)
  PROVE  Loaded(t)'
<1>1. /\ pc \in [Threads -> {"idle", "enter", "opening", "mapped", "copied", "flush", "done",
                             "settle", "told"}]
      /\ seen \in [Threads -> Int] /\ cursor \in [Handles -> Sizes] /\ Loaded(t)
  BY DEF IInv, TypeOK
<1>2. CASE Copy(t)
  <2>1. HandleOf(t) \in Handles
    BY <1>2, InTransfer DEF Copy, Outside
  <2>2. pc'[t] = "copied" /\ seen'[t] = cursor[HandleOf(t)]
    BY <1>1, <1>2 DEF Copy
  <2> QED BY <1>1, <2>1, <2>2 DEF Loaded
<1>3. CASE SeekLoad(t)
  <2>1. pc[t] = "enter" /\ call[t].op = "seek"
    BY <1>3 DEF SeekLoad
  <2>2. /\ pc'[t] = "settle"
        /\ seen'[t] = seek_target(size[path], AsOffset(cursor[HandleOf(t)]), call[t].offset,
                                  call[t].whence)
    BY <1>1, <1>3 DEF SeekLoad
  <2> QED BY <2>1, <2>2, SeekTarget DEF Loaded
<1>4. CASE Fault(t)
  BY <1>1, <1>4 DEF Fault, Loaded
<1>5. CASE ~ (Copy(t) \/ SeekLoad(t) \/ Fault(t))
  <2>1. pc'[t] \notin {"copied", "settle"}
    BY <1>1, <1>5
       DEF Step, Begin, Resize, Map, Fail, Advance, Flush, Return, SeekStore, SeekReturn, Throw,
           Leave
  <2> QED BY <2>1 DEF Loaded
<1> QED BY <1>2, <1>3, <1>4, <1>5

\* Getting and giving back the mutex.
LEMMA LocksStay ==
  ASSUME IInv, NEW t \in Threads, UNCHANGED lockVars,
         \A u \in Threads \ {t} : pc'[u] = pc[u] /\ call'[u] = call[u],
         pc'[t] \in Outside <=> pc[t] \in Outside,
         pc[t] \notin Outside => call'[t] = call[t]
  PROVE  Locks'
<1>1. \A u \in Threads : /\ pc'[u] \notin Outside <=> pc[u] \notin Outside
                         /\ pc[u] \notin Outside => call'[u] = call[u]
  OBVIOUS
<1> QED BY <1>1 DEF IInv, Locks, lockVars, HandleOf

LEMMA LocksRelease ==
  ASSUME IInv, NEW t \in Threads, pc[t] \notin Outside, Unlock(t, HandleOf(t)), Leave(t)
  PROVE  Locks'
<1> DEFINE h == HandleOf(t)
<1>1. h \in Handles /\ writer \in [Handles -> Threads \cup {NoThread}]
      /\ readers \in [Handles -> SUBSET Threads]
  BY InTransfer DEF IInv, TypeOK
<1>2. /\ pc'[t] \in Outside
      /\ \A u \in Threads \ {t} : pc'[u] = pc[u] /\ call'[u] = call[u]
  BY DEF Leave, Outside, IInv, TypeOK
<1>3. /\ writer' = [writer EXCEPT ![h] = IF @ = t THEN NoThread ELSE @]
      /\ readers' = [readers EXCEPT ![h] = @ \ {t}]
  BY DEF Unlock
<1>4. \A g \in Handles : g # h => writer[g] # t /\ t \notin readers[g]
  BY DEF IInv, Locks
<1> HIDE DEF h
<1>5. \A g \in Handles : /\ writer'[g] # t /\ t \notin readers'[g]
                         /\ writer'[g] # NoThread => writer'[g] = writer[g]
                         /\ readers'[g] \subseteq readers[g]
                         /\ \A u \in Threads \ {t} : /\ writer'[g] = u <=> writer[g] = u
                                                     /\ u \in readers'[g] <=> u \in readers[g]
  BY <1>1, <1>3, <1>4, SentinelAssumption
<1>6. \A u \in Threads \ {t} : (pc[u] \notin Outside => HandleOf(u)' = HandleOf(u))
  BY <1>2 DEF HandleOf
<1>7. ASSUME NEW g \in Handles, NEW u \in Threads
      PROVE  /\ writer'[g] = u <=> pc'[u] \notin Outside /\ HandleOf(u)' = g
                                   /\ call'[u].op \in Exclusive
             /\ u \in readers'[g] <=> pc'[u] \notin Outside /\ HandleOf(u)' = g
                                      /\ call'[u].op \notin Exclusive
             /\ writer'[g] # NoThread => readers'[g] = {}
  <2>1. writer'[g] # NoThread => readers'[g] = {}
    BY <1>5 DEF IInv, Locks
  <2>2. CASE u = t
    BY <1>2, <1>5, <2>1, <2>2
  <2>3. CASE u # t
    <3>1. /\ writer[g] = u <=> pc[u] \notin Outside /\ HandleOf(u) = g /\ call[u].op \in Exclusive
          /\ u \in readers[g] <=> pc[u] \notin Outside /\ HandleOf(u) = g
                                  /\ call[u].op \notin Exclusive
      BY DEF IInv, Locks
    <3> QED BY <1>2, <1>5, <1>6, <2>1, <2>3, <3>1
  <2> QED BY <2>2, <2>3
<1> QED BY <1>7 DEF Locks

LEMMA LocksAcquire ==
  ASSUME IInv, NEW t \in Threads, Begin(t)
  PROVE  Locks'
<1> DEFINE h == HandleOf(t)
<1>1. /\ pc[t] = "enter" /\ call[t].op # "seek" /\ call[t] \in Calls
      /\ pc' = [pc EXCEPT ![t] = "opening"] /\ UNCHANGED call
      /\ Acquire(t, h)
  BY DEF Begin, IInv, InOrder
<1>2. h \in Handles /\ writer \in [Handles -> Threads \cup {NoThread}]
      /\ readers \in [Handles -> SUBSET Threads]
  BY <1>1, CallTypes DEF IInv, TypeOK, HandleOf
<1>3. /\ pc[t] \in Outside /\ pc'[t] \notin Outside /\ HandleOf(t)' = h
      /\ \A u \in Threads \ {t} : pc'[u] = pc[u] /\ HandleOf(u)' = HandleOf(u)
  BY <1>1 DEF Outside, IInv, TypeOK, HandleOf
<1>4. \A g \in Handles : writer[g] # t /\ t \notin readers[g]
  BY <1>3 DEF IInv, Locks
<1>5. writer[h] = NoThread
  BY <1>1 DEF Acquire
<1> HIDE DEF h
<1>6. CASE call[t].op \in Exclusive
  <2>1. readers[h] = {} /\ writer' = [writer EXCEPT ![h] = t] /\ UNCHANGED readers
    BY <1>1, <1>6 DEF Acquire
  <2>2. \A g \in Handles : /\ writer'[g] = t <=> g = h
                           /\ \A u \in Threads \ {t} : writer'[g] = u <=> writer[g] = u
                           /\ writer'[g] # NoThread => readers[g] = {}
    BY <1>2, <1>4, <1>5, <2>1, SentinelAssumption DEF IInv, Locks
  <2> QED BY <1>1, <1>3, <1>4, <1>6, <2>1, <2>2 DEF IInv, Locks
<1>7. CASE call[t].op \notin Exclusive
  <2>1. readers' = [readers EXCEPT ![h] = @ \cup {t}] /\ UNCHANGED writer
    BY <1>1, <1>7 DEF Acquire
  <2>2. \A g \in Handles : /\ t \in readers'[g] <=> g = h
                           /\ \A u \in Threads \ {t} : u \in readers'[g] <=> u \in readers[g]
                           /\ writer'[g] # NoThread => readers'[g] = {}
    BY <1>2, <1>4, <1>5, <2>1 DEF IInv, Locks
  <2> QED BY <1>1, <1>3, <1>4, <1>7, <2>1, <2>2 DEF IInv, Locks
<1> QED BY <1>6, <1>7

LEMMA StepLocks ==
  ASSUME IInv, NEW t \in Threads, Step(t)
  PROVE  Locks'
<1>1. \A u \in Threads \ {t} : pc'[u] = pc[u] /\ call'[u] = call[u]
  BY StepMoves
<1>2. pc \in [Threads -> {"idle", "enter", "opening", "mapped", "copied", "flush", "done",
                          "settle", "told"}]
  BY DEF IInv, TypeOK
<1>3. CASE Fail(t) \/ Return(t)
  BY <1>3, LocksRelease DEF Fail, Return, Outside
<1>4. CASE Resize(t) \/ Map(t) \/ Copy(t) \/ Fault(t) \/ Advance(t) \/ Flush(t)
  <2>1. pc[t] \notin Outside /\ pc'[t] \notin Outside /\ UNCHANGED <<call, lockVars>>
    BY <1>2, <1>4 DEF Resize, Map, Copy, Fault, Advance, Flush, Outside
  <2> QED BY <1>1, <2>1, LocksStay
<1>5. CASE SeekLoad(t) \/ SeekStore(t)
  <2>1. pc[t] \in Outside /\ pc'[t] \in Outside /\ UNCHANGED lockVars
    BY <1>2, <1>5 DEF SeekLoad, SeekStore, Outside
  <2> QED BY <1>1, <2>1, LocksStay
<1>6. CASE Quit(t)
  BY <1>1, <1>6, QuitIs, LocksStay
<1> QED BY <1>3, <1>4, <1>5, <1>6, LocksAcquire DEF Step, Quit

LEMMA StepInv ==
  ASSUME IInv, NEW t \in Threads, Step(t)
  PROVE  IInv'
<1>1. UNCHANGED <<path, file>>
  BY StepMoves
<1>2. OneInode'
  BY <1>1 DEF IInv, OneInode
<1>3. ASSUME NEW u \in Threads PROVE InOrder(u)' /\ Loaded(u)'
  <2>1. CASE u = t
    BY <2>1, StepInOrder, StepLoaded
  <2>2. CASE u # t
    <3>1. view'[u] = view[u] /\ pc'[u] = pc[u] /\ call'[u] = call[u] /\ seen'[u] = seen[u]
      BY <2>2, StepMoves
    <3>2. InOrder(u) /\ Loaded(u)
      BY DEF IInv
    <3>3. Loaded(u)'
      BY <3>1, <3>2 DEF Loaded
    <3>4. pc[u] # "idle" => file[HandleOf(u)].owned
      BY <3>2 DEF InOrder
    <3> QED BY <1>1, <3>1, <3>2, <3>3, <3>4, InOrderKeeps
  <2> QED BY <2>1, <2>2
<1> QED BY <1>2, <1>3, StepTypes, StepLocks DEF IInv

\* Opening and closing handles, and beginning a call.
LEMMA OpenInv ==
  ASSUME IInv, NEW h \in Handles, Open(h)
  PROVE  /\ IInv' /\ UNCHANGED <<view, pc, call, seen, lockVars>>
         /\ path # NoInode => UNCHANGED <<path, size>>
         /\ \A t \in Threads : pc[t] # "idle" => h # HandleOf(t)
         /\ \A g \in Handles \ {h} : file'[g] = file[g] /\ cursor'[g] = cursor[g]
         /\ file'[h].owned => cursor'[h] = 0
<1>1. UNCHANGED <<view, pages, pc, call, seen, lockVars, data, dirty>>
  BY DEF Open, Drop, Create, Storage!DropFile, Storage!Create
<1>2. \A t \in Threads : InOrder(t) /\ Loaded(t)
  BY DEF IInv
<1>3. ASSUME OneInode', TypeOK',
             \A g \in Handles : (\E t \in Threads : pc[t] # "idle" /\ HandleOf(t) = g) =>
               file'[g] = file[g]
      PROVE  IInv'
  <2>1. ASSUME NEW t \in Threads PROVE InOrder(t)' /\ Loaded(t)'
    <3>1. pc[t] # "idle" => HandleOf(t) \in Handles /\ file[HandleOf(t)].owned
      BY <1>2, CallTypes DEF InOrder, HandleOf
    <3> QED BY <1>1, <1>2, <1>3, <3>1, InOrderKeeps DEF Loaded
  <2>2. Locks'
    BY <1>1 DEF IInv, Locks, lockVars, HandleOf
  <2> QED BY <1>3, <2>1, <2>2 DEF IInv
<1>4. /\ path \in Inodes \cup {NoInode} /\ size \in [Inodes -> 0 .. MaxFileSize]
      /\ file \in [Handles -> [inode : Inodes \cup {NoInode}, access : Storage!FileAccess,
                               owned : BOOLEAN]]
      /\ TypeOK
  BY DEF IInv, TypeOK, Storage!TypeOK
<1>5. CASE Drop(h)
  <2>1. ~ InUse(h) /\ Storage!DropFile(h) /\ UNCHANGED <<cursor, signal, path, size>>
    BY <1>5 DEF Drop, Storage!DropFile
  <2>2. \A t \in Threads : view[t].file # h
    <3>1. ASSUME NEW t \in Threads, view[t].file = h PROVE FALSE
      <4>1. pc[t] \in Outside => view[t].file = NoHandle
        BY <1>2 DEF InOrder, Storage!FreeView
      <4>2. pc[t] \notin Outside
        BY <3>1, <4>1, SentinelAssumption
      <4>3. HandleOf(t) = h /\ pc[t] # "idle"
        BY <3>1, <4>2, InTransfer DEF Outside
      <4> QED BY <2>1, <4>3 DEF InUse
    <3> QED BY <3>1
  <2>3. file' = [file EXCEPT ![h] = Storage!ClosedFile]
    BY <2>1, <2>2 DEF Storage!DropFile
  <2>4. OneInode'
    BY <1>4, <2>1, <2>3 DEF IInv, OneInode, Storage!ClosedFile
  <2>5. Storage!ClosedFile \in [inode : Inodes \cup {NoInode}, access : Storage!FileAccess,
                                owned : BOOLEAN]
    BY DEF Storage!ClosedFile, Storage!FileAccess
  <2>6. file' \in [Handles -> [inode : Inodes \cup {NoInode}, access : Storage!FileAccess,
                               owned : BOOLEAN]]
    BY <1>4, <2>3, <2>5
  <2>7. TypeOK'
    BY <1>1, <1>4, <2>1, <2>6 DEF TypeOK, Storage!TypeOK, lockVars
  <2>8. IInv'
    BY <1>3, <1>4, <2>1, <2>3, <2>4, <2>7 DEF InUse
  <2>9. ~ file'[h].owned
    BY <1>4, <2>3 DEF Storage!ClosedFile
  <2> QED BY <1>1, <1>4, <2>1, <2>3, <2>8, <2>9 DEF InUse
<1>6. ASSUME NEW access \in AccessModes, Create(h, access)
      PROVE  /\ IInv'
             /\ path # NoInode => UNCHANGED <<path, size>>
             /\ \A t \in Threads : pc[t] # "idle" => h # HandleOf(t)
             /\ \A g \in Handles \ {h} : file'[g] = file[g] /\ cursor'[g] = cursor[g]
             /\ cursor'[h] = 0
  <2>1. /\ file[h].inode = NoInode /\ cursor' = [cursor EXCEPT ![h] = 0] /\ UNCHANGED signal
        /\ file' = [file EXCEPT ![h] = [inode |-> path', access |-> access, owned |-> TRUE]]
        /\ \/ path # NoInode /\ UNCHANGED <<path, size>>
           \/ /\ path = NoInode
              /\ \E i \in Inodes : path' = i /\ size' = [size EXCEPT ![i] = 0]
    BY <1>6 DEF Create, Storage!Create, Storage!IsOpen
  <2>2. path' \in Inodes /\ access \in Storage!FileAccess
        /\ size' \in [Inodes -> 0 .. MaxFileSize]
    BY <1>4, <2>1, AccessAssumption, SizeFacts
  <2>3. file' \in [Handles -> [inode : Inodes \cup {NoInode}, access : Storage!FileAccess,
                               owned : BOOLEAN]]
    BY <1>4, <2>1, <2>2
  <2>4. path # NoInode => path' = path
    BY <2>1
  <2>5. OneInode'
    <3>1. \A g \in Handles : file[g].owned => path' = path
      BY <2>4, SentinelAssumption DEF IInv, OneInode
    <3> QED BY <1>4, <2>1, <2>2, <3>1 DEF IInv, OneInode
  <2>6. cursor' \in [Handles -> Sizes]
    BY <1>4, <2>1, SizeFacts DEF TypeOK
  <2>7. TypeOK'
    BY <1>1, <1>4, <2>1, <2>2, <2>3, <2>6 DEF TypeOK, Storage!TypeOK, lockVars
  <2>8. ~ file[h].owned
    BY <2>1, SentinelAssumption DEF IInv, OneInode
  <2>9. \A t \in Threads : pc[t] # "idle" => HandleOf(t) # h
    BY <1>2, <2>8 DEF InOrder
  <2>10. IInv'
    BY <1>3, <1>4, <2>1, <2>5, <2>7, <2>9
  <2> QED BY <1>4, <2>1, <2>9, <2>10 DEF TypeOK
<1> QED BY <1>1, <1>5, <1>6 DEF Open

LEMMA InvokeInv ==
  ASSUME IInv, NEW t \in Threads, Invoke(t)
  PROVE  /\ IInv' /\ UNCHANGED <<storageVars, data, dirty, cursor, lockVars, seen, signal>>
         /\ pc[t] = "idle" /\ pc'[t] = "enter"
         /\ \A u \in Threads \ {t} : pc'[u] = pc[u] /\ call'[u] = call[u]
<1>1. PICK c \in Calls : file[c.handle].owned /\ call' = [call EXCEPT ![t] = c]
  BY DEF Invoke
<1>2. /\ pc[t] = "idle" /\ pc' = [pc EXCEPT ![t] = "enter"]
      /\ UNCHANGED <<storageVars, data, dirty, cursor, lockVars, seen, reply, signal>>
  BY DEF Invoke
<1>3. UNCHANGED <<path, size, file, view, pages>>
  BY <1>2 DEF storageVars
<1>4. TypeOK'
  BY <1>1, <1>2, <1>3 DEF IInv, TypeOK, Storage!TypeOK, lockVars
<1>5. /\ pc'[t] = "enter" /\ call'[t] = c
      /\ \A u \in Threads \ {t} : pc'[u] = pc[u] /\ call'[u] = call[u]
  BY <1>1, <1>2 DEF IInv, TypeOK
<1>6. OneInode'
  BY <1>3 DEF IInv, OneInode
<1>7. ASSUME NEW u \in Threads PROVE InOrder(u)' /\ Loaded(u)'
  <2>1. CASE u = t
    <3>1. view[t] = Storage!FreeView
      BY <1>2 DEF IInv, InOrder, Outside
    <3>2. HandleOf(t)' = c.handle
      BY <1>5 DEF HandleOf
    <3> QED BY <1>1, <1>3, <1>5, <2>1, <3>1, <3>2
            DEF InOrder, Loaded, Outside, Mapped, Storage!FreeView
  <2>2. CASE u # t
    <3>1. pc'[u] = pc[u] /\ call'[u] = call[u] /\ view'[u] = view[u] /\ seen'[u] = seen[u]
      BY <1>2, <1>3, <1>5, <2>2
    <3>2. InOrder(u) /\ Loaded(u)
      BY DEF IInv
    <3>3. pc[u] # "idle" => file[HandleOf(u)].owned
      BY <3>2 DEF InOrder
    <3>4. Loaded(u)'
      BY <3>1, <3>2 DEF Loaded
    <3> QED BY <1>3, <3>1, <3>2, <3>3, <3>4, InOrderKeeps
  <2> QED BY <2>1, <2>2
<1>8. Locks'
  BY <1>2, <1>5, LocksStay DEF Outside
<1> QED BY <1>2, <1>4, <1>5, <1>6, <1>7, <1>8 DEF IInv

LEMMA NextInv == IInv /\ [Next]_vars => IInv'
<1> SUFFICES ASSUME IInv, [Next]_vars PROVE IInv'
  OBVIOUS
<1>1. CASE UNCHANGED vars
  <2>1. UNCHANGED <<path, size, file, view, pages, data, dirty, cursor, writer, readers, pc, call,
                    seen, signal>>
    BY <1>1 DEF vars, storageVars, lockVars
  <2>2. TypeOK' /\ OneInode' /\ Locks'
    BY <2>1 DEF IInv, TypeOK, Storage!TypeOK, OneInode, Locks, HandleOf
  <2>3. ASSUME NEW t \in Threads PROVE InOrder(t)' /\ Loaded(t)'
    <3>1. InOrder(t) /\ Loaded(t)
      BY DEF IInv
    <3>2. pc[t] # "idle" => file[HandleOf(t)].owned
      BY <3>1 DEF InOrder
    <3>3. Loaded(t)'
      BY <2>1, <3>1 DEF Loaded
    <3> QED BY <2>1, <3>1, <3>2, <3>3, InOrderKeeps
  <2> QED BY <2>2, <2>3 DEF IInv
<1> QED BY <1>1, StepInv, OpenInv, InvokeInv DEF Next

LEMMA Inductive == Spec => []IInv
<1> QED BY InitInv, NextInv, PTL DEF Spec

\* Everything has its type; in particular no byte outside a file is written
\* back, and the cursor and what seek makes of it are words.
THEOREM TypeCorrect == Spec => []TypeOK
<1>1. IInv => TypeOK
  BY DEF IInv
<1> QED BY Inductive, <1>1, PTL

\* A transfer that holds the mutex exclusively is alone on its handle, from
\* before its view is opened until after it is gone.
ExclusiveAlone ==
  \A t, u \in Threads :
    /\ pc[t] \notin Outside /\ call[t].op \in Exclusive
    /\ pc[u] \notin Outside /\ HandleOf(u) = HandleOf(t)
    => u = t

LEMMA Exclusion == IInv => ExclusiveAlone
<1> SUFFICES ASSUME IInv, NEW t \in Threads, NEW u \in Threads,
                    pc[t] \notin Outside, call[t].op \in Exclusive,
                    pc[u] \notin Outside, HandleOf(u) = HandleOf(t)
             PROVE  u = t
  BY DEF ExclusiveAlone
<1>1. HandleOf(t) \in Handles
  BY InTransfer
<1>2. writer[HandleOf(t)] = t /\ readers[HandleOf(t)] = {}
  BY <1>1, SentinelAssumption DEF IInv, Locks
<1> QED BY <1>1, <1>2 DEF IInv, Locks

THEOREM TransfersExclude == Spec => []ExclusiveAlone
<1> QED BY Inductive, Exclusion, PTL

-----------------------------------------------------------------------------
(* Written and synced                                                        *)

\* What a write has moved lies on the pages its flush writes back.
LEMMA FlushCovers ==
  ASSUME IInv, NEW t \in Threads, pc[t] \in Mapped
  PROVE  Span(t) \subseteq Flushed(t)
<1> DEFINE o == view[t].file_offset
           l == view[t].view_length
           r == real_offset(o)
           n == release_length(o, l)
<1>1. pc[t] \notin Outside /\ TypeOK /\ InOrder(t) /\ o \in Sizes /\ l \in Sizes
  BY SameArithmetic DEF IInv, TypeOK, Storage!TypeOK, Mapped, Outside
<1>2. /\ o \in Nat /\ l \in Nat /\ l + Granularity <= Word /\ Span(t) = o .. o + l - 1
  BY <1>1, CountIsRequest, InTransfer
<1>3. r \in Nat /\ page_delta(o) = o - r /\ page_delta(o) \in 0 .. Granularity - 1
  BY <1>1, RealOffset
<1>4. n = Plus(l, page_delta(o))
  BY DEF release_length
<1>5. Flushed(t) = r .. r + Granularity * PagesOf(n) - 1
  BY DEF Flushed
<1> HIDE DEF o, l, r, n
<1>6. n = l + (o - r) /\ n \in Nat
  BY <1>2, <1>3, <1>4, GranularityAssumption, SizeFacts DEF Plus
<1>7. PagesOf(n) \in Nat /\ Granularity * PagesOf(n) >= n
  BY <1>6, PagesHold
<1>8. Granularity * PagesOf(n) \in Nat
  BY <1>7, GranularityAssumption
<1>9. r <= o /\ o + l <= r + Granularity * PagesOf(n)
  BY <1>2, <1>3, <1>6, <1>7, <1>8, GranularityAssumption
<1> QED BY <1>2, <1>3, <1>5, <1>8, <1>9

\* A call that has written and not yet flushed.
Unflushed(t, p) ==
  pc[t] \in {"copied", "flush"} /\ call[t].op \in Writes /\ p \in Span(t)

LEMMA UnflushedKeeps ==
  ASSUME NEW t \in Threads, NEW p, Unflushed(t, p), view'[t] = view[t], call'[t] = call[t],
         pc'[t] \in {"copied", "flush"}
  PROVE  Unflushed(t, p)'
BY DEF Unflushed, Span, Count

\* Nobody but Copy adds a byte that is not on disk, and only Flush leaves the
\* calls that account for them.
LEMMA UnsyncedStep ==
  ASSUME ~ SyncMayFail, IInv, Unsynced, [Next]_vars
  PROVE  Unsynced'
<1>1. \A i \in Inodes : /\ i # path => dirty[i] = {}
                        /\ \A p \in dirty[i] : \E t \in Threads : Unflushed(t, p)
  BY DEF Unsynced, Unflushed
<1>2. ASSUME \A i \in Inodes : /\ i # path' => dirty'[i] = {}
                               /\ \A p \in dirty'[i] : \E t \in Threads : Unflushed(t, p)'
      PROVE  Unsynced'
  BY <1>2 DEF Unsynced, Unflushed
<1>3. dirty \in [Inodes -> SUBSET Positions]
      /\ pc \in [Threads -> {"idle", "enter", "opening", "mapped", "copied", "flush", "done",
                             "settle", "told"}]
      /\ path \in Inodes \cup {NoInode}
  BY DEF IInv, TypeOK, Storage!TypeOK
\* Steps that leave dirty and every call that is past its memcpy alone.
<1>4. ASSUME UNCHANGED dirty, path # NoInode => path' = path,
             \A u \in Threads : pc[u] \in {"copied", "flush"} /\ call[u].op \in Writes =>
               /\ view'[u] = view[u] /\ call'[u] = call[u] /\ pc'[u] \in {"copied", "flush"}
      PROVE  Unsynced'
  <2>1. \A u \in Threads : \A p : Unflushed(u, p) => Unflushed(u, p)'
    BY <1>4, UnflushedKeeps DEF Unflushed
  <2>2. \A i \in Inodes : i # path' => dirty'[i] = {}
    BY <1>1, <1>3, <1>4, SentinelAssumption
  <2>3. \A i \in Inodes : \A p \in dirty'[i] : \E u \in Threads : Unflushed(u, p)'
    BY <1>1, <1>4, <2>1
  <2> QED BY <1>2, <2>2, <2>3
<1>5. CASE UNCHANGED vars
  BY <1>4, <1>5 DEF vars, storageVars
<1>6. ASSUME NEW h \in Handles, Open(h) PROVE Unsynced'
  <2>1. UNCHANGED <<dirty, view, pc, call>>
    BY <1>6, OpenInv DEF Open, Drop, Create
  <2>2. path # NoInode => path' = path
    BY <1>6 DEF Open, Drop, Create, Storage!DropFile, Storage!Create
  <2> QED BY <1>4, <2>1, <2>2
<1>7. ASSUME NEW t \in Threads, Invoke(t) PROVE Unsynced'
  <2>1. /\ UNCHANGED <<path, view, dirty>> /\ pc[t] = "idle"
        /\ \A u \in Threads \ {t} : pc'[u] = pc[u] /\ call'[u] = call[u]
    BY <1>7, InvokeInv DEF storageVars
  <2> QED BY <1>4, <2>1
<1>8. ASSUME NEW t \in Threads, Step(t) PROVE Unsynced'
  <2>1. /\ UNCHANGED path
        /\ \A u \in Threads \ {t} : view'[u] = view[u] /\ pc'[u] = pc[u] /\ call'[u] = call[u]
    BY <1>8, StepMoves
  <2>2. CASE Copy(t)
    <3>1. /\ pc[t] = "mapped" /\ pc'[t] = "copied" /\ UNCHANGED <<view, call>>
          /\ call[t].op \notin Writes => UNCHANGED dirty
          /\ call[t].op \in Writes => dirty' = [dirty EXCEPT ![path] = @ \cup Span(t)]
      BY <1>3, <2>2, InTransfer DEF Copy, Outside, storageVars
    <3>2. \A u \in Threads : \A p : Unflushed(u, p) => Unflushed(u, p)'
      <4>1. ASSUME NEW u \in Threads, NEW p, Unflushed(u, p) PROVE Unflushed(u, p)'
        <5>1. u # t
          BY <3>1, <4>1 DEF Unflushed
        <5> QED BY <2>1, <4>1, <5>1, UnflushedKeeps DEF Unflushed
      <4> QED BY <4>1
    <3>3. CASE call[t].op \notin Writes
      BY <1>1, <1>2, <2>1, <3>1, <3>2, <3>3
    <3>4. CASE call[t].op \in Writes
      <4>1. \A p \in Span(t) : Unflushed(t, p)'
        BY <3>1, <3>4 DEF Unflushed, Span, Count
      <4>2. path \in Inodes
        BY <3>1, InTransfer DEF Outside
      <4>3. \A i \in Inodes : dirty'[i] = IF i = path THEN dirty[i] \cup Span(t) ELSE dirty[i]
        BY <1>3, <3>1, <3>4
      <4>4. \A i \in Inodes : \A p \in dirty'[i] : \E u \in Threads : Unflushed(u, p)'
        BY <1>1, <3>2, <4>1, <4>3
      <4> QED BY <1>1, <1>2, <2>1, <4>3, <4>4
    <3> QED BY <3>3, <3>4
  <2>3. CASE Flush(t)
    <3>1. /\ pc[t] = "flush" /\ dirty' = [dirty EXCEPT ![path] = @ \ Flushed(t)]
          /\ path \in Inodes /\ pc[t] \in Mapped
      BY <2>3, InTransfer DEF Flush, Outside, Mapped
    <3>2. Span(t) \subseteq Flushed(t)
      BY <3>1, FlushCovers
    <3>3. \A i \in Inodes : dirty'[i] = IF i = path THEN dirty[i] \ Flushed(t) ELSE dirty[i]
      BY <1>3, <3>1
    <3>4. ASSUME NEW i \in Inodes, NEW p \in dirty'[i] PROVE \E u \in Threads : Unflushed(u, p)'
      <4>1. p \in dirty[i] /\ p \notin Flushed(t)
        BY <1>1, <3>3, <3>4
      <4>2. PICK u \in Threads : Unflushed(u, p)
        BY <1>1, <4>1
      <4>3. u # t
        BY <3>2, <4>1, <4>2 DEF Unflushed
      <4> QED BY <2>1, <4>2, <4>3, UnflushedKeeps DEF Unflushed
    <3> QED BY <1>1, <1>2, <2>1, <3>3, <3>4
  <2>4. CASE Advance(t)
    <3>1. /\ pc[t] = "copied" /\ UNCHANGED <<dirty, call, view>>
          /\ call[t].op \in Writes => pc'[t] = "flush"
      BY <1>3, <2>4 DEF Advance, storageVars
    <3> QED BY <1>4, <2>1, <3>1
  <2>5. CASE ~ (Copy(t) \/ Flush(t) \/ Advance(t))
    <3>1. UNCHANGED dirty /\ (pc[t] \notin {"copied", "flush"} \/ UNCHANGED <<pc, call, view>>)
      BY <1>8, <2>5
         DEF Step, Begin, Resize, Map, Fail, Fault, Return, SeekLoad, SeekStore, SeekReturn, Throw,
             storageVars
    <3> QED BY <1>4, <2>1, <3>1
  <2> QED BY <2>2, <2>3, <2>4, <2>5
<1> QED BY <1>5, <1>6, <1>7, <1>8 DEF Next

\* When every msync succeeds, what a write that returned has written is on
\* disk: only calls that are still running have bytes that are not.
THEOREM WritesAreSynced ==
  ASSUME ~ SyncMayFail
  PROVE  Spec => []ReturnedWritesAreSynced
<1>1. Init => Unsynced
  BY DEF Init, Unsynced
<1>2. IInv /\ Unsynced /\ [Next]_vars => Unsynced'
  BY UnsyncedStep
<1>3. Unsynced => ReturnedWritesAreSynced
  <2> SUFFICES ASSUME Unsynced, NEW i \in Inodes, NEW p \in dirty[i]
               PROVE  p \in UNION {Span(t) : t \in {u \in Threads : pc[u] \in {"copied", "flush"}}}
    BY DEF ReturnedWritesAreSynced
  <2>1. PICK t \in Threads : pc[t] \in {"copied", "flush"} /\ p \in Span(t)
    BY DEF Unsynced
  <2> QED BY <2>1
<1> QED BY <1>1, <1>2, <1>3, Inductive, PTL DEF Spec

-----------------------------------------------------------------------------
(* Writable handles never fault                                              *)

\* Where a transfer is about to truncate the file.
LEMMA GrowingIs ==
  ASSUME IInv, NEW t \in Threads, pc[t] \notin Outside
  PROVE  /\ Storage!MustGrow(t) <=>
              Storage!CanWrite(Access(t)) /\ Storage!MappingEnd(t) > view[t].file_size
         /\ Storage!Growing(t) <=> view[t].stage = "sized" /\ Storage!MustGrow(t)
         /\ Storage!MappingEnd(t) \in Nat /\ view[t].file_size \in Nat
<1>1. view[t].file = HandleOf(t) /\ Storage!InodeOf(t) = path /\ TypeOK
  BY InTransfer DEF IInv
<1>2. view[t].file_size \in Nat
  BY <1>1, SizeFacts, SameArithmetic DEF TypeOK, Storage!TypeOK
<1> QED BY <1>1, <1>2, ViewNumbers DEF Storage!MustGrow, Storage!Growing, Access

\* The same after a step.
GrowthShape ==
  \A t \in Threads : pc[t] \notin Outside =>
    /\ Storage!MustGrow(t) <=>
         Storage!CanWrite(Access(t)) /\ Storage!MappingEnd(t) > view[t].file_size
    /\ Storage!Growing(t) <=> view[t].stage = "sized" /\ Storage!MustGrow(t)
    /\ Storage!MappingEnd(t) \in Nat /\ view[t].file_size \in Nat

LEMMA GrowingIsNext == IInv' => GrowthShape'
<1>1. IInv => GrowthShape
  BY GrowingIs DEF GrowthShape
<1> QED BY <1>1, PTL

Backed(t) ==
  pc[t] \notin Outside /\ Storage!CanWrite(Access(t)) =>
    IF Storage!Growing(t) THEN size[path] <= Storage!MappingEnd(t)
    ELSE Storage!MappingEnd(t) <= size[path]

\* A transfer nobody touches stays backed while the file keeps its size.
LEMMA SameBacking ==
  ASSUME IInv, IInv', NEW t \in Threads, Backed(t), view'[t] = view[t],
         pc[t] \in Outside <=> pc'[t] \in Outside,
         pc[t] \notin Outside =>
           /\ call'[t] = call[t] /\ path' = path /\ size'[path] = size[path]
           /\ file'[HandleOf(t)] = file[HandleOf(t)]
  PROVE  Backed(t)'
<1>1. CASE pc[t] \in Outside
  BY <1>1 DEF Backed
<1>2. CASE pc[t] \notin Outside
  <2>1. Access(t)' = Access(t) /\ Storage!MappingEnd(t)' = Storage!MappingEnd(t)
    BY <1>2, SameView DEF Access, HandleOf
  <2>2. Storage!CanWrite(Access(t))' <=> Storage!CanWrite(Access(t))
    BY <2>1 DEF Storage!CanWrite
  <2>3. Storage!Growing(t)' <=> Storage!Growing(t)
    BY <1>2, <2>1, <2>2, GrowingIs, GrowingIsNext DEF GrowthShape
  <2> QED BY <1>2, <2>1, <2>2, <2>3 DEF Backed
<1> QED BY <1>1, <1>2

LEMMA BackingStep ==
  ASSUME IInv, IInv', Backing, Storage!GrowthAgreed, [Next]_vars
  PROVE  Backing'
<1>1. \A t \in Threads : Backed(t)
  BY DEF Backing, Backed
<1>2. ASSUME \A t \in Threads : Backed(t)' PROVE Backing'
  BY <1>2 DEF Backing, Backed
<1>3. /\ pc \in [Threads -> {"idle", "enter", "opening", "mapped", "copied", "flush", "done",
                             "settle", "told"}]
      /\ size \in [Inodes -> 0 .. MaxFileSize]
      /\ view \in [Threads -> [stage : {"free", "sized", "grown", "mapped"},
                               file : Handles \cup {NoHandle},
                               file_offset : Sizes, view_length : Sizes, file_size : Sizes]]
  BY SameArithmetic DEF IInv, TypeOK, Storage!TypeOK
<1>4. \A t \in Threads : pc[t] \notin Outside => HandleOf(t) \in Handles /\ path # NoInode
  BY InTransfer, SentinelAssumption
<1>5. CASE UNCHANGED vars
  BY <1>1, <1>2, <1>5, SameBacking DEF vars, storageVars
<1>6. ASSUME NEW h \in Handles, Open(h) PROVE Backing'
  <2>1. ASSUME NEW t \in Threads PROVE Backed(t)'
    <3>1. /\ UNCHANGED <<view, pc, call>>
          /\ path # NoInode => UNCHANGED <<path, size>>
          /\ pc[t] # "idle" => h # HandleOf(t)
          /\ \A g \in Handles \ {h} : file'[g] = file[g]
      BY <1>6, OpenInv
    <3> QED BY <1>1, <1>4, <3>1, SameBacking DEF Outside
  <2> QED BY <1>2, <2>1
<1>7. ASSUME NEW t \in Threads, Invoke(t) PROVE Backing'
  <2>1. /\ UNCHANGED <<view, file, size, path>> /\ pc[t] = "idle" /\ pc'[t] = "enter"
        /\ \A u \in Threads \ {t} : pc'[u] = pc[u] /\ call'[u] = call[u]
    BY <1>7, InvokeInv DEF storageVars
  <2>2. ASSUME NEW u \in Threads PROVE Backed(u)'
    BY <1>1, <2>1, SameBacking DEF Outside
  <2> QED BY <1>2, <2>2
<1>8. ASSUME NEW t \in Threads, Step(t) PROVE Backing'
  <2>1. /\ UNCHANGED <<path, file>>
        /\ \A u \in Threads \ {t} : view'[u] = view[u] /\ pc'[u] = pc[u] /\ call'[u] = call[u]
    BY <1>8, StepMoves
  <2>2. ASSUME UNCHANGED size, Backed(t)' PROVE Backing'
    <3>1. \A u \in Threads \ {t} : Backed(u)'
      BY <1>1, <2>1, <2>2, SameBacking
    <3> QED BY <1>2, <2>2, <3>1
  <2>3. CASE Begin(t)
    <3>1. /\ UNCHANGED size /\ pc'[t] = "opening" /\ view'[t].stage = "sized"
          /\ view'[t].file_size = size[path]
      BY <1>3, <2>3 DEF Begin, Storage!GetView
    <3>2. pc'[t] \notin Outside
      BY <3>1 DEF Outside
    <3>3. Backed(t)'
      BY <2>1, <3>1, <3>2, GrowingIsNext DEF GrowthShape, Backed
    <3> QED BY <2>2, <3>1, <3>3
  <2>4. CASE Resize(t) /\ Storage!Grow(t)
    <3>1. /\ pc[t] = "opening" /\ pc[t] \notin Outside /\ UNCHANGED <<pc, call>>
          /\ view[t].stage = "sized" /\ Storage!MustGrow(t)
          /\ size' = [size EXCEPT ![path] = Storage!MappingEnd(t)]
          /\ view' = [view EXCEPT ![t].stage = "grown"]
      BY <2>4, InTransfer DEF Resize, Storage!Grow, Outside
    <3>2. /\ Storage!Growing(t) /\ path \in Inodes /\ size[path] \in Nat
          /\ Storage!MappingEnd(t) \in Nat /\ Storage!CanWrite(Access(t))
      BY <3>1, GrowingIs, InTransfer
    <3>3. size'[path] = Storage!MappingEnd(t) /\ size[path] <= Storage!MappingEnd(t)
      BY <1>1, <1>3, <3>1, <3>2 DEF Backed
    <3>4. Backed(t)'
      <4>1. Storage!MappingEnd(t)' = Storage!MappingEnd(t)
        BY <1>3, <3>1, SameView
      <4>2. ~ Storage!Growing(t)'
        BY <1>3, <3>1, GrowingIsNext DEF GrowthShape
      <4> QED BY <2>1, <3>2, <3>3, <4>1, <4>2 DEF Backed
    <3>5. ASSUME NEW u \in Threads \ {t}, pc[u] \notin Outside, Storage!CanWrite(Access(u))'
          PROVE  Backed(u)'
      <4>1. /\ Access(u)' = Access(u) /\ Storage!MappingEnd(u)' = Storage!MappingEnd(u)
            /\ pc'[u] \notin Outside /\ view'[u] = view[u]
        BY <2>1, <3>5, SameView DEF Access, HandleOf
      <4>2. Storage!CanWrite(Access(u))
        BY <3>5, <4>1 DEF Storage!CanWrite
      <4>3. Storage!Growing(u)' <=> Storage!Growing(u)
        BY <3>5, <4>1, <4>2, GrowingIs, GrowingIsNext DEF GrowthShape
      <4>4. Storage!Growing(u) => Storage!MappingEnd(u) = Storage!MappingEnd(t)
        BY <3>2 DEF Storage!GrowthAgreed
      <4>5. ~ Storage!Growing(u) => Storage!MappingEnd(u) <= size[path]
        BY <1>1, <3>5, <4>2 DEF Backed
      <4>6. Storage!MappingEnd(u) \in Nat
        BY <3>5, GrowingIs
      <4> QED BY <2>1, <3>2, <3>3, <4>1, <4>3, <4>4, <4>5, <4>6 DEF Backed
    <3>6. \A u \in Threads \ {t} : Backed(u)'
      BY <2>1, <3>5 DEF Backed
    <3> QED BY <1>2, <3>4, <3>6
  <2>5. CASE (Resize(t) /\ Storage!KeepSize(t)) \/ Map(t)
    <3> DEFINE stage == IF Map(t) THEN "mapped" ELSE "grown"
    <3>1. /\ pc[t] = "opening" /\ UNCHANGED <<call, size>> /\ pc'[t] \in {"opening", "mapped"}
          /\ view[t].stage = "sized" => ~ Storage!MustGrow(t)
          /\ view' = [view EXCEPT ![t].stage = stage] /\ stage \in {"mapped", "grown"}
      BY <1>3, <2>5 DEF Resize, Map, Storage!KeepSize, Storage!Map
    <3> HIDE DEF stage
    <3>2. pc[t] \notin Outside /\ pc'[t] \notin Outside
      BY <3>1 DEF Outside
    <3>3. /\ Storage!MappingEnd(t)' = Storage!MappingEnd(t) /\ Access(t)' = Access(t)
          /\ ~ Storage!Growing(t) /\ ~ Storage!Growing(t)'
      BY <1>3, <2>1, <3>1, <3>2, SameView, GrowingIs, GrowingIsNext DEF GrowthShape, Access, HandleOf
    <3>4. Storage!CanWrite(Access(t))' => Storage!CanWrite(Access(t))
      BY <3>3 DEF Storage!CanWrite
    <3>5. Backed(t)'
      BY <1>1, <2>1, <3>1, <3>2, <3>3, <3>4 DEF Backed
    <3> QED BY <2>2, <3>1, <3>5
  <2>6. CASE Fail(t) \/ Return(t)
    <3>1. pc'[t] = "idle" /\ UNCHANGED size
      BY <1>3, <2>6
         DEF Fail, Return, Leave, Storage!GrowFails, Storage!MapFails, Storage!Destroy
    <3>2. Backed(t)'
      BY <3>1 DEF Backed, Outside
    <3> QED BY <2>2, <3>1, <3>2
  <2>7. CASE Copy(t) \/ Fault(t) \/ Advance(t) \/ Flush(t)
    <3>1. pc[t] \notin Outside /\ pc'[t] \notin Outside /\ UNCHANGED <<view, call, size>>
      BY <1>3, <2>7 DEF Copy, Fault, Advance, Flush, Outside, storageVars
    <3>2. Backed(t)'
      BY <1>1, <2>1, <3>1, SameBacking
    <3> QED BY <2>2, <3>1, <3>2
  <2>8. CASE SeekLoad(t) \/ SeekStore(t)
    <3>1. pc'[t] \in Outside /\ UNCHANGED size
      BY <1>3, <2>8 DEF SeekLoad, SeekStore, Outside, storageVars
    <3>2. Backed(t)'
      BY <3>1 DEF Backed
    <3> QED BY <2>2, <3>1, <3>2
  <2>9. CASE Quit(t)
    <3>1. Backed(t)'
      BY <2>9, QuitIs DEF Backed
    <3> QED BY <2>2, <2>9, <3>1, QuitIs
  <2> QED
    BY <1>8, <2>3, <2>4, <2>5, <2>6, <2>7, <2>8, <2>9 DEF Step, Resize, Quit
<1> QED BY <1>5, <1>6, <1>7, <1>8 DEF Next

LEMMA BackingAlways == Spec /\ []Storage!GrowthAgreed => []Backing
<1>1. Init => Backing
  BY DEF Init, Backing, Outside
<1>2. IInv /\ IInv' /\ Backing /\ Storage!GrowthAgreed /\ [Next]_vars => Backing'
  BY BackingStep
<1> QED BY <1>1, <1>2, Inductive, PTL DEF Spec

\* What a transfer through a writable file covers lies in the file.
LEMMA RangeBacked ==
  ASSUME IInv, Backing, NEW t \in Threads, pc[t] \in Mapped, Storage!CanWrite(Access(t))
  PROVE  /\ Span(t) \subseteq 0 .. size[path] - 1
         /\ view[t].view_length # 0 => view[t].file_offset + Count(t) <= size[path]
<1>1. pc[t] \notin Outside /\ view[t].stage = "mapped" /\ TypeOK /\ InOrder(t)
  BY DEF Mapped, Outside, IInv, InOrder
<1>2. Storage!MappingEnd(t) <= size[path] /\ size[path] \in Nat
  BY <1>1, GrowingIs, InTransfer DEF Backing
<1>3. /\ view[t].file_offset \in Nat /\ view[t].view_length \in Nat
      /\ view[t].view_length + Granularity <= Word
      /\ Span(t) = view[t].file_offset .. view[t].file_offset + view[t].view_length - 1
      /\ Count(t) = view[t].view_length
  BY <1>1, CountIsRequest, InTransfer
<1>4. CASE view[t].view_length = 0
  BY <1>3, <1>4
<1>5. CASE view[t].view_length # 0
  <2>1. Storage!MappingEnd(t) = view[t].file_offset + view[t].view_length
    BY <1>1, <1>3, <1>5, MappedEnd DEF InOrder
  <2> QED BY <1>2, <1>3, <2>1
<1> QED BY <1>4, <1>5

LEMMA NeverFaultStep ==
  ASSUME IInv, Backing, WritableHandlesNeverFault, [Next]_vars
  PROVE  WritableHandlesNeverFault'
<1>1. ASSUME UNCHANGED vars PROVE WritableHandlesNeverFault'
  BY <1>1 DEF vars, storageVars, WritableHandlesNeverFault, HandleOf
<1>2. CASE signal # "none"
  BY <1>1, <1>2 DEF Next, Open, Step
<1>3. CASE signal = "none"
  <2>1. ASSUME NEW t \in Threads, Fault(t) PROVE WritableHandlesNeverFault'
    <3>1. pc[t] = "mapped" /\ UNCHANGED <<pc, file, call>>
      BY <2>1 DEF Fault, storageVars
    <3>2. ~ Storage!CanWrite(Access(t))
      <4>1. ASSUME Storage!CanWrite(Access(t)) PROVE FALSE
        <5>1. pc[t] \notin Outside /\ pc[t] \in Mapped
          BY <3>1 DEF Outside, Mapped
        <5>2. InodeOf(HandleOf(t)) = path /\ size[path] \in Nat
          BY <5>1, InTransfer
        <5>3. Span(t) \subseteq 0 .. size[path] - 1
          BY <4>1, <5>1, RangeBacked
        <5>4. PagesOf(size[path]) \in Nat /\ Granularity * PagesOf(size[path]) >= size[path]
          BY <5>2, PagesHold
        <5>5. Granularity * PagesOf(size[path]) \in Nat
          BY <5>4, GranularityAssumption
        <5>6. Span(t) \subseteq Resident(path)
          BY <5>2, <5>3, <5>4, <5>5 DEF Resident
        <5> QED BY <2>1, <4>1, <5>2, <5>6 DEF Fault, Access
      <4> QED BY <4>1
    <3>3. HandleOf(t)' = HandleOf(t)
      BY <3>1 DEF HandleOf
    <3> QED BY <3>1, <3>2, <3>3 DEF WritableHandlesNeverFault, Access
  <2>2. ASSUME signal' = "none" PROVE WritableHandlesNeverFault'
    BY <2>2 DEF WritableHandlesNeverFault
  <2>3. CASE UNCHANGED vars
    BY <1>1, <2>3
  <2>4. CASE Next
    BY <1>3, <2>1, <2>2, <2>4
       DEF Next, Open, Drop, Create, Invoke, Step, Begin, Resize, Map, Fail, Copy, Advance, Flush,
           Return, SeekLoad, SeekStore, SeekReturn, Throw
  <2> QED BY <2>3, <2>4
<1> QED BY <1>2, <1>3

\* As long as transfers that truncate the file at the same time agree on its
\* size, none that goes through a writable handle touches memory the file
\* does not back.
THEOREM AgreedHandlesNeverFault ==
  Spec /\ []Storage!GrowthAgreed => []WritableHandlesNeverFault
<1>1. Init => WritableHandlesNeverFault
  BY DEF Init, WritableHandlesNeverFault
<1>2. IInv /\ Backing /\ WritableHandlesNeverFault /\ [Next]_vars => WritableHandlesNeverFault'
  BY NeverFaultStep
<1> QED BY <1>1, <1>2, Inductive, BackingAlways, PTL DEF Spec

\* One thread has nobody to disagree with, however many handles it has ...
LEMMA OneThreadAgrees ==
  ASSUME \A t, u \in Threads : t = u
  PROVE  Spec => []Storage!GrowthAgreed
<1>1. IInv => Storage!GrowthAgreed
  BY DEF Storage!GrowthAgreed
<1> QED BY <1>1, Inductive, PTL

\* Calls of read_from, which share the mutex, ask for bytes up to the same end.
ReadersAgree ==
  \A c, d \in Calls :
    /\ c.op = "read_from" /\ c.requested # 0
    /\ d.op = "read_from" /\ d.requested # 0
    => Plus(AsSize(c.offset), c.requested) = Plus(AsSize(d.offset), d.requested)

\* The view of a read_from starts where the call says.
OffsetAsked ==
  \A t \in Threads :
    pc[t] \notin Outside /\ call[t].op = "read_from" =>
      view[t].file_offset = AsSize(call[t].offset)

LEMMA OffsetAskedStep == IInv /\ OffsetAsked /\ [Next]_vars => OffsetAsked'
<1> SUFFICES ASSUME IInv, OffsetAsked, [Next]_vars PROVE OffsetAsked'
  OBVIOUS
<1>1. ASSUME NEW t \in Threads, view'[t] = view[t], call'[t] = call[t],
             pc'[t] = pc[t] \/ pc'[t] \in Outside
      PROVE  pc'[t] \notin Outside /\ call'[t].op = "read_from" =>
               view'[t].file_offset = AsSize(call'[t].offset)
  BY <1>1 DEF OffsetAsked
<1>2. CASE UNCHANGED vars
  <2>1. UNCHANGED <<view, call, pc>>
    BY <1>2 DEF vars, storageVars
  <2> QED BY <2>1 DEF OffsetAsked, Outside
<1>3. ASSUME NEW h \in Handles, Open(h) PROVE OffsetAsked'
  <2>1. UNCHANGED <<view, call, pc>>
    BY <1>3, OpenInv
  <2> QED BY <2>1 DEF OffsetAsked, Outside
<1>4. ASSUME NEW t \in Threads, Invoke(t) PROVE OffsetAsked'
  <2>1. /\ UNCHANGED view /\ pc'[t] = "enter"
        /\ \A u \in Threads \ {t} : pc'[u] = pc[u] /\ call'[u] = call[u]
    BY <1>4, InvokeInv DEF storageVars
  <2> QED BY <2>1 DEF OffsetAsked, Outside
<1>5. ASSUME NEW t \in Threads, Step(t) PROVE OffsetAsked'
  <2>1. \A u \in Threads \ {t} : view'[u] = view[u] /\ pc'[u] = pc[u] /\ call'[u] = call[u]
    BY <1>5, StepMoves
  <2> SUFFICES pc'[t] \notin Outside /\ call'[t].op = "read_from" =>
                 view'[t].file_offset = AsSize(call'[t].offset)
    BY <2>1 DEF OffsetAsked
  <2>2. /\ view \in [Threads -> [stage : {"free", "sized", "grown", "mapped"},
                                 file : Handles \cup {NoHandle},
                                 file_offset : Sizes, view_length : Sizes, file_size : Sizes]]
        /\ pc \in [Threads -> {"idle", "enter", "opening", "mapped", "copied", "flush", "done",
                               "settle", "told"}]
    BY SameArithmetic DEF IInv, TypeOK, Storage!TypeOK
  <2>3. CASE Begin(t)
    <3>1. /\ UNCHANGED call
          /\ call[t].op = "read_from" => view'[t].file_offset = Storage!AsSize(call[t].offset)
      BY <2>2, <2>3 DEF Begin, Storage!GetView, AtCursor
    <3> QED BY <3>1, SameArithmetic
  <2>4. ASSUME pc[t] \notin Outside, call'[t] = call[t],
               view'[t].file_offset = view[t].file_offset
        PROVE  call'[t].op = "read_from" => view'[t].file_offset = AsSize(call'[t].offset)
    BY <2>4 DEF OffsetAsked
  <2>5. CASE Resize(t) \/ Map(t)
    <3>1. pc[t] = "opening" /\ UNCHANGED call /\ view'[t].file_offset = view[t].file_offset
      BY <2>2, <2>5 DEF Resize, Map, Storage!Grow, Storage!KeepSize, Storage!Map
    <3> QED BY <2>4, <3>1 DEF Outside
  <2>6. CASE Copy(t) \/ Fault(t) \/ Advance(t) \/ Flush(t)
    <3>1. pc[t] \in Mapped /\ UNCHANGED <<call, view>>
      BY <2>6 DEF Copy, Fault, Advance, Flush, Mapped, storageVars
    <3> QED BY <2>4, <3>1 DEF Outside, Mapped
  <2>7. CASE Fail(t) \/ Return(t) \/ SeekStore(t) \/ SeekLoad(t)
    <3>1. pc'[t] \in Outside
      BY <2>2, <2>7 DEF Fail, Return, SeekStore, SeekLoad, Leave, Outside
    <3> QED BY <3>1
  <2>8. CASE Quit(t)
    BY <2>8, QuitIs
  <2> QED BY <1>5, <2>3, <2>5, <2>6, <2>7, <2>8 DEF Step, Quit
<1> QED BY <1>2, <1>3, <1>4, <1>5 DEF Next

\* A view of length zero ends where the file does.
LEMMA EmptyGrowsNothing ==
  ASSUME IInv, NEW t \in Threads, Storage!Growing(t)
  PROVE  pc[t] \notin Outside /\ view[t].view_length # 0
<1>1. pc[t] \notin Outside
  BY DEF Storage!Growing, IInv, InOrder, Storage!FreeView
<1>2. view[t].file_offset \in Sizes /\ view[t].file_size \in Sizes
  BY SameArithmetic DEF IInv, TypeOK, Storage!TypeOK
<1>3. Storage!MappingEnd(t) > view[t].file_size
  BY DEF Storage!Growing, Storage!MustGrow
<1>4. ASSUME view[t].view_length = 0 PROVE Storage!MappingEnd(t) = view[t].file_size
  <2>1. Storage!MappingEnd(t)
          = Plus(view[t].file_offset, Minus(view[t].file_size, view[t].file_offset))
    BY <1>4, ViewNumbersAre DEF mapping_end, mapping_size
  <2> QED BY <1>2, <2>1, HalfWordAssumption DEF Plus, Minus, Sizes, Word
<1>5. view[t].file_size \in Nat
  BY <1>2, SizeFacts
<1> QED BY <1>1, <1>3, <1>4, <1>5

\* ... and on one handle the mutex leaves one transfer at a time that may
\* truncate the file, or several calls of read_from.
LEMMA OneHandleAgrees ==
  ASSUME \A g, h \in Handles : g = h, ReadersAgree
  PROVE  Spec => []Storage!GrowthAgreed
<1>1. ASSUME IInv, OffsetAsked, NEW t \in Threads, NEW u \in Threads,
             Storage!Growing(t), Storage!Growing(u)
      PROVE  Storage!MappingEnd(t) = Storage!MappingEnd(u)
  <2>1. /\ pc[t] \notin Outside /\ view[t].view_length # 0
        /\ pc[u] \notin Outside /\ view[u].view_length # 0
    BY <1>1, EmptyGrowsNothing
  <2>2. HandleOf(t) = HandleOf(u)
    BY <1>1, <2>1, InTransfer
  <2>3. CASE call[t].op \in Exclusive \/ call[u].op \in Exclusive
    <3>1. t = u
      BY <1>1, <2>1, <2>2, <2>3, Exclusion DEF ExclusiveAlone
    <3> QED BY <3>1
  <2>4. CASE call[t].op = "read_from" /\ call[u].op = "read_from"
    <3>1. /\ view[t].file_offset = AsSize(call[t].offset)
          /\ view[u].file_offset = AsSize(call[u].offset)
      BY <1>1, <2>1, <2>4 DEF OffsetAsked
    <3>2. /\ view[t].view_length = call[t].requested /\ call[t] \in Calls
          /\ view[u].view_length = call[u].requested /\ call[u] \in Calls
      BY <1>1, <2>1, InTransfer DEF IInv, InOrder
    <3>3. Plus(AsSize(call[t].offset), call[t].requested)
            = Plus(AsSize(call[u].offset), call[u].requested)
      BY <2>1, <2>4, <3>2 DEF ReadersAgree
    <3> QED BY <2>1, <3>1, <3>2, <3>3, ViewNumbersAre DEF mapping_end, mapping_size
  <2> QED BY <1>1, <2>1, <2>3, <2>4, InTransfer DEF Transfers
<1>2. IInv /\ OffsetAsked => Storage!GrowthAgreed
  BY <1>1 DEF Storage!GrowthAgreed
<1>3. Init => OffsetAsked
  BY DEF Init, OffsetAsked, Outside
<1> QED BY <1>2, <1>3, OffsetAskedStep, Inductive, PTL DEF Spec

\* No transfer through a writable handle faults: in a single thread, and on
\* one handle that threads share, if the calls of read_from, which hold the
\* mutex shared although a view may grow the file, agree on how far.
THEOREM WritesNeverFault ==
  ASSUME \/ \A t, u \in Threads : t = u
         \/ (\A g, h \in Handles : g = h) /\ ReadersAgree
  PROVE  Spec => []WritableHandlesNeverFault
<1>1. Spec => []Storage!GrowthAgreed
  BY OneThreadAgrees, OneHandleAgrees
<1> QED BY <1>1, AgreedHandlesNeverFault, PTL

-----------------------------------------------------------------------------
(* The cursor                                                                *)

\* No transfer shortens the file.
LEMMA SizeGrows ==
  ASSUME IInv, Backing, NEW t \in Threads, Step(t), path \in Inodes
  PROVE  size[path] <= size'[path]
<1>1. size \in [Inodes -> 0 .. MaxFileSize] /\ size[path] \in Nat
  BY SizeFacts DEF IInv, TypeOK, Storage!TypeOK
<1>2. CASE UNCHANGED size
  BY <1>1, <1>2
<1>3. CASE Resize(t) /\ Storage!Grow(t)
  <2>1. /\ pc[t] \notin Outside /\ view[t].stage = "sized" /\ Storage!MustGrow(t)
        /\ size' = [size EXCEPT ![path] = Storage!MappingEnd(t)]
    BY <1>3, InTransfer DEF Resize, Storage!Grow, Outside
  <2>2. Storage!Growing(t) /\ Storage!CanWrite(Access(t))
    BY <2>1, GrowingIs
  <2>3. size[path] <= Storage!MappingEnd(t)
    BY <2>1, <2>2 DEF Backing
  <2> QED BY <1>1, <2>1, <2>3
<1> QED
  BY <1>2, <1>3
     DEF Step, Begin, Resize, Map, Fail, Copy, Fault, Advance, Flush, Return, SeekLoad, SeekStore,
         SeekReturn, Throw, Storage!GetView, Storage!KeepSize, Storage!Map, Storage!GrowFails, Storage!MapFails,
         Storage!Destroy, storageVars

\* What a read or write leaves in the cursor: the end of what it moved.
LEMMA AdvanceInside ==
  ASSUME IInv, Backing, NEW t \in Threads, pc[t] = "copied", FollowsCursor(t),
         call[t].op \in AtCursor, Storage!CanWrite(Access(t)),
         cursor[HandleOf(t)] <= size[path]
  PROVE  Plus(seen[t], Count(t)) <= size[path]
<1>1. pc[t] \notin Outside /\ pc[t] \in Mapped /\ TypeOK /\ InOrder(t) /\ call[t] \in Calls
  BY InTransfer DEF Outside, Mapped, IInv
<1>2. /\ Count(t) = view[t].view_length /\ view[t].view_length \in Nat
      /\ view[t].file_offset \in Nat
  BY <1>1, CountIsRequest
<1>3. seen[t] = view[t].file_offset /\ seen[t] = cursor[HandleOf(t)]
  BY DEF FollowsCursor
<1>4. size[path] \in Nat /\ size[path] < Word
  BY <1>1, InTransfer, SizeFacts
<1>5. seen[t] + Count(t) <= size[path]
  <2>1. CASE view[t].view_length = 0
    BY <1>2, <1>3, <1>4, <2>1
  <2>2. CASE view[t].view_length # 0
    <3>1. view[t].file_offset + Count(t) <= size[path]
      BY <1>1, <2>2, RangeBacked
    <3> QED BY <1>3, <3>1
  <2> QED BY <2>1, <2>2
<1>6. seen[t] + Count(t) < Word
  BY <1>2, <1>3, <1>4, <1>5, SizeFacts
<1> QED BY <1>5, <1>6 DEF Plus

LEMMA CursorStep ==
  ASSUME IInv, IInv', Backing, SeeksApart, SeeksApart', CursorFollows, [Next]_vars
  PROVE  CursorFollows'
<1>1. /\ \A t \in Threads : FollowsCursor(t) /\ TargetInside(t)
      /\ \A h \in Handles : CursorInside(h)
  BY DEF CursorFollows
<1>2. ASSUME \A t \in Threads : FollowsCursor(t)' /\ TargetInside(t)',
             \A h \in Handles : CursorInside(h)'
      PROVE  CursorFollows'
  BY <1>2 DEF CursorFollows
<1>3. /\ pc \in [Threads -> {"idle", "enter", "opening", "mapped", "copied", "flush", "done",
                             "settle", "told"}]
      /\ cursor \in [Handles -> Sizes] /\ seen \in [Threads -> Int]
      /\ size \in [Inodes -> 0 .. MaxFileSize] /\ size' \in [Inodes -> 0 .. MaxFileSize]
      /\ view \in [Threads -> [stage : {"free", "sized", "grown", "mapped"},
                               file : Handles \cup {NoHandle},
                               file_offset : Sizes, view_length : Sizes, file_size : Sizes]]
  BY SameArithmetic DEF IInv, TypeOK, Storage!TypeOK
<1>4. /\ \A h \in Handles : file[h].owned => path \in Inodes
      /\ \A h \in Handles : file'[h].owned => path' \in Inodes
      /\ \A t \in Threads : pc[t] # "idle" => HandleOf(t) \in Handles /\ path \in Inodes
  <2>1. \A t \in Threads : pc[t] # "idle" => HandleOf(t) \in Handles /\ file[HandleOf(t)].owned
    BY CallTypes DEF IInv, InOrder, HandleOf
  <2> QED BY <2>1 DEF IInv, OneInode
<1>5. CASE UNCHANGED vars
  BY <1>1, <1>2, <1>5
     DEF vars, storageVars, FollowsCursor, TargetInside, CursorInside, HandleOf
<1>6. ASSUME NEW h \in Handles, Open(h) PROVE CursorFollows'
  <2>1. /\ UNCHANGED <<view, pc, call, seen>>
        /\ path # NoInode => UNCHANGED <<path, size>>
        /\ \A t \in Threads : pc[t] # "idle" => h # HandleOf(t)
        /\ \A g \in Handles \ {h} : file'[g] = file[g] /\ cursor'[g] = cursor[g]
        /\ file'[h].owned => cursor'[h] = 0
    BY <1>6, OpenInv
  <2>2. ASSUME NEW t \in Threads PROVE FollowsCursor(t)' /\ TargetInside(t)'
    <3>1. CASE pc[t] = "idle"
      BY <2>1, <3>1 DEF FollowsCursor, TargetInside
    <3>2. CASE pc[t] # "idle"
      <4>1. /\ HandleOf(t) \in Handles \ {h} /\ UNCHANGED <<path, size>>
            /\ HandleOf(t)' = HandleOf(t) /\ cursor'[HandleOf(t)] = cursor[HandleOf(t)]
        BY <1>4, <2>1, <3>2, SentinelAssumption DEF HandleOf
      <4> QED BY <1>1, <2>1, <4>1 DEF FollowsCursor, TargetInside
    <3> QED BY <3>1, <3>2
  <2>3. ASSUME NEW g \in Handles PROVE CursorInside(g)'
    <3>1. CASE g = h
      BY <1>3, <1>4, <2>1, <3>1 DEF CursorInside
    <3>2. CASE g # h
      <4>1. /\ file'[g] = file[g] /\ cursor'[g] = cursor[g]
            /\ file[g].owned => UNCHANGED <<path, size>>
        BY <1>4, <2>1, <3>2, SentinelAssumption
      <4>2. \A t \in Threads : HandleOf(t)' = HandleOf(t) /\ pc'[t] = pc[t]
        BY <2>1 DEF HandleOf
      <4> QED BY <1>1, <4>1, <4>2 DEF CursorInside, Storage!CanWrite
    <3> QED BY <3>1, <3>2
  <2> QED BY <1>2, <2>2, <2>3
<1>7. ASSUME NEW t \in Threads, Invoke(t) PROVE CursorFollows'
  <2>1. /\ UNCHANGED <<path, size, file, view, cursor, seen>> /\ pc[t] = "idle" /\ pc'[t] = "enter"
        /\ \A u \in Threads \ {t} : pc'[u] = pc[u] /\ call'[u] = call[u]
    BY <1>7, InvokeInv DEF storageVars
  <2>2. ASSUME NEW u \in Threads PROVE FollowsCursor(u)' /\ TargetInside(u)'
    <3>1. CASE u = t
      BY <2>1, <3>1 DEF FollowsCursor, TargetInside
    <3>2. CASE u # t
      BY <1>1, <2>1, <3>2 DEF FollowsCursor, TargetInside, HandleOf
    <3> QED BY <3>1, <3>2
  <2>3. ASSUME NEW g \in Handles PROVE CursorInside(g)'
    <3>1. \A u \in Threads : pc[u] = "settle" => pc'[u] = "settle" /\ HandleOf(u)' = HandleOf(u)
      BY <2>1 DEF HandleOf
    <3> QED BY <1>1, <2>1, <3>1 DEF CursorInside, Storage!CanWrite
  <2> QED BY <1>2, <2>2, <2>3
<1>8. ASSUME NEW t \in Threads, Step(t) PROVE CursorFollows'
  <2>1. /\ UNCHANGED <<path, file>>
        /\ \A u \in Threads \ {t} :
             /\ view'[u] = view[u] /\ pc'[u] = pc[u] /\ call'[u] = call[u] /\ seen'[u] = seen[u]
             /\ HandleOf(u)' = HandleOf(u)
    BY <1>8, StepMoves DEF HandleOf
  <2>2. pc[t] # "idle" /\ HandleOf(t) \in Handles /\ path \in Inodes
    <3>1. pc[t] # "idle"
      BY <1>8 DEF Step, Begin, Resize, Map, Fail, Copy, Fault, Advance, Flush, Return, SeekLoad,
                  SeekStore, SeekReturn, Throw
    <3> QED BY <1>4, <3>1
  <2>0. PICK h \in Handles : h = HandleOf(t)
    BY <2>2
  <2>3. size[path] <= size'[path] /\ size[path] \in Nat /\ size'[path] \in Nat
    BY <1>3, <1>8, <2>2, SizeGrows, SizeFacts
  <2>4. \A g \in Handles : cursor[g] \in Nat
    BY <1>3, SizeFacts
  \* The other threads, when nothing at the cursor of this handle is under
  \* way but this call.
  <2>5. ASSUME NEW u \in Threads \ {t},
               cursor'[HandleOf(u)] = cursor[HandleOf(u)] \/ pc[u] \in Outside
        PROVE  FollowsCursor(u)' /\ TargetInside(u)'
    <3>1. FollowsCursor(u) /\ TargetInside(u)
      BY <1>1
    <3>2. FollowsCursor(u)'
      BY <2>1, <2>5, <3>1 DEF FollowsCursor, Outside
    <3>3. TargetInside(u)'
      BY <2>1, <2>3, <3>1 DEF TargetInside
    <3> QED BY <3>2, <3>3
  \* The other handles.
  <2>6. ASSUME NEW g \in Handles, cursor'[g] = cursor[g],
               pc[t] = "settle" => (pc'[t] = "settle" /\ call'[t] = call[t]) \/ g # h
        PROVE  CursorInside(g)'
    <3>1. ASSUME \A u \in Threads : pc'[u] = "settle" => HandleOf(u)' # g
          PROVE  \A u \in Threads : pc[u] = "settle" => HandleOf(u) # g
      <4>1. ASSUME NEW u \in Threads, pc[u] = "settle", HandleOf(u) = g PROVE FALSE
        <5>1. CASE u = t
          BY <2>0, <2>6, <3>1, <4>1, <5>1 DEF HandleOf
        <5>2. CASE u # t
          BY <2>1, <3>1, <4>1, <5>2
        <5> QED BY <5>1, <5>2
      <4> QED BY <4>1
    <3>2. CursorInside(g)
      BY <1>1
    <3>3. ASSUME cursor[g] <= size[path] PROVE cursor'[g] <= size'[path']
      BY <2>1, <2>3, <2>4, <2>6, <3>3
    <3> QED BY <2>1, <3>1, <3>2, <3>3 DEF CursorInside, Storage!CanWrite
  \* The steps that leave every cursor alone.
  <2>7. ASSUME UNCHANGED cursor, FollowsCursor(t)', pc[t] # "settle", pc'[t] # "settle"
        PROVE  CursorFollows'
    <3>1. ASSUME NEW u \in Threads PROVE FollowsCursor(u)' /\ TargetInside(u)'
      BY <2>5, <2>7, <3>1 DEF TargetInside
    <3>2. ASSUME NEW g \in Handles PROVE CursorInside(g)'
      BY <2>6, <2>7, <3>2
    <3> QED BY <1>2, <3>1, <3>2
  <2>8. CASE Begin(t)
    <3>1. /\ UNCHANGED <<cursor, call>> /\ pc[t] = "enter" /\ pc'[t] = "opening"
          /\ view'[t].file_offset
               = AsSize(IF call[t].op \in AtCursor THEN AsOffset(cursor[h]) ELSE call[t].offset)
      BY <2>0, <1>3, <2>8, SameArithmetic DEF Begin, Storage!GetView
    <3>2. AsSize(AsOffset(cursor[h])) = cursor[h]
      BY <1>3, <2>2, Conversions
    <3>3. HandleOf(t)' = h
      BY <2>0, <3>1 DEF HandleOf
    <3>4. FollowsCursor(t)'
      BY <3>1, <3>2, <3>3 DEF FollowsCursor
    <3> QED BY <2>7, <3>1, <3>4
  <2>9. CASE Resize(t) \/ Map(t)
    <3>1. /\ UNCHANGED <<cursor, call>> /\ pc[t] = "opening" /\ pc'[t] \in {"opening", "mapped"}
          /\ view'[t].file_offset = view[t].file_offset
      BY <1>3, <2>9 DEF Resize, Map, Storage!Grow, Storage!KeepSize, Storage!Map
    <3>2. FollowsCursor(t)'
      BY <1>1, <3>1 DEF FollowsCursor, HandleOf
    <3> QED BY <2>7, <3>1, <3>2
  <2>10. CASE Fail(t) \/ Return(t) \/ Flush(t) \/ Fault(t)
    <3>1. /\ UNCHANGED cursor /\ pc[t] \in {"opening", "flush", "done", "mapped"}
          /\ \/ pc'[t] \in {"idle", "done"}
             \/ UNCHANGED <<pc, call, view, seen>>
      BY <1>3, <2>10 DEF Fail, Return, Flush, Fault, Leave, storageVars
    <3>2. FollowsCursor(t)'
      BY <1>1, <3>1 DEF FollowsCursor, HandleOf
    <3> QED BY <2>7, <3>1, <3>2
  <2>11. CASE Copy(t)
    <3>1. /\ UNCHANGED <<cursor, call, view>> /\ pc[t] = "mapped" /\ pc'[t] = "copied"
          /\ seen'[t] = cursor[HandleOf(t)]
      BY <1>3, <2>11 DEF Copy, storageVars
    <3>2. FollowsCursor(t)'
      BY <1>1, <3>1 DEF FollowsCursor, HandleOf
    <3> QED BY <2>7, <3>1, <3>2
  <2>12. CASE Advance(t) /\ call[t].op \notin AtCursor
    <3>1. /\ UNCHANGED cursor /\ pc[t] = "copied" /\ pc'[t] \in {"flush", "done"}
      BY <1>3, <2>12 DEF Advance
    <3>2. FollowsCursor(t)'
      BY <3>1 DEF FollowsCursor
    <3> QED BY <2>7, <3>1, <3>2
  <2>13. CASE Advance(t) /\ call[t].op \in AtCursor
    <3>1. /\ pc[t] = "copied" /\ pc'[t] \in {"flush", "done"} /\ pc[t] \notin Outside
          /\ cursor' = [cursor EXCEPT ![h] = Plus(seen[t], Count(t))] /\ call' = call
          /\ UNCHANGED size
      BY <2>0, <1>3, <2>13 DEF Advance, Outside, storageVars
    <3>2. \A g \in Handles \ {h} : cursor'[g] = cursor[g]
      BY <1>3, <3>1
    <3>3. ASSUME NEW u \in Threads \ {t} PROVE FollowsCursor(u)' /\ TargetInside(u)'
      <4>1. pc[u] \notin Outside => HandleOf(u) \in Handles \ {h}
        BY <2>0, <1>4, <2>13, <3>1, Exclusion DEF ExclusiveAlone, AtCursor, Exclusive, Outside
      <4> QED BY <2>5, <3>2, <3>3, <4>1
    <3>4. FollowsCursor(t)' /\ TargetInside(t)'
      BY <3>1 DEF FollowsCursor, TargetInside
    <3>5. CursorInside(h)'
      <4> SUFFICES ASSUME Storage!CanWrite(file[h].access), file[h].owned,
                          \A u \in Threads : pc'[u] = "settle" => HandleOf(u)' # h
                   PROVE  cursor'[h] <= size'[path']
        BY <2>1 DEF CursorInside, Storage!CanWrite
      <4>1. \A u \in Threads : pc[u] = "settle" => HandleOf(u) # h
        BY <2>1, <3>1
      <4>2. cursor[h] <= size[path]
        BY <1>1, <2>2, <4>1 DEF CursorInside
      <4>3. Plus(seen[t], Count(t)) <= size[path]
        BY <2>0, <1>1, <2>13, <3>1, <4>2, AdvanceInside DEF Access
      <4>4. cursor'[h] = Plus(seen[t], Count(t))
        BY <1>3, <2>2, <3>1
      <4> QED BY <2>1, <3>1, <4>3, <4>4
    <3>6. \A g \in Handles \ {h} : CursorInside(g)'
      BY <2>6, <3>1, <3>2
    <3> QED BY <1>2, <3>3, <3>4, <3>5, <3>6
  <2>14. CASE SeekLoad(t)
    <3> DEFINE target == seek_target(size[path], AsOffset(cursor[h]), call[t].offset,
                                     call[t].whence)
    <3>1. /\ pc[t] = "enter" /\ call[t].op = "seek" /\ pc'[t] = "settle" /\ UNCHANGED <<call, size>>
          /\ seen'[t] = target
          /\ \A g \in Handles \ {h} : cursor'[g] = cursor[g]
      BY <2>0, <1>3, <2>14 DEF SeekLoad, storageVars
    <3>2. target \in 0 .. size[path]
      BY <2>0, <3>1, SeekTarget
    <3> HIDE DEF target
    <3>3. HandleOf(t)' = h
      BY <2>0, <3>1 DEF HandleOf
    <3>4. ASSUME NEW u \in Threads \ {t} PROVE FollowsCursor(u)' /\ TargetInside(u)'
      <4>1. pc[u] \notin Outside => HandleOf(u) \in Handles \ {h}
        <5>1. pc'[u] \notin Outside => HandleOf(t)' # HandleOf(u)'
          BY <3>1 DEF SeeksApart
        <5> QED BY <1>4, <2>1, <3>3, <5>1 DEF Outside
      <4> QED BY <2>5, <3>1, <3>4, <4>1
    <3>5. FollowsCursor(t)' /\ TargetInside(t)'
      BY <2>1, <3>1, <3>2 DEF FollowsCursor, TargetInside
    <3>6. CursorInside(h)'
      BY <3>1, <3>3 DEF CursorInside
    <3>7. \A g \in Handles \ {h} : CursorInside(g)'
      BY <2>6, <3>1
    <3> QED BY <1>2, <3>4, <3>5, <3>6, <3>7
  <2>15. CASE SeekStore(t)
    <3>1. /\ pc[t] = "settle" /\ pc'[t] = "told" /\ UNCHANGED size
          /\ cursor' = [cursor EXCEPT ![h] = AsSize(seen[t])]
      BY <2>0, <1>3, <2>15 DEF SeekStore, storageVars
    <3>2. \A g \in Handles \ {h} : cursor'[g] = cursor[g]
      BY <1>3, <3>1
    <3>3. ASSUME NEW u \in Threads \ {t} PROVE FollowsCursor(u)' /\ TargetInside(u)'
      <4>1. pc[u] \notin Outside => HandleOf(u) \in Handles \ {h}
        BY <2>0, <1>4, <3>1 DEF SeeksApart, Outside
      <4> QED BY <2>5, <3>2, <3>3, <4>1
    <3>4. FollowsCursor(t)' /\ TargetInside(t)'
      BY <3>1 DEF FollowsCursor, TargetInside
    <3>5. CursorInside(h)'
      <4>1. seen[t] \in 0 .. size[path]
        BY <1>1, <3>1 DEF TargetInside
      <4>2. cursor'[h] = seen[t]
        BY <1>3, <2>2, <2>3, <3>1, <4>1 DEF AsSize
      <4> QED BY <2>1, <2>3, <3>1, <4>1, <4>2 DEF CursorInside
    <3>6. \A g \in Handles \ {h} : CursorInside(g)'
      BY <2>6, <3>1, <3>2
    <3> QED BY <1>2, <3>3, <3>4, <3>5, <3>6
  <2>16. CASE Quit(t)
    <3>1. UNCHANGED cursor /\ pc[t] \in {"enter", "told"} /\ pc'[t] = "idle"
      BY <2>16, QuitIs
    <3>2. FollowsCursor(t)'
      BY <3>1 DEF FollowsCursor
    <3> QED BY <2>7, <3>1, <3>2
  <2> QED
    BY <1>8, <2>8, <2>9, <2>10, <2>11, <2>12, <2>13, <2>14, <2>15, <2>16 DEF Step, Quit
<1> QED BY <1>5, <1>6, <1>7, <1>8 DEF Next

\* When callers keep seeks apart from transfers on the same handle, and
\* transfers that truncate the file agree on its size, reads and writes work
\* on the bytes behind the cursor and the cursor of a writable handle never
\* leaves the file.
THEOREM CursorStaysInFile ==
  Spec /\ []Storage!GrowthAgreed /\ []SeeksApart => [](CursorFollows /\ CursorInFile)
<1>1. Init => CursorFollows
  <2> SUFFICES ASSUME Init PROVE CursorFollows
    OBVIOUS
  <2>1. \A h \in Handles : ~ file[h].owned
    BY DEF Init, Storage!Init, Storage!ClosedFile
  <2>2. \A t \in Threads : pc[t] = "idle"
    BY DEF Init
  <2> QED BY <2>1, <2>2 DEF CursorFollows, FollowsCursor, TargetInside, CursorInside
<1>2. /\ IInv /\ IInv' /\ Backing /\ SeeksApart /\ SeeksApart' /\ CursorFollows /\ [Next]_vars
      => CursorFollows'
  BY CursorStep
<1>3. IInv /\ CursorFollows => CursorInFile
  <2> SUFFICES ASSUME IInv, CursorFollows, NEW h \in Handles,
                      file[h].owned, Storage!CanWrite(file[h].access),
                      \A t \in Threads : pc[t] # "settle"
               PROVE  cursor[h] <= size[InodeOf(h)]
    BY DEF CursorInFile
  <2>1. InodeOf(h) = path
    BY DEF IInv, OneInode, InodeOf
  <2> QED BY <2>1 DEF CursorFollows, CursorInside
<1> QED BY <1>1, <1>2, <1>3, Inductive, BackingAlways, PTL DEF Spec

\* Both are so in a single thread, and on one handle that threads share without
\* seek, if the calls of read_from agree on how far the file reaches.
THEOREM CursorNeverLeavesFile ==
  ASSUME \/ \A t, u \in Threads : t = u
         \/ (\A g, h \in Handles : g = h) /\ ReadersAgree /\ (\A c \in Calls : c.op # "seek")
  PROVE  Spec => []CursorInFile
<1>1. Spec => []Storage!GrowthAgreed
  BY OneThreadAgrees, OneHandleAgrees
<1>2. IInv => SeeksApart
  BY DEF IInv, InOrder, SeeksApart, Outside
<1> QED BY <1>1, <1>2, Inductive, CursorStaysInFile, PTL

-----------------------------------------------------------------------------
(* The calls keep to what storage::File offers: with the steps of MappedFile *)
(* and the order they may be taken in, so what holds there holds here.       *)

\* A handle is open exactly while its caller owns it, and every view is made
\* from an open one: closing a platform file never takes the file from under
\* a call.
THEOREM HandlesOutliveCalls == Spec => []Storage!HandleLifetime
<1>1. ASSUME IInv PROVE Storage!HandleLifetime
  <2>1. ASSUME NEW t \in Threads
        PROVE  IF pc[t] \in Outside THEN view[t] = Storage!FreeView
               ELSE view[t].file \in Handles /\ file[view[t].file].owned
    BY <1>1, InTransfer DEF IInv, InOrder
  <2>2. ASSUME NEW h \in Handles PROVE file[h].inode # NoInode <=> file[h].owned
    BY <1>1, SentinelAssumption DEF IInv, OneInode, Storage!ClosedFile
  <2> QED
    BY <2>1, <2>2, SentinelAssumption DEF Storage!HandleLifetime, Storage!IsOpen, Storage!FreeView
<1> QED BY <1>1, Inductive, PTL

\* A call that asks for no bytes maps the rest of the file and does not unmap
\* it, see ZeroLengthIsNotReleased.
NoEmptyCalls == \A c \in Calls : c.op # "seek" => c.requested # 0

\* The pages of a thread's view: those mmap was asked for while it is mapped.
PagesAre(t) ==
  pages[t] = IF view[t].stage = "mapped" THEN PagesOf(Storage!MapLength(t)) ELSE 0

Mappings == \A t \in Threads : PagesAre(t)

\* The region ~View and flush work out is the one that was mapped.
LEMMA SameRegion ==
  ASSUME NoEmptyCalls, IInv, NEW t \in Threads, pc[t] \notin Outside
  PROVE  Storage!ReleaseLength(t) = Storage!MapLength(t)
<1>1. call[t] \in Calls /\ call[t].op # "seek" /\ view[t].view_length = call[t].requested
  BY InTransfer DEF IInv, InOrder, Transfers, Exclusive
<1>2. /\ view[t].view_length # 0 /\ view[t].view_length \in Sizes
      /\ view[t].file_offset \in Sizes /\ view[t].file_size \in Sizes
  BY <1>1, SameArithmetic DEF NoEmptyCalls, IInv, TypeOK, Storage!TypeOK
<1> QED BY <1>2, ReleaseMatchesMap, ViewNumbersAre

LEMMA MappingsStep == NoEmptyCalls /\ IInv /\ Mappings /\ [Next]_vars => Mappings'
<1> SUFFICES ASSUME NoEmptyCalls, IInv, Mappings, [Next]_vars PROVE Mappings'
  OBVIOUS
<1>1. /\ view \in [Threads -> [stage : {"free", "sized", "grown", "mapped"},
                               file : Handles \cup {NoHandle},
                               file_offset : Sizes, view_length : Sizes, file_size : Sizes]]
      /\ pages \in [Threads -> Nat]
  BY SameArithmetic DEF IInv, TypeOK, Storage!TypeOK
<1>2. ASSUME NEW t \in Threads, PagesAre(t),
             view'[t] = view[t], pages'[t] = pages[t]
      PROVE  PagesAre(t)'
  BY <1>2 DEF PagesAre, Storage!MapLength
<1>3. CASE UNCHANGED <<view, pages>>
  BY <1>2, <1>3 DEF Mappings
<1>4. ASSUME NEW t \in Threads, Step(t) PROVE Mappings'
  <2>1. PagesAre(t)
    BY DEF Mappings
  <2>2. ASSUME pages' = [pages EXCEPT ![t] = pages'[t]], PagesAre(t)' PROVE Mappings'
    <3>1. ASSUME NEW u \in Threads \ {t} PROVE PagesAre(u)'
      <4>1. view'[u] = view[u] /\ pages'[u] = pages[u]
        BY <1>1, <1>4, <2>2, StepMoves
      <4> QED BY <1>2, <4>1 DEF Mappings
    <3> QED BY <2>2, <3>1 DEF Mappings
  <2>3. ASSUME view'[t].stage # "mapped", pages'[t] = 0,
               UNCHANGED pages \/ pages' = [pages EXCEPT ![t] = 0]
        PROVE  Mappings'
    BY <1>1, <2>2, <2>3 DEF PagesAre
  <2>4. CASE Begin(t) \/ Resize(t)
    <3>1. /\ view[t].stage # "mapped" /\ UNCHANGED pages /\ view'[t].stage # "mapped"
      BY <1>1, <2>4 DEF Begin, Resize, Storage!GetView, Storage!Grow, Storage!KeepSize
    <3> QED BY <2>1, <2>3, <3>1 DEF PagesAre
  <2>5. CASE Fail(t)
    <3>1. /\ pc[t] \notin Outside /\ view[t].stage # "mapped" /\ Storage!Release(t)
          /\ UNCHANGED pages
      BY <2>5 DEF Fail, Storage!GrowFails, Storage!MapFails, Outside
    <3>2. view'[t] = Storage!FreeView
      BY <1>1, <3>1, ReleaseMoves
    <3> QED BY <2>1, <2>3, <3>1, <3>2 DEF PagesAre, Storage!FreeView
  <2>6. CASE Map(t)
    <3>1. /\ view' = [view EXCEPT ![t].stage = "mapped"]
          /\ pages' = [pages EXCEPT ![t] = PagesOf(Storage!MapLength(t))]
      BY <2>6, SameArithmetic DEF Map, Storage!Map
    <3>2. /\ view'[t].stage = "mapped" /\ pages'[t] = PagesOf(Storage!MapLength(t))
          /\ Storage!MapLength(t)' = Storage!MapLength(t)
      BY <1>1, <3>1 DEF Storage!MapLength
    <3> QED BY <1>1, <2>2, <3>1, <3>2 DEF PagesAre
  <2>7. CASE Return(t)
    <3>1. pc[t] \notin Outside /\ Storage!Destroy(t) /\ view[t].stage = "mapped"
      BY <2>7 DEF Return, Outside, Storage!Destroy
    <3> DEFINE released == PagesOf(Storage!ReleaseLength(t))
    <3>2. released = pages[t] /\ released \in Nat
      BY <2>1, <3>1, SameRegion, ViewNumbers DEF PagesAre, IInv
    <3>3. /\ Storage!Release(t)
          /\ pages' = [pages EXCEPT ![t] = IF released >= pages[t] THEN 0
                                           ELSE pages[t] - released]
      <4>1. Storage!PagesOf(Storage!ReleaseLength(t)) = released
        BY SameArithmetic
      <4> HIDE DEF released
      <4> QED BY <3>1, <4>1 DEF Storage!Destroy
    <3> HIDE DEF released
    <3>4. pages' = [pages EXCEPT ![t] = 0]
      <4>1. (IF released >= pages[t] THEN 0 ELSE pages[t] - released) = 0
        BY <3>2
      <4> QED BY <3>3, <4>1
    <3>5. view'[t] = Storage!FreeView
      BY <1>1, <3>1, <3>3, ReleaseMoves
    <3> QED BY <1>1, <2>3, <3>4, <3>5 DEF Storage!FreeView
  <2>8. CASE Copy(t) \/ Fault(t) \/ Advance(t) \/ Flush(t) \/ SeekLoad(t) \/ SeekStore(t) \/ Quit(t)
    <3>1. UNCHANGED <<view, pages>>
      BY <2>8, QuitIs DEF Copy, Fault, Advance, Flush, SeekLoad, SeekStore, storageVars
    <3> QED BY <1>3, <3>1
  <2> QED BY <1>4, <2>4, <2>5, <2>6, <2>7, <2>8 DEF Step, Quit
<1>5. ASSUME NEW h \in Handles, Open(h) PROVE Mappings'
  BY <1>3, <1>5 DEF Open, Drop, Create, Storage!DropFile, Storage!Create
<1>6. ASSUME NEW t \in Threads, Invoke(t) PROVE Mappings'
  BY <1>3, <1>6 DEF Invoke, storageVars
<1>7. CASE UNCHANGED vars
  BY <1>3, <1>7 DEF vars, storageVars
<1> QED BY <1>4, <1>5, <1>6, <1>7 DEF Next

LEMMA MappingsAlways ==
  ASSUME NoEmptyCalls
  PROVE  Spec => []Mappings
<1>1. Init => Mappings
  BY DEF Init, Storage!Init, Storage!FreeView, Mappings, PagesAre
<1> QED BY <1>1, MappingsStep, Inductive, PTL DEF Spec

\* No call leaves a page mapped, whichever way it ends, and what it unmaps is
\* its own mapping.
THEOREM CallsTearDown ==
  ASSUME NoEmptyCalls
  PROVE  Spec => [](Storage!TeardownExact /\ Storage!NothingLeaks)
<1>1. ASSUME IInv, Mappings PROVE Storage!TeardownExact /\ Storage!NothingLeaks
  <2>1. ASSUME NEW t \in Threads, view[t].stage = "mapped"
        PROVE  PagesOf(Storage!ReleaseLength(t)) = pages[t]
    <3>1. pc[t] \notin Outside
      BY <1>1, <2>1 DEF IInv, InOrder, Storage!FreeView
    <3> QED BY <1>1, <2>1, <3>1, SameRegion DEF Mappings, PagesAre
  <2> QED
    BY <1>1, <2>1, SameArithmetic
    DEF Storage!TeardownExact, Storage!NothingLeaks, Mappings, PagesAre
<1> QED BY <1>1, MappingsAlways, Inductive, PTL

LEMMA SameCardinality == \A S : Storage!Cardinality(S) = Cardinality(S)
BY DEF Storage!Cardinality, Cardinality

\* A thread that begins to open a view leaves room for itself.
LEMMA BeginOpensView ==
  ASSUME IsFiniteSet(Threads), IInv, Mappings, NEW t \in Threads, Begin(t)
  PROVE  Storage!OpenView(HandleOf(t), t)
<1> DEFINE opening == {u \in Threads : Storage!IsOpening(u)}
           offset  == IF call[t].op \in AtCursor THEN AsOffset(cursor[HandleOf(t)])
                      ELSE call[t].offset
<1>1. /\ pc[t] = "enter" /\ call[t].op # "seek"
      /\ Storage!GetView(HandleOf(t), t, offset, call[t].requested)
  BY DEF Begin
<1>2. /\ call[t] \in Calls /\ HandleOf(t) \in Handles /\ view[t] = Storage!FreeView
      /\ cursor[HandleOf(t)] \in Sizes
  BY <1>1, CallTypes DEF IInv, TypeOK, InOrder, Outside, HandleOf
<1>3. Cardinality(opening) < Cardinality(Threads)
  <2>1. opening \in SUBSET Threads /\ t \notin opening
    BY <1>2 DEF Storage!IsOpening, Storage!FreeView
  <2>2. /\ Cardinality(opening) <= Cardinality(Threads)
        /\ Cardinality(opening) # Cardinality(Threads)
    BY <2>1, FS_Subset
  <2>3. Cardinality(opening) \in Nat /\ Cardinality(Threads) \in Nat
    BY <2>1, FS_Subset, FS_CardinalityType
  <2> QED BY <2>2, <2>3
<1>4. pages[t] = 0
  BY <1>2 DEF Mappings, PagesAre, Storage!FreeView
<1>5. offset \in Offsets
  BY <1>1, <1>2, CallTypes, Conversions
<1>6. call[t].requested \in {c.requested : c \in {d \in Calls : d.op # "seek"}}
  BY <1>1, <1>2
<1>7. \E o \in Offsets, l \in {c.requested : c \in {d \in Calls : d.op # "seek"}} :
        Storage!GetView(HandleOf(t), t, o, l)
  <2> HIDE DEF offset
  <2> QED BY <1>1, <1>5, <1>6
<1> QED BY <1>3, <1>4, <1>7, SameCardinality DEF Storage!OpenView, opening

LEMMA StorageStep ==
  NoEmptyCalls /\ IsFiniteSet(Threads) /\ IInv /\ Mappings /\ [Next]_vars
    => [Storage!Next]_(Storage!vars)
<1> SUFFICES ASSUME IsFiniteSet(Threads), IInv, Mappings, [Next]_vars
             PROVE  Storage!Next \/ UNCHANGED storageVars
  BY DEF Storage!vars, storageVars
<1>1. ASSUME NEW h \in Handles, Open(h) PROVE Storage!Next
  BY <1>1 DEF Open, Drop, Create, Storage!Next, Storage!FileStep
<1>2. ASSUME NEW t \in Threads, Step(t) PROVE Storage!Next \/ UNCHANGED storageVars
  <2>1. CASE Begin(t)
    <3>1. HandleOf(t) \in Handles
      BY <2>1, CallTypes DEF Begin, IInv, InOrder, HandleOf
    <3>2. Storage!OpenView(HandleOf(t), t)
      BY <2>1, BeginOpensView
    <3> QED BY <3>1, <3>2 DEF Storage!Next, Storage!ViewStep
  <2>2. ASSUME Storage!ViewStep(t) PROVE Storage!Next
    BY <2>2 DEF Storage!Next
  <2> QED
    BY <1>2, <2>1, <2>2
    DEF Step, Resize, Map, Fail, Copy, Fault, Advance, Flush, Return, SeekLoad, SeekStore,
        SeekReturn, Throw, Storage!ViewStep
<1> QED BY <1>1, <1>2 DEF Next, Invoke, vars

\* All that a platform file does to files and mappings, from whatever threads,
\* are steps callers of storage::File may take, in an order they may be taken
\* in: each call opens its view on a file that is open, in a slot that has
\* nothing mapped, and lets it go before the next one.
THEOREM CallsKeepToStorage ==
  ASSUME NoEmptyCalls, IsFiniteSet(Threads)
  PROVE  Spec => Storage!Spec
<1>1. Init => Storage!Init
  BY DEF Init
<1>2. IInv /\ Mappings /\ [Next]_vars => [Storage!Next]_(Storage!vars)
  BY StorageStep
<1> QED BY <1>1, <1>2, MappingsAlways, Inductive, PTL DEF Spec, Storage!Spec

\* As long as transfers that truncate the file at the same time agree on its
\* size, every view of a writable handle lies in the file and no call shortens
\* the file.
THEOREM AgreedCallsKeepFile ==
  Spec /\ []Storage!GrowthAgreed => []Storage!WritableViewsBacked /\ Storage!FilesOnlyGrow
<1>1. ASSUME IInv, Backing PROVE Storage!WritableViewsBacked
  <2> SUFFICES ASSUME NEW t \in Threads, view[t].stage = "mapped",
                      Storage!CanWrite(file[view[t].file].access)
               PROVE  view[t].file_offset .. view[t].file_offset + view[t].view_length - 1
                        \subseteq 0 .. size[path] - 1
    BY DEF Storage!WritableViewsBacked
  <2>1. pc[t] \in Mapped /\ pc[t] \notin Outside
    BY <1>1 DEF IInv, TypeOK, InOrder, Storage!FreeView, Outside, Mapped
  <2>2. Storage!CanWrite(Access(t)) /\ call[t] \in Calls
    BY <1>1, <2>1, InTransfer DEF Access
  <2> QED BY <1>1, <2>1, <2>2, RangeBacked, CountIsRequest DEF IInv
<1>2. ASSUME IInv, Backing, [Next]_vars
      PROVE  \A v \in Threads, i \in Inodes :
               view'[v] # view[v] /\ path = i => size'[i] >= size[i]
  <2> SUFFICES ASSUME NEW t \in Threads, NEW i \in Inodes, view'[t] # view[t], path = i
               PROVE  size'[i] >= size[i]
    OBVIOUS
  <2>1. ASSUME NEW u \in Threads, Step(u) PROVE size'[i] >= size[i]
    <3>1. size' \in [Inodes -> 0 .. MaxFileSize] /\ size \in [Inodes -> 0 .. MaxFileSize]
      BY <1>2, NextInv DEF IInv, TypeOK, Storage!TypeOK
    <3>2. size[i] <= size'[i]
      BY <1>2, <2>1, SizeGrows
    <3> QED BY <3>1, <3>2, SizeFacts
  <2>2. ~ (\E h \in Handles : Open(h)) /\ ~ (\E u \in Threads : Invoke(u)) /\ ~ UNCHANGED vars
    BY <1>2, OpenInv DEF Invoke, vars, storageVars
  <2> QED BY <1>2, <2>1, <2>2 DEF Next
<1> QED
  BY <1>1, <1>2, Inductive, BackingAlways, PTL DEF Spec, Storage!FilesOnlyGrow

\* So it is in a single thread, and on one handle that threads share, if the
\* calls of read_from agree on how far the file reaches.
THEOREM CallsKeepFile ==
  ASSUME \/ \A t, u \in Threads : t = u
         \/ (\A g, h \in Handles : g = h) /\ ReadersAgree
  PROVE  Spec => []Storage!WritableViewsBacked /\ Storage!FilesOnlyGrow
<1>1. Spec => []Storage!GrowthAgreed
  BY OneThreadAgrees, OneHandleAgrees
<1> QED BY <1>1, AgreedCallsKeepFile, PTL

-----------------------------------------------------------------------------
(* Every transfer is atomic                                                  *)

\* From its first store until it returns, a seek is alone on its handle.
SeeksAlone ==
  \A t, u \in Threads :
    pc[t] \in {"settle", "told"} /\ pc[u] \notin {"idle", "enter"} /\ t # u =>
      HandleOf(t) # HandleOf(u)

AllWritable == \A access \in AccessModes : Storage!CanWrite(access)

\* Behind its end a file is blank; every handle can write; there is a reply
\* for every thread.
Blank ==
  /\ \A i \in Inodes :
       /\ i # path => size[i] = 0
       /\ \A p \in Positions : p >= size[i] => data[i][p] = 0
  /\ \A h \in Handles : file[h].owned => Storage!CanWrite(file[h].access)
  /\ reply = [t \in Threads |-> reply[t]]

LEMMA AloneIsApart == IInv /\ SeeksAlone => SeeksApart
BY DEF SeeksAlone, SeeksApart, Outside

\* A truncation leaves all bytes as they are.
LEMMA ResizeKeeps ==
  ASSUME IInv, Backing, Blank, NEW t \in Threads, Resize(t)
  PROVE  /\ UNCHANGED <<data, path>> /\ path \in Inodes
         /\ \A i \in Inodes : size[i] <= size'[i] /\ (i # path => size'[i] = size[i])
<1>2. /\ pc[t] \notin Outside
      /\ data' = [i \in Inodes |-> Truncated(i)] /\ (Storage!Grow(t) \/ Storage!KeepSize(t))
  BY DEF Resize, Outside
<1>3. path \in Inodes /\ Storage!InodeOf(t) = path
  BY <1>2, InTransfer
<1>4. size \in [Inodes -> 0 .. MaxFileSize] /\ data \in [Inodes -> [Positions -> Bytes]]
  BY DEF IInv, TypeOK, Storage!TypeOK
<1>5. \A i \in Inodes : size[i] \in Nat
  BY <1>4, SizeFacts
<1>6. /\ UNCHANGED path
      /\ \A i \in Inodes : size[i] <= size'[i] /\ (i # path => size'[i] = size[i])
      /\ \A i \in Inodes : size'[i] \in Nat
  <2>1. CASE Storage!KeepSize(t)
    BY <1>5, <2>1 DEF Storage!KeepSize
  <2>2. CASE Storage!Grow(t)
    <3>1. /\ view[t].stage = "sized" /\ Storage!MustGrow(t) /\ UNCHANGED path
          /\ size' = [size EXCEPT ![path] = Storage!MappingEnd(t)]
      BY <1>3, <2>2 DEF Storage!Grow
    <3>2. /\ Storage!Growing(t) /\ Storage!CanWrite(Access(t))
          /\ Storage!MappingEnd(t) \in Nat
      BY <1>2, <3>1, GrowingIs
    <3>3. size[path] <= Storage!MappingEnd(t)
      BY <1>2, <3>2 DEF Backing
    <3> QED BY <1>3, <1>4, <1>5, <3>1, <3>2, <3>3
  <2> QED BY <1>2, <2>1, <2>2
<1>7. \A i \in Inodes : Truncated(i) = data[i]
  <2>1. ASSUME NEW i \in Inodes, NEW p \in Positions
        PROVE  (IF p < size'[i] THEN data[i][p] ELSE 0) = data[i][p]
    <3>1. p \in Int
      BY DEF Positions
    <3> QED BY <1>5, <1>6, <2>1, <3>1 DEF Blank
  <2>2. ASSUME NEW i \in Inodes PROVE data[i] = [p \in Positions |-> data[i][p]]
    BY <1>4, <2>2
  <2> QED BY <2>1, <2>2 DEF Truncated
<1> QED BY <1>2, <1>3, <1>4, <1>6, <1>7

\* The other steps do not touch the bytes or the size of the file, but Copy.
LEMMA OthersKeep ==
  ASSUME IInv, NEW t \in Threads, Step(t), ~ Copy(t), ~ Resize(t)
  PROVE  UNCHANGED <<data, size>>
BY DEF Step, Begin, Map, Fail, Fault, Advance, Flush, Return, SeekLoad, SeekStore, SeekReturn,
       Throw, Storage!GetView, Storage!Map, Storage!GrowFails, Storage!MapFails, Storage!Destroy, storageVars

\* A thread's step concerns its own reply.
LEMMA StepReplies ==
  ASSUME IInv, Blank, NEW t \in Threads, Step(t)
  PROVE  /\ reply' = [u \in Threads |-> reply'[u]]
         /\ \A u \in Threads \ {t} : reply'[u] = reply[u]
<1>1. \/ UNCHANGED reply
      \/ \E value : reply' = [reply EXCEPT ![t] = value]
  <2>1. CASE Copy(t)
    BY <2>1 DEF Copy
  <2>2. CASE Fail(t) \/ Return(t) \/ SeekReturn(t) \/ Throw(t)
    BY <2>2 DEF Fail, Return, SeekReturn, Throw, Leave
  <2>3. CASE ~ (Copy(t) \/ Fail(t) \/ Return(t) \/ SeekReturn(t) \/ Throw(t))
    BY <2>3 DEF Step, Begin, Resize, Map, Fault, Advance, Flush, SeekLoad, SeekStore
  <2> QED BY <2>1, <2>2, <2>3
<1> QED BY <1>1 DEF Blank

LEMMA BlankStep ==
  ASSUME AllWritable, IInv, Backing, Blank, [Next]_vars
  PROVE  Blank'
<1>1. /\ size \in [Inodes -> 0 .. MaxFileSize] /\ data \in [Inodes -> [Positions -> Bytes]]
      /\ file \in [Handles -> [inode : Inodes \cup {NoInode}, access : Storage!FileAccess,
                               owned : BOOLEAN]]
      /\ path \in Inodes \cup {NoInode}
      /\ \A i \in Inodes : size[i] \in Nat
  <2>1. size \in [Inodes -> 0 .. MaxFileSize]
    BY DEF IInv, TypeOK, Storage!TypeOK
  <2> QED BY <2>1, SizeFacts DEF IInv, TypeOK, Storage!TypeOK
<1>2. CASE UNCHANGED vars
  BY <1>2 DEF vars, storageVars, Blank, Storage!CanWrite
<1>3. ASSUME NEW h \in Handles, Open(h) PROVE Blank'
  <2>1. UNCHANGED <<data, reply>>
    BY <1>3 DEF Open, Drop, Create
  <2>2. CASE Drop(h)
    <3>1. UNCHANGED <<size, path>> /\ Storage!DropFile(h)
      BY <2>2 DEF Drop, Storage!DropFile
    <3>2. \A g \in Handles : file'[g].owned => file'[g].owned = file[g].owned
                                               /\ file'[g].access = file[g].access
      BY <1>1, <3>1 DEF Storage!DropFile, Storage!ClosedFile
    <3> QED BY <2>1, <3>1, <3>2 DEF Blank, Storage!CanWrite
  <2>3. ASSUME NEW access \in AccessModes, Create(h, access) PROVE Blank'
    <3>1. /\ file' = [file EXCEPT ![h] = [inode |-> path', access |-> access, owned |-> TRUE]]
          /\ \/ path # NoInode /\ UNCHANGED <<path, size>>
             \/ /\ path = NoInode
                /\ \E i \in Inodes : path' = i /\ size' = [size EXCEPT ![i] = 0]
      BY <2>3 DEF Create, Storage!Create
    <3>2. \A g \in Handles : file'[g].owned => Storage!CanWrite(file'[g].access)
      BY <1>1, <3>1 DEF Blank, AllWritable, Storage!CanWrite
    <3>3. \A i \in Inodes : /\ i # path' => size'[i] = 0
                            /\ \A p \in Positions : p >= size'[i] => data[i][p] = 0
      <4>1. CASE path # NoInode
        BY <3>1, <4>1 DEF Blank
      <4>2. CASE path = NoInode
        <5>1. PICK i \in Inodes : path' = i /\ size' = [size EXCEPT ![i] = 0]
          BY <3>1, <4>2
        <5>2. size[i] = 0
          BY <4>2, SentinelAssumption DEF Blank
        <5>3. UNCHANGED size
          BY <1>1, <5>1, <5>2
        <5> QED BY <4>2, <5>1, <5>3, SentinelAssumption DEF Blank
      <4> QED BY <4>1, <4>2
    <3> QED BY <2>1, <3>2, <3>3 DEF Blank, Storage!CanWrite
  <2> QED BY <1>3, <2>2, <2>3 DEF Open
<1>4. ASSUME NEW t \in Threads, Invoke(t) PROVE Blank'
  BY <1>4 DEF Invoke, storageVars, Blank, Storage!CanWrite
<1>5. ASSUME NEW t \in Threads, Step(t) PROVE Blank'
  <2>1. UNCHANGED <<path, file>> /\ reply' = [u \in Threads |-> reply'[u]]
    BY <1>5, StepMoves, StepReplies
  <2>2. ASSUME \A i \in Inodes : /\ i # path => size'[i] = 0
                                 /\ \A p \in Positions : p >= size'[i] => data'[i][p] = 0
        PROVE  Blank'
    BY <2>1, <2>2 DEF Blank, Storage!CanWrite
  <2>3. CASE Resize(t)
    <3>1. \A i \in Inodes : size'[i] \in Nat
      <4>1. IInv'
        BY <1>5, NextInv DEF Next
      <4>2. size' \in [Inodes -> 0 .. MaxFileSize]
        BY <4>1 DEF IInv, TypeOK, Storage!TypeOK
      <4> QED BY <4>2, SizeFacts
    <3>2. \A i \in Inodes, p \in Positions : p >= size'[i] => p >= size[i]
      BY <1>1, <2>3, <3>1, ResizeKeeps DEF Positions
    <3> QED BY <2>2, <2>3, <3>2, ResizeKeeps DEF Blank
  <2>4. CASE Copy(t)
    <3>1. UNCHANGED size
      BY <2>4 DEF Copy, storageVars
    <3>2. \A i \in Inodes, p \in Positions :
            p >= size[i] => data'[i][p] = data[i][p]
      <4>1. CASE call[t].op \in Writes
        <5> DEFINE k == InodeOf(HandleOf(t))
        <5>1. data' = [data EXCEPT ![k] =
                [p \in Positions |-> IF p \in Span(t) /\ p < size[k] THEN call[t].byte ELSE @[p]]]
          BY <2>4, <4>1 DEF Copy
        <5> HIDE DEF k
        <5>2. \A p \in Positions : p \in Int
          BY DEF Positions
        <5> QED BY <1>1, <5>1, <5>2
      <4>2. CASE call[t].op \notin Writes
        BY <2>4, <4>2 DEF Copy
      <4> QED BY <4>1, <4>2
    <3> QED BY <2>2, <3>1, <3>2 DEF Blank
  <2>5. CASE ~ Copy(t) /\ ~ Resize(t)
    BY <1>5, <2>2, <2>5, OthersKeep DEF Blank
  <2> QED BY <2>3, <2>4, <2>5
<1> QED BY <1>2, <1>3, <1>4, <1>5 DEF Next

-----------------------------------------------------------------------------
\* The call that is moving the cursor of a handle.
Seeking(t, h) == pc[t] = "settle" /\ HandleOf(t) = h
Moving(t, h)  == pc[t] = "copied" /\ HandleOf(t) = h /\ call[t].op \in AtCursor

\* What the atomic file shows, with every seek alone.
Shown ==
  /\ SeeksAlone
  /\ settledCursor = [h \in Handles |-> settledCursor[h]]
  /\ settledReply = [t \in Threads |-> settledReply[t]]
  /\ \A h \in Handles :
       /\ \A t \in Threads : Seeking(t, h) => settledCursor[h] = seen[t]
       /\ \A t \in Threads : Moving(t, h) => settledCursor[h] = seen[t] + Count(t)
       /\ (\A t \in Threads : ~ Seeking(t, h) /\ ~ Moving(t, h)) => settledCursor[h] = cursor[h]
  /\ \A t \in Threads :
       settledReply[t] =
         IF pc[t] \in {"settle", "told"}
         THEN [moved |-> [i \in {} |-> 0],
               to |-> IF pc[t] = "settle" THEN seen[t] ELSE cursor[HandleOf(t)]]
         ELSE IF pc[t] \in {"copied", "flush", "done"}
         THEN [moved |-> reply[t],
               to |-> IF call[t].op \in AtCursor THEN view[t].file_offset + Count(t) ELSE 0]
         ELSE NoReply

LEMMA Shows ==
  ASSUME IInv, SeeksAlone
  PROVE  Shown
<1>1. settledCursor = [h \in Handles |-> settledCursor[h]]
  BY DEF settledCursor
<1>2. settledReply = [t \in Threads |-> settledReply[t]]
  BY DEF settledReply
<1>3. \A t \in Threads :
        settledReply[t] =
          IF pc[t] \in {"settle", "told"}
          THEN [moved |-> [i \in {} |-> 0],
                to |-> IF pc[t] = "settle" THEN seen[t] ELSE cursor[HandleOf(t)]]
          ELSE IF pc[t] \in {"copied", "flush", "done"}
          THEN [moved |-> reply[t],
                to |-> IF call[t].op \in AtCursor THEN view[t].file_offset + Count(t) ELSE 0]
          ELSE NoReply
  BY DEF settledReply
<1>4. ASSUME NEW h \in Handles, NEW t \in Threads, Seeking(t, h)
      PROVE  settledCursor[h] = seen[t]
  <2>1. \A u \in Threads : Seeking(u, h) => u = t
    BY <1>4 DEF Seeking, SeeksAlone
  <2>2. (CHOOSE u \in Threads : Seeking(u, h)) = t
    BY <1>4, <2>1
  <2> QED BY <1>4, <2>2 DEF settledCursor, Seeking
<1>5. ASSUME NEW h \in Handles, NEW t \in Threads, Moving(t, h)
      PROVE  settledCursor[h] = seen[t] + Count(t)
  <2>1. \A u \in Threads : ~ Seeking(u, h)
    BY <1>5 DEF Seeking, Moving, SeeksAlone
  <2>2. \A u \in Threads : Moving(u, h) => u = t
    BY <1>5, Exclusion DEF ExclusiveAlone, Moving, Outside, AtCursor, Exclusive
  <2>3. (CHOOSE u \in Threads : Moving(u, h)) = t
    BY <1>5, <2>2
  <2> QED BY <1>5, <2>1, <2>3 DEF settledCursor, Seeking, Moving
<1>6. ASSUME NEW h \in Handles, \A t \in Threads : ~ Seeking(t, h) /\ ~ Moving(t, h)
      PROVE  settledCursor[h] = cursor[h]
  BY <1>6 DEF settledCursor, Seeking, Moving
<1> QED BY <1>1, <1>2, <1>3, <1>4, <1>5, <1>6 DEF Shown

LEMMA ShowsNext == IInv' /\ SeeksAlone' => Shown'
<1>1. IInv /\ SeeksAlone => Shown
  BY Shows
<1> QED BY <1>1, PTL

\* What a step of another thread leaves alone.
Same(t) ==
  pc'[t] = pc[t] /\ call'[t] = call[t] /\ view'[t] = view[t] /\ seen'[t] = seen[t]

Quiet(t, h) == ~ Seeking(t, h) /\ ~ Moving(t, h)

LEMMA SameMeans ==
  ASSUME NEW t \in Threads, NEW h \in Handles, Same(t)
  PROVE  /\ Seeking(t, h)' <=> Seeking(t, h)
         /\ Moving(t, h)' <=> Moving(t, h)
         /\ Quiet(t, h)' <=> Quiet(t, h)
         /\ Count(t)' = Count(t)
BY DEF Same, Seeking, Moving, Quiet, HandleOf, Count

\* A cursor nobody touches shows no change ...
LEMMA CursorKeeps ==
  ASSUME Shown, Shown', NEW h \in Handles, cursor'[h] = cursor[h],
         \A t \in Threads : Same(t) \/ (Quiet(t, h) /\ Quiet(t, h)')
  PROVE  settledCursor'[h] = settledCursor[h]
<1>1. CASE \E t \in Threads : Seeking(t, h)
  <2>1. PICK t \in Threads : Seeking(t, h)
    BY <1>1
  <2>2. Same(t) /\ Seeking(t, h)'
    BY <2>1, SameMeans DEF Quiet
  <2> QED BY <2>1, <2>2 DEF Shown, Same
<1>2. CASE \E t \in Threads : Moving(t, h)
  <2>1. PICK t \in Threads : Moving(t, h)
    BY <1>2
  <2>2. Same(t) /\ Moving(t, h)' /\ Count(t)' = Count(t)
    BY <2>1, SameMeans DEF Quiet
  <2>3. settledCursor[h] = seen[t] + Count(t)
    BY <2>1 DEF Shown
  <2>4. settledCursor'[h] = seen'[t] + Count(t)'
    BY <2>2 DEF Shown
  <2> QED BY <2>2, <2>3, <2>4 DEF Same
<1>3. CASE \A t \in Threads : Quiet(t, h)
  <2>1. \A t \in Threads : Quiet(t, h)'
    BY <1>3, SameMeans
  <2>2. settledCursor[h] = cursor[h]
    BY <1>3 DEF Shown, Quiet
  <2>3. settledCursor'[h] = cursor'[h]
    BY <2>1 DEF Shown, Quiet
  <2> QED BY <2>2, <2>3
<1> QED BY <1>1, <1>2, <1>3 DEF Quiet

\* ... nor does the reply of a thread that does not move.
LEMMA ReplyKeeps ==
  ASSUME Shown, Shown', NEW t \in Threads, Same(t), reply'[t] = reply[t],
         pc[t] = "told" => cursor'[HandleOf(t)] = cursor[HandleOf(t)]
  PROVE  settledReply'[t] = settledReply[t]
<1>1. Count(t)' = Count(t)
  BY DEF Same, Count
<1>2. CASE pc[t] = "settle"
  BY <1>2 DEF Same, Shown
<1>3. CASE pc[t] \in {"copied", "flush", "done"}
  <2>1. settledReply[t] = [moved |-> reply[t],
               to |-> IF call[t].op \in AtCursor THEN view[t].file_offset + Count(t) ELSE 0]
    BY <1>3 DEF Shown
  <2>2. settledReply'[t] = [moved |-> reply'[t],
               to |-> IF call'[t].op \in AtCursor THEN view'[t].file_offset + Count(t)' ELSE 0]
    BY <1>3 DEF Shown, Same
  <2> QED BY <1>1, <2>1, <2>2 DEF Same
<1>4. CASE pc[t] = "told"
  <2>1. cursor'[HandleOf(t)'] = cursor[HandleOf(t)]
    BY <1>4 DEF Same, HandleOf
  <2>2. settledReply[t] = [moved |-> [i \in {} |-> 0], to |-> cursor[HandleOf(t)]]
    BY <1>4 DEF Shown
  <2>3. settledReply'[t] = [moved |-> [i \in {} |-> 0], to |-> cursor'[HandleOf(t)']]
    BY <1>4 DEF Shown, Same
  <2> QED BY <2>1, <2>2, <2>3
<1>5. CASE pc[t] \notin {"settle", "told", "copied", "flush", "done"}
  BY <1>5 DEF Same, Shown
<1> QED BY <1>2, <1>3, <1>4, <1>5

LEMMA CursorsKeep ==
  ASSUME Shown, Shown', UNCHANGED cursor, NEW t \in Threads, \A u \in Threads \ {t} : Same(u),
         \A h \in Handles : Quiet(t, h) /\ Quiet(t, h)'
  PROVE  \A h \in Handles : settledCursor'[h] = settledCursor[h]
<1> SUFFICES ASSUME NEW h \in Handles PROVE settledCursor'[h] = settledCursor[h]
  OBVIOUS
<1>1. \A u \in Threads : Same(u) \/ (Quiet(u, h) /\ Quiet(u, h)')
  OBVIOUS
<1> QED BY <1>1, CursorKeeps

LEMMA AllCursorsKeep ==
  ASSUME Shown, Shown', \A h \in Handles : settledCursor'[h] = settledCursor[h]
  PROVE  UNCHANGED settledCursor
BY DEF Shown

LEMMA AllRepliesKeep ==
  ASSUME Shown, Shown', \A t \in Threads : settledReply'[t] = settledReply[t]
  PROVE  UNCHANGED settledReply
BY DEF Shown

LEMMA OneCursorMoves ==
  ASSUME Shown, Shown', NEW h \in Handles,
         \A g \in Handles \ {h} : settledCursor'[g] = settledCursor[g]
  PROVE  settledCursor' = [settledCursor EXCEPT ![h] = settledCursor'[h]]
BY DEF Shown

LEMMA OneReplyMoves ==
  ASSUME Shown, Shown', NEW t \in Threads,
         \A u \in Threads \ {t} : settledReply'[u] = settledReply[u]
  PROVE  settledReply' = [settledReply EXCEPT ![t] = settledReply'[t]]
BY DEF Shown

\* A transfer that holds the mutex exclusively, and a seek, are the only ones
\* to move the cursor of their handle.
LEMMA AloneAtCursor ==
  ASSUME IInv, SeeksAlone, NEW t \in Threads, NEW u \in Threads \ {t},
         pc[t] = "settle" \/ (pc[t] \notin Outside /\ call[t].op \in Exclusive)
  PROVE  Quiet(u, HandleOf(t))
<1>1. ~ Seeking(u, HandleOf(t))
  BY DEF SeeksAlone, Seeking, Outside
<1>2. CASE pc[t] = "settle"
  BY <1>1, <1>2 DEF SeeksAlone, Moving, Quiet
<1>3. CASE pc[t] \notin Outside /\ call[t].op \in Exclusive
  BY <1>1, <1>3, Exclusion DEF ExclusiveAlone, Moving, Quiet, Outside
<1> QED BY <1>2, <1>3

\* Nobody moves the cursor a seek is about to return.
LEMMA ToldKeeps ==
  ASSUME IInv, SeeksAlone, SeeksAlone', NEW t \in Threads, Step(t),
         NEW u \in Threads \ {t}, pc[u] = "told"
  PROVE  cursor'[HandleOf(u)] = cursor[HandleOf(u)]
<1>1. /\ pc \in [Threads -> {"idle", "enter", "opening", "mapped", "copied", "flush", "done",
                             "settle", "told"}]
      /\ cursor \in [Handles -> Sizes] /\ HandleOf(u) \in Handles
  BY CallTypes DEF IInv, TypeOK, InOrder, HandleOf
<1>2. pc'[u] = "told" /\ HandleOf(u)' = HandleOf(u)
  BY StepMoves DEF HandleOf
<1>3. CASE Advance(t) \/ SeekStore(t)
  <2>1. pc[t] \in {"copied", "settle"}
    BY <1>3 DEF Advance, SeekStore
  <2>2. HandleOf(t) # HandleOf(u)
    BY <2>1 DEF SeeksAlone
  <2>3. cursor' = cursor \/ \E n : cursor' = [cursor EXCEPT ![HandleOf(t)] = n]
    BY <1>3 DEF Advance, SeekStore
  <2> QED BY <1>1, <2>2, <2>3
<1>4. CASE SeekLoad(t)
  <2>1. pc'[t] = "settle" /\ UNCHANGED call
    BY <1>1, <1>4 DEF SeekLoad
  <2>2. HandleOf(t)' = HandleOf(t)
    BY <2>1 DEF HandleOf
  <2>3. HandleOf(t)' # HandleOf(u)'
    BY <1>2, <2>1 DEF SeeksAlone
  <2>4. cursor' = cursor \/ \E n : cursor' = [cursor EXCEPT ![HandleOf(t)] = n]
    BY <1>4 DEF SeekLoad
  <2> QED BY <1>1, <1>2, <2>2, <2>3, <2>4
<1>5. CASE ~ (Advance(t) \/ SeekStore(t) \/ SeekLoad(t))
  <2>1. UNCHANGED cursor
    BY <1>5 DEF Step, Begin, Resize, Map, Fail, Copy, Fault, Flush, Return, SeekReturn, Throw
  <2> QED BY <2>1
<1> QED BY <1>3, <1>4, <1>5

\* The facts a step of a thread starts from.
LEMMA StepShows ==
  ASSUME IInv, Blank, Shown, Shown', NEW t \in Threads, Step(t)
  PROVE  /\ \A u \in Threads \ {t} : Same(u) /\ settledReply'[u] = settledReply[u]
         /\ settledReply' = [settledReply EXCEPT ![t] = settledReply'[t]]
         /\ UNCHANGED path /\ path \in Inodes /\ path # NoInode
         /\ HandleOf(t) \in Handles /\ pc[t] # "idle"
         /\ file[HandleOf(t)].owned /\ Storage!CanWrite(Access(t))
<1>1. \A u \in Threads \ {t} : Same(u) /\ reply'[u] = reply[u]
  BY StepMoves, StepReplies DEF Same
<1>2. \A u \in Threads \ {t} : settledReply'[u] = settledReply[u]
  <2>1. SeeksAlone /\ SeeksAlone'
    BY DEF Shown
  <2> QED BY <1>1, <2>1, ToldKeeps, ReplyKeeps
<1>3. pc[t] # "idle"
  BY DEF Step, Begin, Resize, Map, Fail, Copy, Fault, Advance, Flush, Return, SeekLoad, SeekStore,
         SeekReturn, Throw
<1>4. HandleOf(t) \in Handles /\ file[HandleOf(t)].owned
  BY <1>3, CallTypes DEF IInv, InOrder, HandleOf
<1>5. path \in Inodes
  BY <1>4 DEF IInv, OneInode
<1>6. UNCHANGED path
  BY StepMoves
<1> QED
  BY <1>1, <1>2, <1>3, <1>4, <1>5, <1>6, OneReplyMoves, SentinelAssumption DEF Blank, Access

\* Opening, mapping and flushing do not show, nor does an exception.
LEMMA HiddenStep ==
  ASSUME IInv, Blank, Shown, Shown', NEW t \in Threads,
         Begin(t) \/ Map(t) \/ Fail(t) \/ Fault(t) \/ Flush(t) \/ Throw(t)
           \/ (Advance(t) /\ call[t].op \notin AtCursor),
         Step(t)
  PROVE  UNCHANGED Atomic!vars
<1>1. pc \in [Threads -> {"idle", "enter", "opening", "mapped", "copied", "flush", "done",
                          "settle", "told"}]
  BY DEF IInv, TypeOK
<1>2. UNCHANGED <<data, size, path>>
  BY StepMoves
     DEF Begin, Map, Fail, Fault, Flush, Throw, Advance, Storage!GetView, Storage!Map,
         Storage!GrowFails, Storage!MapFails, storageVars
<1>3. UNCHANGED <<settledBytes, settledSize>>
  BY <1>2 DEF settledBytes, settledSize
<1>4. /\ UNCHANGED cursor
      /\ pc[t] \notin {"settle", "copied"} \/ (pc[t] = "copied" /\ call[t].op \notin AtCursor)
      /\ pc'[t] \notin {"settle", "copied"}
  BY <1>1 DEF Begin, Map, Fail, Fault, Flush, Throw, Advance, Leave
<1>5. \A h \in Handles : Quiet(t, h) /\ Quiet(t, h)'
  BY <1>4 DEF Quiet, Seeking, Moving
<1>6. \A h \in Handles : settledCursor'[h] = settledCursor[h]
  BY <1>4, <1>5, StepShows, CursorsKeep
<1>7. settledReply'[t] = settledReply[t]
  <2>1. CASE Begin(t) \/ Map(t) \/ Fail(t) \/ Fault(t) \/ Throw(t)
    <3>1. /\ pc[t] \in {"enter", "opening", "mapped"}
          /\ pc'[t] \in {"opening", "mapped", "idle"}
      BY <1>1, <2>1 DEF Begin, Map, Fail, Fault, Throw, Leave
    <3> QED BY <3>1 DEF Shown
  <2>2. CASE Flush(t) \/ Advance(t)
    <3>1. /\ pc[t] \in {"copied", "flush", "done"} /\ pc'[t] \in {"copied", "flush", "done"}
          /\ UNCHANGED <<call, reply, view>>
      BY <1>1, <2>2 DEF Flush, Advance, storageVars
    <3>2. Count(t)' = Count(t)
      BY <3>1 DEF Count
    <3> QED BY <3>1, <3>2 DEF Shown
  <2> QED BY <2>1, <2>2
<1>8. \A u \in Threads : settledReply'[u] = settledReply[u]
  BY <1>7, StepShows
<1> QED BY <1>3, <1>6, <1>8, AllCursorsKeep, AllRepliesKeep DEF Atomic!vars

\* ftruncate extends the file.
LEMMA ResizeRefines ==
  ASSUME IInv, IInv', Backing, Blank, Shown, Shown', NEW t \in Threads, Resize(t), Step(t)
  PROVE  Atomic!Extend
<1>1. pc[t] = "opening" /\ UNCHANGED <<pc, call, seen, cursor, reply>>
  BY DEF Resize
<1>2. \A h \in Handles : Quiet(t, h) /\ Quiet(t, h)'
  BY <1>1 DEF Quiet, Seeking, Moving
<1>3. \A h \in Handles : settledCursor'[h] = settledCursor[h]
  BY <1>1, <1>2, StepShows, CursorsKeep
<1>4. settledReply'[t] = settledReply[t]
  BY <1>1 DEF Shown
<1>5. UNCHANGED <<settledCursor, settledReply>>
  BY <1>3, <1>4, StepShows, AllCursorsKeep, AllRepliesKeep
<1>6. /\ UNCHANGED <<data, path>> /\ path \in Inodes /\ path # NoInode
      /\ size[path] <= size'[path]
  BY ResizeKeeps, SentinelAssumption
<1>7. size[path] \in Nat /\ size'[path] \in 0 .. MaxFileSize
  BY <1>6, SizeFacts DEF IInv, TypeOK, Storage!TypeOK
<1>8. settledSize' \in settledSize .. MaxFileSize /\ UNCHANGED settledBytes
  BY <1>6, <1>7, SizeFacts DEF settledSize, settledBytes
<1> QED BY <1>5, <1>8 DEF Atomic!Extend

\* The store of cursor += count was shown when the transfer took effect.
LEMMA AdvanceRefines ==
  ASSUME IInv, SeeksAlone, Backing, Blank, CursorFollows, Shown, Shown', NEW t \in Threads,
         Advance(t), call[t].op \in AtCursor, Step(t)
  PROVE  UNCHANGED Atomic!vars
<1>1. PICK h \in Handles : h = HandleOf(t)
  BY StepShows
<1>2. /\ pc \in [Threads -> {"idle", "enter", "opening", "mapped", "copied", "flush", "done",
                             "settle", "told"}]
      /\ cursor \in [Handles -> Sizes]
  BY DEF IInv, TypeOK
<1>3. /\ pc[t] = "copied" /\ pc'[t] \in {"flush", "done"}
      /\ pc[t] \notin Outside /\ call[t].op \in Exclusive
      /\ cursor' = [cursor EXCEPT ![h] = Plus(seen[t], Count(t))]
      /\ UNCHANGED <<call, reply, view, data, size, path, file>>
  BY <1>1, <1>2 DEF Advance, Outside, AtCursor, Exclusive, storageVars
<1>4. UNCHANGED <<settledBytes, settledSize>>
  BY <1>3 DEF settledBytes, settledSize
<1>5. \A u \in Threads \ {t} : Same(u) /\ Quiet(u, h)
  BY <1>1, <1>3, AloneAtCursor, StepShows
<1>6. \A g \in Handles \ {h} : settledCursor'[g] = settledCursor[g]
  <2> SUFFICES ASSUME NEW g \in Handles \ {h} PROVE settledCursor'[g] = settledCursor[g]
    OBVIOUS
  <2>1. Quiet(t, g) /\ Quiet(t, g)'
    BY <1>1, <1>3 DEF Quiet, Seeking, Moving
  <2>2. \A u \in Threads : Same(u) \/ (Quiet(u, g) /\ Quiet(u, g)')
    BY <1>5, <2>1
  <2>3. cursor'[g] = cursor[g]
    BY <1>2, <1>3
  <2> QED BY <2>2, <2>3, CursorKeeps
<1>7. settledCursor'[h] = settledCursor[h]
  <2>1. settledCursor[h] = seen[t] + Count(t)
    BY <1>1, <1>3 DEF Shown, Moving
  <2>2. \A u \in Threads : Quiet(u, h)'
    <3>1. Quiet(t, h)'
      BY <1>3 DEF Quiet, Seeking, Moving
    <3>2. \A u \in Threads \ {t} : Quiet(u, h)'
      BY <1>5, SameMeans
    <3> QED BY <3>1, <3>2
  <2>3. settledCursor'[h] = Plus(seen[t], Count(t))
    BY <1>2, <1>3, <2>2 DEF Shown, Quiet
  <2>4. /\ seen[t] = cursor[h] /\ cursor[h] \in Nat /\ Count(t) \in Nat
        /\ seen[t] = view[t].file_offset
    <3>1. FollowsCursor(t) /\ cursor[h] \in Nat
      BY <1>2, SizeFacts DEF CursorFollows
    <3>2. Count(t) \in Nat
      BY <1>3, CountIsRequest, InTransfer DEF IInv
    <3> QED BY <1>1, <1>3, <3>1, <3>2 DEF FollowsCursor
  <2>5. cursor[h] <= size[path]
    <3>1. \A u \in Threads : pc[u] = "settle" => HandleOf(u) # h
      BY <1>1, <1>3, <1>5 DEF Quiet, Seeking
    <3> QED BY <1>1, <3>1, StepShows DEF CursorFollows, CursorInside, Access
  <2>6. seen[t] + Count(t) <= size[path] /\ size[path] \in Nat /\ size[path] < Word
    <3>1. size[path] \in Nat /\ size[path] < Word
      BY <1>3, InTransfer, SizeFacts
    <3>2. CASE view[t].view_length = 0
      <4>1. Count(t) = 0
        BY <1>3, <3>2, CountIsRequest, InTransfer DEF IInv
      <4> QED BY <2>4, <2>5, <3>1, <4>1
    <3>3. CASE view[t].view_length # 0
      <4>1. pc[t] \in Mapped /\ Storage!CanWrite(Access(t))
        BY <1>3, StepShows DEF Mapped
      <4> QED BY <2>4, <3>1, <3>3, <4>1, RangeBacked
    <3> QED BY <3>2, <3>3
  <2>7. seen[t] + Count(t) < Word
    BY <2>4, <2>6, SizeFacts
  <2> QED BY <2>1, <2>3, <2>7 DEF Plus
<1>8. settledReply'[t] = settledReply[t]
  <2>1. Count(t)' = Count(t)
    BY <1>3 DEF Count
  <2> QED BY <1>3, <2>1 DEF Shown
<1>9. \A g \in Handles : settledCursor'[g] = settledCursor[g]
  BY <1>6, <1>7
<1>10. \A u \in Threads : settledReply'[u] = settledReply[u]
  BY <1>8, StepShows
<1> QED BY <1>4, <1>9, <1>10, AllCursorsKeep, AllRepliesKeep DEF Atomic!vars

\* The memcpy, as the atomic file sees it.
LEMMA CopyTransfers ==
  ASSUME IInv, Blank, Shown, Shown', NEW t \in Threads, Copy(t), Step(t),
         NEW from \in Nat, NEW n \in Nat, Span(t) = from .. from + n - 1, from + n <= size[path],
         NEW to, settledReply'[t] = [moved |-> reply'[t], to |-> to]
  PROVE  Atomic!ReadAt(t, from, n, to) \/ Atomic!WriteAt(t, from, n, to)
<1>1. /\ pc[t] = "mapped" /\ pc[t] \notin Outside /\ UNCHANGED <<size, path>>
      /\ path \in Inodes /\ path # NoInode /\ InodeOf(HandleOf(t)) = path /\ call[t] \in Calls
  BY InTransfer, SentinelAssumption DEF Copy, Outside, storageVars
<1>2. /\ settledSize = size[path] /\ settledBytes = data[path]
      /\ settledSize' = size[path] /\ settledBytes' = data'[path]
  BY <1>1 DEF settledSize, settledBytes
<1>3. settledReply[t] = NoReply
  BY <1>1 DEF Shown
<1>4. Atomic!Reply(t, reply'[t], to)
  BY <1>3, StepShows DEF Atomic!Reply
<1>5. /\ data \in [Inodes -> [Positions -> Bytes]] /\ size[path] \in Nat
  BY <1>1, InTransfer DEF IInv, TypeOK
<1>6. \A p \in from .. from + n - 1 : p < size[path]
  BY <1>5
<1>7. CASE call[t].op \in Writes
  <2>1. /\ data' = [data EXCEPT ![path] =
             [p \in Positions |-> IF p \in Span(t) /\ p < size[path] THEN call[t].byte ELSE @[p]]]
        /\ reply' = [reply EXCEPT ![t] = [p \in Span(t) |-> call[t].byte]]
    BY <1>1, <1>7 DEF Copy
  <2>2. reply'[t] = [p \in from .. from + n - 1 |-> call[t].byte]
    BY <2>1 DEF Blank
  <2>3. data'[path] = [p \in Positions |-> IF p \in from .. from + n - 1 THEN call[t].byte
                                            ELSE data[path][p]]
    BY <1>1, <1>5, <1>6, <2>1
  <2>4. call[t].byte \in Bytes
    BY <1>1, <1>7, CallTypes
  <2>5. settledBytes' = [p \in Atomic!Positions |-> IF p \in from .. from + n - 1 THEN call[t].byte
                                                   ELSE settledBytes[p]]
    BY <1>2, <2>3 DEF Atomic!Positions, Positions
  <2>6. Atomic!Reply(t, [p \in from .. from + n - 1 |-> call[t].byte], to)
    BY <1>4, <2>2
  <2>7. from + n <= settledSize /\ UNCHANGED settledSize
    BY <1>2
  <2> QED BY <2>4, <2>5, <2>6, <2>7 DEF Atomic!WriteAt
<1>8. CASE call[t].op \notin Writes
  <2>1. /\ UNCHANGED data
        /\ reply' = [reply EXCEPT ![t] =
             [p \in Span(t) |-> IF p < size[path] THEN data[path][p] ELSE 0]]
    BY <1>1, <1>8 DEF Copy
  <2>2. reply'[t] = [p \in Span(t) |-> IF p < size[path] THEN data[path][p] ELSE 0]
    BY <2>1 DEF Blank
  <2>3. reply'[t] = [p \in from .. from + n - 1 |-> data[path][p]]
    BY <1>6, <2>2
  <2>4. reply'[t] = [p \in from .. from + n - 1 |-> settledBytes[p]]
    BY <1>2, <2>3
  <2>5. UNCHANGED <<settledBytes, settledSize>>
    BY <1>2, <2>1
  <2>6. from + n <= settledSize
    BY <1>2
  <2> QED BY <1>4, <2>4, <2>5, <2>6 DEF Atomic!ReadAt
<1> QED BY <1>7, <1>8

\* What a transfer covers lies in the file; one of no bytes lies anywhere.
LEMMA CopyRange ==
  ASSUME IInv, SeeksAlone, Backing, Blank, CursorFollows, NEW t \in Threads, Copy(t), Step(t)
  PROVE  /\ Count(t) \in Nat /\ view[t].file_offset \in Nat /\ size[path] \in 0 .. MaxFileSize
         /\ Span(t) = view[t].file_offset .. view[t].file_offset + Count(t) - 1
         /\ Count(t) # 0 \/ call[t].op \in AtCursor =>
              view[t].file_offset + Count(t) <= size[path]
         /\ call[t].op \in AtCursor => view[t].file_offset = cursor[HandleOf(t)]
<1>1. /\ pc[t] = "mapped" /\ pc[t] \in Mapped /\ pc[t] \notin Outside
  BY DEF Copy, Mapped, Outside
<1>2. /\ Count(t) \in Nat /\ view[t].file_offset \in Nat /\ Count(t) = view[t].view_length
      /\ size[path] \in 0 .. MaxFileSize /\ size[path] \in Nat
  BY <1>1, CountIsRequest, InTransfer DEF IInv
<1>3. call[t].op \in AtCursor => view[t].file_offset = cursor[HandleOf(t)]
  BY <1>1 DEF CursorFollows, FollowsCursor
<1>4. Count(t) # 0 => view[t].file_offset + Count(t) <= size[path]
  <2>1. Storage!CanWrite(Access(t))
    BY <1>1, InTransfer DEF Blank, Access
  <2> QED BY <1>1, <1>2, <2>1, RangeBacked
<1>5. call[t].op \in AtCursor => cursor[HandleOf(t)] <= size[path]
  <2>1. ASSUME NEW u \in Threads, pc[u] = "settle" PROVE HandleOf(u) # HandleOf(t)
    BY <1>1, <2>1 DEF SeeksAlone
  <2>2. HandleOf(t) \in Handles /\ file[HandleOf(t)].owned
    BY <1>1, InTransfer
  <2> QED BY <2>1, <2>2 DEF CursorFollows, CursorInside, Blank
<1> QED BY <1>2, <1>3, <1>4, <1>5 DEF Span

\* A transfer takes effect with its memcpy.
LEMMA CopyRefines ==
  ASSUME IInv, SeeksAlone, Backing, Blank, CursorFollows, Shown, Shown', NEW t \in Threads,
         Copy(t), Step(t)
  PROVE  Atomic!Transfer(t) \/ Atomic!TransferAt(t)
<1>1. PICK h \in Handles : h = HandleOf(t)
  BY StepShows
<1> DEFINE from == view[t].file_offset
           n == Count(t)
           to == IF call[t].op \in AtCursor THEN from + n ELSE 0
<1>2. /\ pc[t] = "mapped" /\ pc'[t] = "copied" /\ pc[t] \notin Outside
      /\ UNCHANGED <<cursor, call, view>> /\ seen'[t] = cursor[h]
  BY <1>1 DEF Copy, Outside, storageVars, IInv, TypeOK
<1>3. Count(t)' = n /\ HandleOf(t)' = h
  BY <1>1, <1>2 DEF Count, HandleOf
<1>4. settledReply'[t] = [moved |-> reply'[t], to |-> to]
  BY <1>2, <1>3 DEF Shown
<1>5. /\ n \in Nat /\ from \in Nat /\ size[path] \in 0 .. MaxFileSize
      /\ Span(t) = from .. from + n - 1
      /\ n # 0 \/ call[t].op \in AtCursor => from + n <= size[path]
      /\ call[t].op \in AtCursor => from = cursor[h]
  BY <1>1, CopyRange
<1> HIDE DEF from, n, to
<1>6. \A u \in Threads \ {t} : Same(u)
  BY StepShows
<1>7. CASE call[t].op \in AtCursor
  <2>1. \A g \in Handles \ {h} : settledCursor'[g] = settledCursor[g]
    <3> SUFFICES ASSUME NEW g \in Handles \ {h} PROVE settledCursor'[g] = settledCursor[g]
      OBVIOUS
    <3>1. Quiet(t, g) /\ Quiet(t, g)'
      BY <1>1, <1>3 DEF Quiet, Seeking, Moving
    <3>2. \A u \in Threads : Same(u) \/ (Quiet(u, g) /\ Quiet(u, g)')
      BY <1>6, <3>1
    <3> QED BY <1>2, <3>2, CursorKeeps
  <2>2. settledCursor[h] = from
    <3>1. Quiet(t, h)
      BY <1>2 DEF Quiet, Seeking, Moving
    <3>2. \A u \in Threads \ {t} : Quiet(u, h)
      BY <1>1, <1>2, <1>7, AloneAtCursor DEF AtCursor, Exclusive
    <3> QED BY <1>5, <1>7, <3>1, <3>2 DEF Shown, Quiet
  <2>3. settledCursor'[h] = from + n
    <3>1. Moving(t, h)'
      BY <1>2, <1>3, <1>7 DEF Moving
    <3> QED BY <1>2, <1>3, <1>5, <1>7, <3>1 DEF Shown
  <2>4. settledCursor' = [settledCursor EXCEPT ![h] = @ + n]
    BY <2>1, <2>2, <2>3, OneCursorMoves
  <2>5. to = from + n /\ n \in 0 .. MaxFileSize
    BY <1>5, <1>7, SizeFacts DEF to
  <2>6. Atomic!ReadAt(t, from, n, from + n) \/ Atomic!WriteAt(t, from, n, from + n)
    BY <1>4, <1>5, <1>7, <2>5, CopyTransfers
  <2> QED BY <2>2, <2>4, <2>5, <2>6 DEF Atomic!Transfer
<1>8. CASE call[t].op \notin AtCursor
  <2>1. \A g \in Handles : Quiet(t, g) /\ Quiet(t, g)'
    BY <1>2, <1>8 DEF Quiet, Seeking, Moving
  <2>2. UNCHANGED settledCursor
    BY <1>2, <1>6, <2>1, CursorsKeep, AllCursorsKeep
  <2>3. to = 0 /\ settledReply'[t] = [moved |-> reply'[t], to |-> 0]
    BY <1>4, <1>8 DEF to
  <2>4. CASE n # 0
    <3>1. from \in 0 .. MaxFileSize /\ n \in 0 .. MaxFileSize
      BY <1>5, <2>4, SizeFacts
    <3>2. Atomic!ReadAt(t, from, n, 0) \/ Atomic!WriteAt(t, from, n, 0)
      BY <1>5, <2>3, <2>4, CopyTransfers
    <3> QED BY <2>2, <3>1, <3>2 DEF Atomic!TransferAt
  <2>5. CASE n = 0
    <3>1. Span(t) = 0 .. 0 + 0 - 1 /\ 0 + 0 <= size[path] /\ 0 \in 0 .. MaxFileSize
      BY <1>5, <2>5, SizeFacts
    <3>2. Atomic!ReadAt(t, 0, 0, 0) \/ Atomic!WriteAt(t, 0, 0, 0)
      BY <2>3, <3>1, CopyTransfers
    <3> QED BY <2>2, <3>1, <3>2 DEF Atomic!TransferAt
  <2> QED BY <2>4, <2>5
<1> QED BY <1>7, <1>8

\* A seek takes effect when it has computed its target.
LEMMA SeekRefines ==
  ASSUME IInv, Blank, Shown, Shown', NEW t \in Threads, SeekLoad(t), Step(t)
  PROVE  Atomic!Seek(t)
<1>1. PICK h \in Handles : h = HandleOf(t)
  BY StepShows
<1>2. /\ pc[t] = "enter" /\ pc'[t] = "settle" /\ UNCHANGED <<data, size, path, call>>
      /\ seen'[t] \in 0 .. size[path] /\ path # NoInode
  <2>1. /\ pc[t] = "enter" /\ call[t].op = "seek" /\ pc'[t] = "settle"
        /\ UNCHANGED <<data, size, path, call>>
        /\ seen'[t] = seek_target(size[path], AsOffset(cursor[HandleOf(t)]), call[t].offset,
                                  call[t].whence)
    BY DEF SeekLoad, storageVars, IInv, TypeOK
  <2> QED BY <2>1, SeekTarget, StepShows
<1>3. UNCHANGED <<settledBytes, settledSize>> /\ settledSize = size[path]
  BY <1>2 DEF settledBytes, settledSize
<1>4. HandleOf(t)' = h
  BY <1>1, <1>2 DEF HandleOf
<1>5. settledCursor' = [settledCursor EXCEPT ![h] = seen'[t]]
  <2>1. \A g \in Handles \ {h} : settledCursor'[g] = settledCursor[g]
    <3> SUFFICES ASSUME NEW g \in Handles \ {h} PROVE settledCursor'[g] = settledCursor[g]
      OBVIOUS
    <3>1. Quiet(t, g) /\ Quiet(t, g)'
      BY <1>1, <1>4 DEF Quiet, Seeking, Moving
    <3>2. \A u \in Threads : Same(u) \/ (Quiet(u, g) /\ Quiet(u, g)')
      BY <3>1, StepShows
    <3>3. cursor'[g] = cursor[g]
      BY <1>1 DEF SeekLoad, IInv, TypeOK
    <3> QED BY <3>2, <3>3, CursorKeeps
  <2>2. settledCursor'[h] = seen'[t]
    BY <1>2, <1>4 DEF Shown, Seeking
  <2> QED BY <2>1, <2>2, OneCursorMoves
<1>6. Atomic!Reply(t, [i \in {} |-> 0], seen'[t])
  <2>1. /\ settledReply[t] = NoReply
        /\ settledReply'[t] = [moved |-> [i \in {} |-> 0], to |-> seen'[t]]
    BY <1>2 DEF Shown
  <2> QED BY <2>1, StepShows DEF Atomic!Reply
<1> QED BY <1>2, <1>3, <1>5, <1>6 DEF Atomic!Seek

\* The second store of a seek was shown when it had its target.
LEMMA StoreRefines ==
  ASSUME IInv, SeeksAlone, Blank, CursorFollows, Shown, Shown', NEW t \in Threads,
         SeekStore(t), Step(t)
  PROVE  UNCHANGED Atomic!vars
<1>1. PICK h \in Handles : h = HandleOf(t)
  BY StepShows
<1>2. /\ pc[t] = "settle" /\ pc'[t] = "told" /\ cursor \in [Handles -> Sizes]
      /\ cursor' = [cursor EXCEPT ![h] = AsSize(seen[t])]
      /\ UNCHANGED <<data, size, path, call>>
  BY <1>1 DEF SeekStore, storageVars, IInv, TypeOK
<1>3. UNCHANGED <<settledBytes, settledSize>>
  BY <1>2 DEF settledBytes, settledSize
<1>4. HandleOf(t)' = h /\ \A g \in Handles : Quiet(t, g)'
  BY <1>1, <1>2 DEF Quiet, Seeking, Moving, HandleOf
<1>5. AsSize(seen[t]) = seen[t]
  <2>1. seen[t] \in 0 .. size[path]
    BY <1>2 DEF CursorFollows, TargetInside
  <2> QED BY <2>1 DEF AsSize
<1>6. ASSUME NEW g \in Handles \ {h} PROVE settledCursor'[g] = settledCursor[g]
  <2>1. Quiet(t, g) /\ Quiet(t, g)'
    BY <1>1, <1>2, <1>4 DEF Quiet, Seeking, Moving
  <2>2. \A u \in Threads : Same(u) \/ (Quiet(u, g) /\ Quiet(u, g)')
    BY <2>1, StepShows
  <2> QED BY <1>2, <2>2, CursorKeeps
<1>7. settledCursor'[h] = settledCursor[h]
  <2>1. \A u \in Threads \ {t} : Same(u) /\ Quiet(u, h)
    BY <1>1, <1>2, AloneAtCursor, StepShows
  <2>2. \A u \in Threads : Quiet(u, h)'
    BY <1>4, <2>1, SameMeans
  <2>3. settledCursor'[h] = AsSize(seen[t])
    BY <1>2, <2>2 DEF Shown, Quiet
  <2>4. settledCursor[h] = seen[t]
    BY <1>1, <1>2 DEF Shown, Seeking
  <2> QED BY <1>5, <2>3, <2>4
<1>8. settledReply'[t] = settledReply[t]
  <2>1. settledReply[t] = [moved |-> [i \in {} |-> 0], to |-> seen[t]]
    BY <1>2 DEF Shown
  <2>2. settledReply'[t] = [moved |-> [i \in {} |-> 0], to |-> cursor'[h]]
    BY <1>2, <1>4 DEF Shown
  <2> QED BY <1>2, <1>5, <2>1, <2>2
<1>9. \A g \in Handles : settledCursor'[g] = settledCursor[g]
  BY <1>6, <1>7
<1>10. \A u \in Threads : settledReply'[u] = settledReply[u]
  BY <1>8, StepShows
<1> QED BY <1>3, <1>9, <1>10, AllCursorsKeep, AllRepliesKeep DEF Atomic!vars

\* A call returns: a seek with the cursor it loads once more, a transfer when
\* it unlocks.
LEMMA ReturnRefines ==
  ASSUME IInv, Blank, Shown, Shown', NEW t \in Threads, Return(t) \/ SeekReturn(t), Step(t)
  PROVE  Atomic!Return(t)
<1>1. /\ pc[t] \in {"done", "told"} /\ pc'[t] = "idle"
      /\ UNCHANGED <<data, size, path, cursor>>
  BY StepMoves DEF Return, SeekReturn, Leave, Storage!Destroy, storageVars, IInv, TypeOK
<1>2. UNCHANGED <<settledBytes, settledSize>>
  BY <1>1 DEF settledBytes, settledSize
<1>3. settledReply' = [settledReply EXCEPT ![t] = NoReply]
  <2>1. settledReply'[t] = NoReply
    BY <1>1 DEF Shown
  <2> QED BY <2>1, StepShows
<1>4. \A g \in Handles : Quiet(t, g) /\ Quiet(t, g)'
  BY <1>1 DEF Quiet, Seeking, Moving
<1>5. UNCHANGED settledCursor
  BY <1>1, <1>4, StepShows, CursorsKeep, AllCursorsKeep
<1> QED BY <1>2, <1>3, <1>5 DEF Atomic!Return

LEMMA StepRefines ==
  ASSUME IInv, IInv', SeeksAlone, Backing, Blank, CursorFollows, Shown, Shown',
         NEW t \in Threads, Step(t)
  PROVE  Atomic!Next \/ UNCHANGED Atomic!vars
<1>1. CASE Resize(t)
  BY <1>1, ResizeRefines DEF Atomic!Next
<1>2. CASE Copy(t)
  BY <1>2, CopyRefines DEF Atomic!Next
<1>3. CASE Advance(t)
  BY <1>3, AdvanceRefines, HiddenStep
<1>4. CASE SeekLoad(t)
  BY <1>4, SeekRefines DEF Atomic!Next
<1>5. CASE SeekStore(t)
  BY <1>5, StoreRefines
<1>6. CASE Return(t) \/ SeekReturn(t)
  BY <1>6, ReturnRefines DEF Atomic!Next
<1>7. CASE Begin(t) \/ Map(t) \/ Fail(t) \/ Fault(t) \/ Flush(t) \/ Throw(t)
  BY <1>7, HiddenStep
<1> QED BY <1>1, <1>2, <1>3, <1>4, <1>5, <1>6, <1>7 DEF Step

\* Opening a handle sets its cursor to 0, and may create an empty file.
LEMMA OpenRefines ==
  ASSUME IInv, Blank, Shown, Shown', NEW h \in Handles, Open(h)
  PROVE  Atomic!Next \/ UNCHANGED Atomic!vars
<1>1. /\ UNCHANGED <<view, pc, call, seen, data, reply>>
      /\ \A t \in Threads : pc[t] # "idle" => h # HandleOf(t)
      /\ \A g \in Handles \ {h} : cursor'[g] = cursor[g]
  BY OpenInv DEF Open, Drop, Create
<1>2. \A t \in Threads : Same(t) /\ settledReply'[t] = settledReply[t]
  <2>1. ASSUME NEW t \in Threads, pc[t] # "idle" PROVE HandleOf(t) \in Handles \ {h}
    BY <1>1, <2>1, CallTypes DEF IInv, InOrder, HandleOf
  <2> QED BY <1>1, <2>1, ReplyKeeps DEF Same
<1>3. UNCHANGED settledReply
  BY <1>2, AllRepliesKeep
<1>4. \A g \in Handles \ {h} : settledCursor'[g] = settledCursor[g]
  BY <1>1, <1>2, CursorKeeps
<1>5. CASE Drop(h)
  <2>1. UNCHANGED <<cursor, path, size>>
    BY <1>5 DEF Drop, Storage!DropFile
  <2>2. UNCHANGED <<settledBytes, settledSize>>
    BY <1>1, <2>1 DEF settledBytes, settledSize
  <2>3. UNCHANGED settledCursor
    BY <1>2, <2>1, CursorKeeps, AllCursorsKeep
  <2> QED BY <1>3, <2>2, <2>3 DEF Atomic!vars
<1>6. ASSUME NEW access \in AccessModes, Create(h, access) PROVE Atomic!Open(h)
  <2>1. /\ cursor' = [cursor EXCEPT ![h] = 0]
        /\ \/ path # NoInode /\ UNCHANGED <<path, size>>
           \/ /\ path = NoInode
              /\ \E i \in Inodes : path' = i /\ size' = [size EXCEPT ![i] = 0]
    BY <1>6 DEF Create, Storage!Create
  <2>2. UNCHANGED <<settledBytes, settledSize>>
    <3>1. CASE path # NoInode
      BY <1>1, <2>1, <3>1 DEF settledBytes, settledSize
    <3>2. CASE path = NoInode
      <4>1. PICK i \in Inodes : path' = i /\ size' = [size EXCEPT ![i] = 0]
        BY <2>1, <3>2
      <4>2. i # NoInode /\ path' # NoInode
        BY <4>1, SentinelAssumption
      <4>3. size[i] = 0 /\ \A p \in Positions : p >= 0 => data[i][p] = 0
        BY <3>2, <4>2 DEF Blank
      <4>4. data[i] \in [Positions -> Bytes]
        <5>1. data \in [Inodes -> [Positions -> Bytes]]
          BY DEF IInv, TypeOK
        <5> QED BY <5>1, <4>1
      <4>5. data[i] = [p \in Positions |-> 0]
        <5>1. \A p \in Positions : p >= 0
          BY DEF Positions
        <5>2. data[i] = [p \in Positions |-> data[i][p]]
          BY <4>4
        <5> QED BY <4>3, <5>1, <5>2
      <4>6. size'[i] = 0
        BY <4>1 DEF IInv, TypeOK, Storage!TypeOK
      <4> QED BY <1>1, <3>2, <4>1, <4>2, <4>5, <4>6 DEF settledBytes, settledSize
    <3> QED BY <3>1, <3>2
  <2>3. settledCursor'[h] = 0
    <3>1. \A t \in Threads : Quiet(t, h)'
      BY <1>1 DEF Quiet, Seeking, Moving, HandleOf
    <3>2. settledCursor'[h] = cursor'[h]
      BY <3>1 DEF Shown, Quiet
    <3> QED BY <2>1, <3>2 DEF IInv, TypeOK
  <2>4. settledCursor' = [settledCursor EXCEPT ![h] = 0]
    BY <1>4, <2>3, OneCursorMoves
  <2> QED BY <1>3, <2>2, <2>4 DEF Atomic!Open
<1> QED BY <1>5, <1>6 DEF Open, Atomic!Next

LEMMA NextRefines ==
  ASSUME IInv, IInv', SeeksAlone, SeeksAlone', Backing, Blank, CursorFollows, [Next]_vars
  PROVE  [Atomic!Next]_(Atomic!vars)
<1>1. Shown /\ Shown'
  BY Shows, ShowsNext
<1>2. CASE UNCHANGED vars
  <2>1. UNCHANGED <<path, size, data, cursor, pc, call, view, seen, reply>>
    BY <1>2 DEF vars, storageVars
  <2>2. UNCHANGED <<settledBytes, settledSize>>
    BY <2>1 DEF settledBytes, settledSize
  <2>3. \A t \in Threads : Same(t)
    BY <2>1 DEF Same
  <2>4. \A h \in Handles : settledCursor'[h] = settledCursor[h]
    BY <1>1, <2>1, <2>3, CursorKeeps
  <2>5. \A t \in Threads : settledReply'[t] = settledReply[t]
    BY <1>1, <2>1, <2>3, ReplyKeeps
  <2> QED BY <1>1, <2>2, <2>4, <2>5, AllCursorsKeep, AllRepliesKeep DEF Atomic!vars
<1>3. ASSUME NEW t \in Threads, Invoke(t) PROVE UNCHANGED Atomic!vars
  <2>1. /\ UNCHANGED <<path, size, data, cursor, view, seen, reply>>
        /\ pc[t] = "idle" /\ pc'[t] = "enter"
        /\ \A u \in Threads \ {t} : pc'[u] = pc[u] /\ call'[u] = call[u]
    BY <1>3, InvokeInv DEF storageVars, Invoke
  <2>2. UNCHANGED <<settledBytes, settledSize>>
    BY <2>1 DEF settledBytes, settledSize
  <2>3. \A u \in Threads \ {t} : Same(u)
    BY <2>1 DEF Same
  <2>4. \A h \in Handles : Quiet(t, h) /\ Quiet(t, h)'
    BY <2>1 DEF Quiet, Seeking, Moving
  <2>5. UNCHANGED settledCursor
    BY <1>1, <2>1, <2>3, <2>4, CursorsKeep, AllCursorsKeep
  <2>6. settledReply'[t] = settledReply[t]
    BY <1>1, <2>1 DEF Shown
  <2>7. \A u \in Threads \ {t} : settledReply'[u] = settledReply[u]
    BY <1>1, <2>1, <2>3, ReplyKeeps
  <2>8. \A u \in Threads : settledReply'[u] = settledReply[u]
    BY <2>6, <2>7
  <2> QED BY <1>1, <2>2, <2>5, <2>8, AllRepliesKeep DEF Atomic!vars
<1>4. ASSUME NEW t \in Threads, Step(t) PROVE Atomic!Next \/ UNCHANGED Atomic!vars
  BY <1>1, <1>4, StepRefines
<1>5. ASSUME NEW h \in Handles, Open(h) PROVE Atomic!Next \/ UNCHANGED Atomic!vars
  BY <1>1, <1>5, OpenRefines
<1> QED BY <1>2, <1>3, <1>4, <1>5 DEF Next

LEMMA InitRefines == Init => Atomic!Init
<1> SUFFICES ASSUME Init PROVE Atomic!Init
  OBVIOUS
<1>1. /\ settledCursor = [h \in Handles |-> 0]
      /\ settledReply = [t \in Threads |-> NoReply]
  BY DEF Init, settledCursor, settledReply
<1>2. /\ path \in {NoInode} \cup Inodes /\ size \in [Inodes -> InitialSizes]
      /\ InitialSizes \subseteq 0 .. MaxFileSize
      /\ data \in [Inodes -> [Positions -> Bytes]]
      /\ \A i \in Inodes, p \in Positions : p >= size[i] => data[i][p] = 0
  BY SizeAssumption DEF Init, Storage!Init
<1>3. CASE path = NoInode
  <2>1. settledSize = 0 /\ settledBytes = [p \in Positions |-> 0]
    BY <1>3 DEF settledSize, settledBytes
  <2> QED BY <1>1, <2>1, ByteAssumption, SizeFacts DEF Atomic!Init, Atomic!Positions, Positions
<1>4. CASE path # NoInode
  <2>1. path \in Inodes /\ settledSize = size[path] /\ settledBytes = data[path]
    BY <1>2, <1>4 DEF settledSize, settledBytes
  <2> QED BY <1>1, <1>2, <2>1 DEF Atomic!Init, Atomic!Positions, Positions
<1> QED BY <1>3, <1>4

\* On writable handles threads cannot tell the platform file from one whose
\* transfers are single steps inside the file, as long as transfers that
\* truncate the file agree on its size and nobody calls anything else on a
\* handle while a seek is under way.
THEOREM AgreedTransfersAreAtomic ==
  ASSUME AllWritable
  PROVE  Spec /\ []Storage!GrowthAgreed /\ []SeeksAlone => ImplementsAtomicFile
<1>1. Init => Blank
  <2> SUFFICES ASSUME Init PROVE Blank
    OBVIOUS
  <2>1. \A h \in Handles : ~ file[h].owned
    BY DEF Init, Storage!Init, Storage!ClosedFile
  <2> QED BY <2>1 DEF Init, Storage!Init, Blank
<1>2. IInv /\ Backing /\ Blank /\ [Next]_vars => Blank'
  BY BlankStep
<1>3. /\ IInv /\ IInv' /\ SeeksAlone /\ SeeksAlone' /\ Backing /\ Blank /\ CursorFollows
      /\ [Next]_vars
      => [Atomic!Next]_(Atomic!vars)
  BY NextRefines
<1> QED
  BY <1>1, <1>2, <1>3, InitRefines, Inductive, BackingAlways, AloneIsApart, CursorStaysInFile, PTL
  DEF Spec, ImplementsAtomicFile, Atomic!Spec

\* Both hold in a single thread, and on one handle that threads share without
\* seek, if the calls of read_from agree on how far the file reaches.
THEOREM TransfersAreAtomic ==
  ASSUME AllWritable,
         \/ \A t, u \in Threads : t = u
         \/ (\A g, h \in Handles : g = h) /\ ReadersAgree /\ (\A c \in Calls : c.op # "seek")
  PROVE  Spec => ImplementsAtomicFile
<1>1. Spec => []Storage!GrowthAgreed
  BY OneThreadAgrees, OneHandleAgrees
<1>2. IInv => SeeksAlone
  BY DEF IInv, InOrder, SeeksAlone
<1> QED BY <1>1, <1>2, Inductive, AgreedTransfersAreAtomic, PTL
=============================================================================
