--------------------------- MODULE MappedFileProofs ---------------------------
(***************************************************************************)
(* The lifetime of file handles and mappings for any number of File and    *)
(* View objects and callers, any sizes, offsets and page size, and however *)
(* often the path is removed and made again.                               *)
(*                                                                         *)
(* HandleLifetime alone is not inductive: get_view points a free View      *)
(* object at a file, which would take a reference from another file if     *)
(* that object still held one.  FreeViews rules this out.                  *)
(*                                                                         *)
(* That a view lies in its file, and that opening one never shortens it,   *)
(* needs GrowthAgreed: callers that are to truncate the file at the same   *)
(* time agree on its size.  Backing is the invariant under it; a single    *)
(* caller at a time agrees with itself.                                    *)
(***************************************************************************)
EXTENDS MappedFile, ViewArithProofs, FiniteSetTheorems

\* A View object that is not in use refers to no file.
FreeViews == \A v \in Views : view[v].stage = "free" => view[v].file = NoFile

IInv == TypeOK /\ HandleLifetime /\ FreeViews

\* Sizes and the numbers worked out from them are words or page counts.
LEMMA SizeFacts ==
  /\ HalfWord \in Nat \ {0} /\ Word \in Nat /\ MaxFileSize \in Nat
  /\ 0 .. MaxFileSize \subseteq Sizes /\ 0 \in Sizes /\ Sizes \subseteq Nat
  /\ \A o \in OffsetArgs : AsSize(o) \in Sizes
BY HalfWordAssumption, SizeAssumption, ArgumentAssumption DEF Word, Sizes, Offsets, AsSize

LEMMA WordSum ==
  ASSUME NEW a \in Sizes, NEW b \in Sizes
  PROVE  Plus(a, b) \in Sizes /\ Minus(a, b) \in Sizes
BY HalfWordAssumption DEF Plus, Minus, Sizes, Word

LEMMA EndIsSize ==
  ASSUME NEW o \in Sizes, NEW l \in Sizes, NEW s \in Sizes
  PROVE  mapping_end(o, l, s) \in Sizes
<1>1. mapping_size(o, l, s) \in Sizes
  BY WordSum DEF mapping_size
<1> QED BY <1>1, WordSum DEF mapping_end

\* What a well-typed view makes of its fields.
LEMMA ViewNumbers ==
  ASSUME TypeOK, NEW v \in Views
  PROVE  /\ MappingEnd(v) \in Nat
         /\ MapLength(v) \in Nat /\ PagesOf(MapLength(v)) \in Nat
         /\ ReleaseLength(v) \in Nat /\ PagesOf(ReleaseLength(v)) \in Nat
<1> DEFINE o == view[v].file_offset
           l == view[v].view_length
           s == view[v].file_size
<1>1. o \in Sizes /\ l \in Sizes /\ s \in Sizes
  BY DEF TypeOK
<1>2. mapping_size(o, l, s) \in Sizes
  BY <1>1, WordSum DEF mapping_size
<1>3. page_delta(o) \in Sizes
  <2>1. page_delta(o) = o - real_offset(o) /\ real_offset(o) \in 0 .. o
    BY <1>1, RealOffset
  <2>2. o \in Nat /\ o < Word
    BY <1>1, SizeFacts DEF Sizes
  <2> QED BY <2>1, <2>2, SizeFacts DEF Sizes
<1>4. mapping_end(o, l, s) \in Sizes
  BY <1>1, EndIsSize
<1>5. map_length(o, l, s) \in Sizes
  BY <1>2, <1>3, WordSum DEF map_length
<1>6. release_length(o, l) \in Sizes
  BY <1>1, <1>3, WordSum DEF release_length
<1>7. \A n \in Sizes : n \in Nat /\ PagesOf(n) \in Nat
  BY SizeFacts, PagesHold
<1> QED BY <1>4, <1>5, <1>6, <1>7 DEF MappingEnd, MapLength, ReleaseLength

LEMMA InitInv == Init => IInv
<1> SUFFICES ASSUME Init PROVE IInv
  OBVIOUS
<1>1. TypeOK
  BY SizeFacts, SizeAssumption DEF Init, TypeOK, ClosedFile, FreeView, FileAccess
<1>2. HandleLifetime /\ FreeViews
  BY SentinelAssumption DEF Init, HandleLifetime, FreeViews, IsOpen, ClosedFile, FreeView
<1> QED BY <1>1, <1>2 DEF IInv

\* A view that lets its file go leaves the handles in order.
LEMMA ReleaseInv ==
  ASSUME IInv, NEW v \in Views, view[v].stage # "free", Release(v),
         UNCHANGED <<path, size>>, pages' \in [Views -> Nat]
  PROVE  IInv'
<1> DEFINE f == view[v].file
<1>1. f \in Files /\ IsOpen(f)
  BY DEF IInv, HandleLifetime
<1>2. view' = [view EXCEPT ![v] = FreeView]
  BY DEF Release
<1>3. CASE file[f].owned \/ \E w \in Views \ {v} : view[w].file = f
  <2>1. file' = file
    BY <1>3 DEF Release
  <2>2. TypeOK'
    BY <1>2, <2>1, SizeFacts DEF IInv, TypeOK, FreeView
  <2>3. FreeViews'
    BY <1>2 DEF IInv, TypeOK, FreeViews, FreeView
  <2>4. HandleLifetime'
    BY <1>1, <1>2, <1>3, <2>1, SentinelAssumption
       DEF IInv, TypeOK, HandleLifetime, IsOpen, FreeView
  <2> QED BY <2>2, <2>3, <2>4 DEF IInv
<1>4. CASE ~ (file[f].owned \/ \E w \in Views \ {v} : view[w].file = f)
  <2>1. file' = [file EXCEPT ![f] = ClosedFile]
    BY <1>4 DEF Release
  <2>2. TypeOK'
    BY <1>2, <2>1, SizeFacts DEF IInv, TypeOK, FreeView, ClosedFile, FileAccess
  <2>3. FreeViews'
    BY <1>2 DEF IInv, TypeOK, FreeViews, FreeView
  <2>4. HandleLifetime'
    BY <1>1, <1>2, <1>4, <2>1, SentinelAssumption
       DEF IInv, TypeOK, HandleLifetime, IsOpen, FreeView, ClosedFile
  <2> QED BY <2>2, <2>3, <2>4 DEF IInv
<1> QED BY <1>3, <1>4

\* A view that goes on to its next stage keeps its reference to the file.
LEMMA AdvanceInv ==
  ASSUME IInv, NEW v \in Views, view[v].stage # "free",
         NEW stage \in {"sized", "grown", "mapped"},
         view' = [view EXCEPT ![v].stage = stage], UNCHANGED <<path, file>>,
         size' \in [Inodes -> 0 .. MaxFileSize], pages' \in [Views -> Nat]
  PROVE  IInv'
<1>1. TypeOK'
  BY DEF IInv, TypeOK
<1>2. \A w \in Views : /\ view'[w].file = view[w].file
                       /\ view'[w].stage = "free" <=> view[w].stage = "free"
  BY DEF IInv, TypeOK
<1>3. HandleLifetime' /\ FreeViews'
  BY <1>2 DEF IInv, HandleLifetime, FreeViews, IsOpen
<1> QED BY <1>1, <1>3 DEF IInv

LEMMA StepInv == IInv /\ [Next]_vars => IInv'
<1> SUFFICES ASSUME IInv, [Next]_vars PROVE IInv'
  OBVIOUS
<1> USE DEF IInv
<1>1. ASSUME NEW f \in Files, NEW access \in AccessModes, Create(f, access) PROVE IInv'
  <2>1. /\ path' \in Inodes
        /\ size' \in [Inodes -> 0 .. MaxFileSize]
    BY <1>1, SizeFacts, SizeAssumption DEF Create, TypeOK
  <2>2. /\ ~ IsOpen(f) /\ UNCHANGED <<view, pages>>
        /\ file' = [file EXCEPT ![f] = [inode |-> path', access |-> access, owned |-> TRUE]]
    BY <1>1 DEF Create
  <2>3. TypeOK'
    BY <2>1, <2>2, AccessAssumption DEF TypeOK
  <2>4. HandleLifetime' /\ FreeViews'
    BY <2>1, <2>2, SentinelAssumption DEF TypeOK, HandleLifetime, FreeViews, IsOpen
  <2> QED BY <2>3, <2>4
<1>2. ASSUME NEW f \in Files, DropFile(f) PROVE IInv'
  <2>1. file[f].owned /\ UNCHANGED <<path, size, view, pages>>
    BY <1>2 DEF DropFile
  <2>2. CASE \E v \in Views : view[v].file = f
    <3>1. file' = [file EXCEPT ![f].owned = FALSE]
      BY <1>2, <2>2 DEF DropFile
    <3>2. TypeOK'
      BY <2>1, <3>1 DEF TypeOK
    <3>3. HandleLifetime' /\ FreeViews'
      BY <2>1, <2>2, <3>1 DEF TypeOK, HandleLifetime, FreeViews, IsOpen
    <3> QED BY <3>2, <3>3
  <2>3. CASE ~ \E v \in Views : view[v].file = f
    <3>1. file' = [file EXCEPT ![f] = ClosedFile]
      BY <1>2, <2>3 DEF DropFile
    <3>2. TypeOK'
      BY <2>1, <3>1 DEF TypeOK, ClosedFile, FileAccess
    <3>3. HandleLifetime' /\ FreeViews'
      BY <2>1, <2>3, <3>1, SentinelAssumption
         DEF TypeOK, HandleLifetime, FreeViews, IsOpen, ClosedFile
    <3> QED BY <3>2, <3>3
  <2> QED BY <2>2, <2>3
<1>3. CASE Vanish
  BY <1>3 DEF Vanish, TypeOK, HandleLifetime, FreeViews, IsOpen
<1>4. ASSUME NEW f \in Files, NEW v \in Views, OpenView(f, v) PROVE IInv'
  <2>1. PICK offset \in OffsetArgs, length \in LengthArgs : GetView(f, v, offset, length)
    BY <1>4 DEF OpenView
  <2>2. /\ file[f].owned /\ view[v].stage = "free" /\ path # NoInode
        /\ UNCHANGED <<path, size, file, pages>>
        /\ view' = [view EXCEPT ![v] =
                      [stage |-> "sized", file |-> f, file_offset |-> AsSize(offset),
                       view_length |-> length, file_size |-> size[path]]]
    BY <2>1 DEF GetView
  <2>3. AsSize(offset) \in Sizes /\ length \in Sizes /\ size[path] \in Sizes
    BY <2>2, SizeFacts, ArgumentAssumption DEF TypeOK
  <2>4. TypeOK'
    BY <2>2, <2>3 DEF TypeOK
  <2>5. HandleLifetime' /\ FreeViews'
    BY <2>2, SentinelAssumption DEF TypeOK, HandleLifetime, FreeViews, IsOpen
  <2> QED BY <2>4, <2>5
<1>5. ASSUME NEW v \in Views, Grow(v) PROVE IInv'
  <2>1. size' \in [Inodes -> 0 .. MaxFileSize]
    <3>1. MappingEnd(v) \in 0 .. MaxFileSize
      BY <1>5, ViewNumbers, SizeFacts DEF Grow
    <3> QED BY <1>5, <3>1 DEF Grow, TypeOK
  <2> QED BY <1>5, <2>1, AdvanceInv DEF Grow, TypeOK
<1>6. ASSUME NEW v \in Views, GrowFails(v) PROVE IInv'
  BY <1>6, ReleaseInv DEF GrowFails, TypeOK
<1>7. ASSUME NEW v \in Views, KeepSize(v) PROVE IInv'
  BY <1>7, AdvanceInv DEF KeepSize, TypeOK
<1>8. ASSUME NEW v \in Views, Map(v) PROVE IInv'
  <2>1. pages' \in [Views -> Nat]
    BY <1>8, ViewNumbers DEF Map, TypeOK
  <2> QED BY <1>8, <2>1, AdvanceInv DEF Map, TypeOK
<1>9. ASSUME NEW v \in Views, MapFails(v) PROVE IInv'
  BY <1>9, ReleaseInv DEF MapFails, TypeOK
<1>10. ASSUME NEW v \in Views, Destroy(v) PROVE IInv'
  <2>1. pages' \in [Views -> Nat]
    <3> DEFINE released == PagesOf(ReleaseLength(v))
    <3>1. pages' = [pages EXCEPT ![v] = IF released >= pages[v] THEN 0 ELSE pages[v] - released]
      BY <1>10 DEF Destroy
    <3>2. released \in Nat
      BY ViewNumbers
    <3> HIDE DEF released
    <3>3. (IF released >= pages[v] THEN 0 ELSE pages[v] - released) \in Nat
      BY <3>2 DEF TypeOK
    <3> QED BY <3>1, <3>3 DEF TypeOK
  <2> QED BY <1>10, <2>1, ReleaseInv DEF Destroy
<1>11. CASE UNCHANGED vars
  BY <1>11 DEF vars, TypeOK, HandleLifetime, FreeViews, IsOpen
<1> QED
  BY <1>1, <1>2, <1>3, <1>4, <1>5, <1>6, <1>7, <1>8, <1>9, <1>10, <1>11
     DEF Next, FileStep, ViewStep

\* ... so the invariant holds always.
LEMMA Inductive == Spec => []IInv
<1> QED BY InitInv, StepInv, PTL DEF Spec

\* Files stay within what ftruncate grants and views keep words in their
\* fields, whatever offsets and lengths get_view is given.
THEOREM TypeCorrect == Spec => []TypeOK
<1>1. IInv => TypeOK
  BY DEF IInv
<1> QED BY Inductive, <1>1, PTL

\* However callers open views, drop files and tear views down, a handle is
\* open exactly while something refers to it: no view outlives the handle its
\* mapping was made from, and no handle is left open.
THEOREM HandlesLiveAsLongAsNeeded == Spec => []HandleLifetime
<1>1. IInv => HandleLifetime
  BY DEF IInv
<1> QED BY Inductive, <1>1, PTL

-----------------------------------------------------------------------------
(* The mappings themselves, when no caller asks for a length of zero: what *)
(* is unmapped of such a view says ZeroLengthIsNotReleased.                *)

\* A mapped view has the pages mmap was asked for; any other view has none.
Mappings ==
  \A v \in Views :
    /\ view[v].stage # "free" => view[v].view_length # 0
    /\ pages[v] = IF view[v].stage = "mapped" THEN PagesOf(MapLength(v)) ELSE 0

\* The region ~View and flush work out is the one that was mapped.
LEMMA SameRegion ==
  ASSUME TypeOK, Mappings, NEW v \in Views, view[v].stage # "free"
  PROVE  ReleaseLength(v) = MapLength(v)
BY ReleaseMatchesMap DEF TypeOK, Mappings, ReleaseLength, MapLength

\* A view that is given up and has no pages left leaves the others alone.
LEMMA ReleaseMappings ==
  ASSUME TypeOK, Mappings, NEW v \in Views, Release(v),
         pages' = [pages EXCEPT ![v] = 0]
  PROVE  Mappings'
<1>1. view' = [view EXCEPT ![v] = FreeView]
  BY DEF Release
<1>2. view'[v].stage = "free" /\ pages'[v] = 0
  BY <1>1 DEF TypeOK, FreeView
<1>3. \A w \in Views \ {v} : view'[w] = view[w] /\ pages'[w] = pages[w]
  BY <1>1 DEF TypeOK
<1> QED BY <1>2, <1>3 DEF Mappings, MapLength

LEMMA MappingsStep ==
  ASSUME 0 \notin LengthArgs, TypeOK, Mappings, [Next]_vars
  PROVE  Mappings'
<1>1. ASSUME UNCHANGED <<view, pages>> PROVE Mappings'
  BY <1>1 DEF Mappings, MapLength
<1>2. ASSUME NEW f \in Files, NEW v \in Views, OpenView(f, v) PROVE Mappings'
  <2>1. PICK offset \in OffsetArgs, length \in LengthArgs : GetView(f, v, offset, length)
    BY <1>2 DEF OpenView
  <2>2. /\ pages[v] = 0 /\ UNCHANGED pages
        /\ view' = [view EXCEPT ![v] =
                      [stage |-> "sized", file |-> f, file_offset |-> AsSize(offset),
                       view_length |-> length, file_size |-> size[path]]]
    BY <1>2, <2>1 DEF OpenView, GetView
  <2>3. view'[v].stage = "sized" /\ view'[v].view_length # 0 /\ pages'[v] = 0
    BY <2>2 DEF TypeOK
  <2>4. \A w \in Views \ {v} : view'[w] = view[w] /\ pages'[w] = pages[w]
    BY <2>2 DEF TypeOK
  <2> QED BY <2>3, <2>4 DEF Mappings, MapLength
<1>3. ASSUME NEW v \in Views, Grow(v) \/ KeepSize(v) PROVE Mappings'
  <2>1. /\ view[v].stage = "sized" /\ UNCHANGED pages
        /\ view' = [view EXCEPT ![v].stage = "grown"]
    BY <1>3 DEF Grow, KeepSize
  <2>2. /\ view'[v].stage = "grown" /\ view'[v].view_length = view[v].view_length
        /\ pages'[v] = pages[v]
    BY <2>1 DEF TypeOK
  <2>3. \A w \in Views \ {v} : view'[w] = view[w] /\ pages'[w] = pages[w]
    BY <2>1 DEF TypeOK
  <2>4. pages[v] = 0 /\ view[v].view_length # 0
    BY <2>1 DEF Mappings
  <2> QED BY <2>2, <2>3, <2>4 DEF Mappings, MapLength
<1>4. ASSUME NEW v \in Views, GrowFails(v) \/ MapFails(v) PROVE Mappings'
  <2>1. view[v].stage \in {"sized", "grown"} /\ Release(v) /\ UNCHANGED pages
    BY <1>4 DEF GrowFails, MapFails
  <2>2. pages' = [pages EXCEPT ![v] = 0]
    BY <2>1 DEF TypeOK, Mappings
  <2> QED BY <2>1, <2>2, ReleaseMappings
<1>5. ASSUME NEW v \in Views, Map(v) PROVE Mappings'
  <2>1. /\ view[v].stage = "grown"
        /\ view' = [view EXCEPT ![v].stage = "mapped"]
        /\ pages' = [pages EXCEPT ![v] = PagesOf(MapLength(v))]
    BY <1>5 DEF Map
  <2>2. /\ view'[v].stage = "mapped" /\ view'[v].view_length = view[v].view_length
        /\ MapLength(v)' = MapLength(v) /\ pages'[v] = PagesOf(MapLength(v))
    BY <2>1 DEF TypeOK, MapLength
  <2>3. \A w \in Views \ {v} : view'[w] = view[w] /\ pages'[w] = pages[w]
    BY <2>1 DEF TypeOK
  <2>4. view[v].view_length # 0
    BY <2>1 DEF Mappings
  <2> QED BY <2>2, <2>3, <2>4 DEF Mappings, MapLength
<1>6. ASSUME NEW v \in Views, Destroy(v) PROVE Mappings'
  <2> DEFINE released == PagesOf(ReleaseLength(v))
  <2>1. /\ view[v].stage = "mapped" /\ Release(v)
        /\ pages' = [pages EXCEPT ![v] = IF released >= pages[v] THEN 0
                                         ELSE pages[v] - released]
    BY <1>6 DEF Destroy
  <2>2. released = pages[v] /\ released \in Nat
    BY <2>1, SameRegion, ViewNumbers DEF Mappings
  <2> HIDE DEF released
  <2>3. (IF released >= pages[v] THEN 0 ELSE pages[v] - released) = 0
    BY <2>2
  <2>4. pages' = [pages EXCEPT ![v] = 0]
    BY <2>1, <2>3
  <2> QED BY <2>1, <2>4, ReleaseMappings
<1>7. CASE UNCHANGED vars
  BY <1>1, <1>7 DEF vars
<1>8. CASE Vanish \/ \E f \in Files : FileStep(f)
  BY <1>1, <1>8 DEF Vanish, FileStep, Create, DropFile
<1> QED
  BY <1>2, <1>3, <1>4, <1>5, <1>6, <1>7, <1>8 DEF Next, ViewStep

LEMMA MappingsAlways ==
  ASSUME 0 \notin LengthArgs
  PROVE  Spec => []Mappings
<1>1. Init => Mappings
  BY DEF Init, Mappings, FreeView
<1>2. TypeOK /\ Mappings /\ [Next]_vars => Mappings'
  BY MappingsStep
<1> QED BY <1>1, <1>2, TypeCorrect, PTL DEF Spec

\* flush writes back and ~View unmaps exactly the pages of the view, wherever
\* it starts in its page.
THEOREM TeardownIsExact ==
  ASSUME 0 \notin LengthArgs
  PROVE  Spec => []TeardownExact
<1>1. TypeOK /\ Mappings => TeardownExact
  BY SameRegion DEF TeardownExact, Mappings
<1> QED BY <1>1, TypeCorrect, MappingsAlways, PTL

\* A view that is gone, or that never got past a failure of get_view, leaves
\* no page behind.
THEOREM NoMappingLeaks ==
  ASSUME 0 \notin LengthArgs
  PROVE  Spec => []NothingLeaks
<1>1. Mappings => NothingLeaks
  BY DEF Mappings, NothingLeaks
<1> QED BY <1>1, MappingsAlways, PTL

-----------------------------------------------------------------------------
(* What the mappings reach: the bytes of the file.  ftruncate may shorten a *)
(* file, so this needs that callers never truncate to different sizes at    *)
(* the same time, GrowthAgreed.  One caller at a time is enough for that.   *)

\* A view in use whose writable file is the one the path names.
InPath(v) ==
  view[v].stage # "free" /\ CanWrite(file[view[v].file].access) /\ InodeOf(v) = path

\* Until a view has grown its file, the file is not longer than it will be;
\* and it is never shorter than the view needs once it has, or need not.
Backing ==
  \A v \in Views :
    /\ InPath(v) => IF Growing(v) THEN size[path] <= MappingEnd(v) ELSE MappingEnd(v) <= size[path]
    /\ view[v].stage = "mapped" => Mappable(v)

\* A view in use holds its inode: the path comes to name another one only.
LEMMA PathMoves ==
  ASSUME IInv, NEW v \in Views, view[v].stage # "free"
  PROVE  /\ InodeOf(v) \in Inodes
         /\ Vanish => InodeOf(v) # path'
         /\ \A f \in Files, access \in AccessModes :
              Create(f, access) =>
                /\ InodeOf(v)' = InodeOf(v)
                /\ file'[view[v].file].access = file[view[v].file].access
                /\ (path' = path /\ UNCHANGED size) \/ InodeOf(v) # path'
<1>1. view[v].file \in Files /\ IsOpen(view[v].file) /\ InodeOf(v) \in Inodes
  BY DEF IInv, HandleLifetime, IsOpen, InodeOf, TypeOK
<1>2. Vanish => InodeOf(v) # path'
  BY <1>1, SentinelAssumption DEF Vanish
<1>3. ASSUME NEW f \in Files, NEW access \in AccessModes, Create(f, access)
      PROVE  /\ InodeOf(v)' = InodeOf(v)
             /\ file'[view[v].file].access = file[view[v].file].access
             /\ (path' = path /\ UNCHANGED size) \/ InodeOf(v) # path'
  <2>1. f # view[v].file /\ UNCHANGED view
    BY <1>1, <1>3 DEF Create
  <2>2. file'[view[v].file] = file[view[v].file]
    BY <1>1, <1>3, <2>1 DEF Create, IInv, TypeOK
  <2>3. (path' = path /\ UNCHANGED size) \/ InodeOf(v) # path'
    BY <1>1, <1>3 DEF Create, Unused, InodeOf
  <2> QED BY <2>1, <2>2, <2>3 DEF InodeOf
<1> QED BY <1>1, <1>2, <1>3

\* A view that does not change, of a file that does not, keeps its numbers.
LEMMA SameView ==
  ASSUME NEW v \in Views, view'[v] = view[v],
         view[v].stage # "free" => file'[view[v].file].inode = file[view[v].file].inode
                                   /\ file'[view[v].file].access = file[view[v].file].access
  PROVE  /\ MappingEnd(v)' = MappingEnd(v) /\ (Mappable(v)' <=> Mappable(v))
         /\ view[v].stage # "free" => InodeOf(v)' = InodeOf(v) /\ (MustGrow(v)' <=> MustGrow(v))
         /\ path' = path => (InPath(v)' <=> InPath(v)) /\ (Growing(v)' <=> Growing(v))
BY DEF MappingEnd, Mappable, MapLength, InodeOf, MustGrow, InPath, Growing

\* Backing of a view carries over when neither it nor the path changes and
\* the file only gets longer.
LEMMA SameBacking ==
  ASSUME Backing, NEW v \in Views, view'[v] = view[v], path' = path,
         view[v].stage # "free" => file'[view[v].file].inode = file[view[v].file].inode
                                   /\ file'[view[v].file].access = file[view[v].file].access,
         TypeOK, size'[path] = size[path]
  PROVE  /\ InPath(v)' => IF Growing(v)' THEN size'[path'] <= MappingEnd(v)'
                          ELSE MappingEnd(v)' <= size'[path']
         /\ view'[v].stage = "mapped" => Mappable(v)'
<1>1. /\ MappingEnd(v)' = MappingEnd(v) /\ (Mappable(v)' <=> Mappable(v))
      /\ (InPath(v)' <=> InPath(v)) /\ (Growing(v)' <=> Growing(v))
  BY SameView
<1> QED BY <1>1 DEF Backing

\* The view that is released is gone; the files of the others stay open.
LEMMA ReleaseKeeps ==
  ASSUME IInv, NEW v \in Views, Release(v)
  PROVE  /\ view'[v].stage = "free"
         /\ \A w \in Views \ {v} :
              /\ view'[w] = view[w]
              /\ view[w].stage # "free" => file'[view[w].file] = file[view[w].file]
<1>1. view' = [view EXCEPT ![v] = FreeView]
  BY DEF Release
<1>2. view'[v].stage = "free" /\ \A w \in Views \ {v} : view'[w] = view[w]
  BY <1>1 DEF IInv, TypeOK, FreeView
<1>3. ASSUME NEW w \in Views \ {v}, view[w].stage # "free"
      PROVE  file'[view[w].file] = file[view[w].file]
  <2>1. view[w].file \in Files
    BY <1>3 DEF IInv, HandleLifetime
  <2>2. \/ file' = file
        \/ view[w].file # view[v].file /\ file' = [file EXCEPT ![view[v].file] = ClosedFile]
    BY <1>3 DEF Release
  <2> QED BY <2>1, <2>2 DEF IInv, TypeOK
<1> QED BY <1>2, <1>3

LEMMA BackingStep ==
  ASSUME IInv, Backing, GrowthAgreed, [Next]_vars
  PROVE  Backing'
<1> DEFINE Backed(v) == /\ InPath(v) => IF Growing(v) THEN size[path] <= MappingEnd(v)
                                        ELSE MappingEnd(v) <= size[path]
                        /\ view[v].stage = "mapped" => Mappable(v)
<1>0. (\A v \in Views : Backed(v)') => Backing'
  BY DEF Backing
<1>1. TypeOK
  BY DEF IInv
<1>2. CASE Vanish
  <2>1. ASSUME NEW v \in Views PROVE Backed(v)'
    <3>1. UNCHANGED <<size, file, view, pages>>
      BY <1>2 DEF Vanish
    <3>2. ~ InPath(v)'
      BY <1>2, <3>1, PathMoves DEF InPath, InodeOf
    <3>3. Mappable(v)' <=> Mappable(v)
      BY <3>1, SameView
    <3> QED BY <3>1, <3>2, <3>3 DEF Backing
  <2> QED BY <1>0, <2>1
<1>3. ASSUME NEW f \in Files, NEW access \in AccessModes, Create(f, access) PROVE Backing'
  <2>1. ASSUME NEW v \in Views PROVE Backed(v)'
    <3>1. UNCHANGED view
      BY <1>3 DEF Create
    <3>2. CASE view[v].stage = "free"
      BY <3>1, <3>2 DEF InPath
    <3>3. CASE view[v].stage # "free"
      <4>1. /\ InodeOf(v)' = InodeOf(v)
            /\ file'[view[v].file].access = file[view[v].file].access
            /\ (path' = path /\ UNCHANGED size) \/ InodeOf(v) # path'
        BY <1>3, <3>3, PathMoves
      <4>2. file'[view[v].file].inode = file[view[v].file].inode
        BY <3>1, <4>1 DEF InodeOf
      <4>3. CASE path' = path /\ UNCHANGED size
        BY <1>1, <3>1, <4>1, <4>2, <4>3, SameBacking
      <4>4. CASE InodeOf(v) # path'
        <5>1. ~ InPath(v)'
          BY <4>1, <4>4 DEF InPath
        <5>2. Mappable(v)' <=> Mappable(v)
          BY <3>1, <4>1, <4>2, SameView
        <5> QED BY <3>1, <5>1, <5>2 DEF Backing
      <4> QED BY <4>1, <4>3, <4>4
    <3> QED BY <3>2, <3>3
  <2> QED BY <1>0, <2>1
<1>4. ASSUME NEW f \in Files, DropFile(f) PROVE Backing'
  <2>1. ASSUME NEW v \in Views PROVE Backed(v)'
    <3>1. UNCHANGED <<path, size, view>>
      BY <1>4 DEF DropFile
    <3>2. ASSUME view[v].stage # "free"
          PROVE  /\ file'[view[v].file].inode = file[view[v].file].inode
                 /\ file'[view[v].file].access = file[view[v].file].access
      <4>1. view[v].file \in Files
        BY <3>2 DEF IInv, HandleLifetime
      <4> QED BY <1>1, <1>4, <4>1 DEF DropFile, TypeOK
    <3> QED BY <1>1, <3>1, <3>2, SameBacking
  <2> QED BY <1>0, <2>1
<1>5. ASSUME NEW f \in Files, NEW v \in Views, OpenView(f, v) PROVE Backing'
  <2>1. PICK offset \in OffsetArgs, length \in LengthArgs : GetView(f, v, offset, length)
    BY <1>5 DEF OpenView
  <2>2. /\ UNCHANGED <<path, size, file>>
        /\ view' = [view EXCEPT ![v] =
                      [stage |-> "sized", file |-> f, file_offset |-> AsSize(offset),
                       view_length |-> length, file_size |-> size[path]]]
    BY <2>1 DEF GetView
  <2>3. ASSUME NEW w \in Views \ {v} PROVE Backed(w)'
    <3>1. view'[w] = view[w]
      BY <1>1, <2>2 DEF TypeOK
    <3> QED BY <1>1, <2>2, <3>1, SameBacking
  <2>4. Backed(v)'
    <3>1. view'[v].stage = "sized" /\ view'[v].file_size = size[path]
      BY <1>1, <2>2 DEF TypeOK
    <3>2. ASSUME InPath(v)' PROVE Growing(v)' <=> MappingEnd(v)' > size[path]
      BY <3>1, <3>2 DEF InPath, Growing, MustGrow
    <3>3. ASSUME InPath(v)' PROVE size[path] \in Nat /\ MappingEnd(v)' \in Nat
      <4>1. path \in Inodes /\ size[path] \in Nat
        BY <1>1, <2>1, SizeFacts DEF GetView, TypeOK
      <4>2. /\ view'[v].file_offset \in Sizes /\ view'[v].view_length \in Sizes
            /\ view'[v].file_size \in Sizes
        BY StepInv DEF IInv, TypeOK
      <4>3. MappingEnd(v)' \in Nat
        BY <4>2, EndIsSize, SizeFacts DEF MappingEnd
      <4> QED BY <4>1, <4>3
    <3> QED BY <2>2, <3>1, <3>2, <3>3
  <2> QED BY <1>0, <2>3, <2>4
<1>6. ASSUME NEW v \in Views, Grow(v) PROVE Backing'
  <2>1. /\ view[v].stage = "sized" /\ MustGrow(v)
        /\ size' = [size EXCEPT ![InodeOf(v)] = MappingEnd(v)]
        /\ view' = [view EXCEPT ![v].stage = "grown"]
        /\ UNCHANGED <<path, file>>
    BY <1>6 DEF Grow
  <2>2. InodeOf(v) \in Inodes /\ MappingEnd(v) \in Nat
    BY <1>1, <2>1, PathMoves, ViewNumbers
  <2>3. ASSUME NEW w \in Views \ {v} PROVE Backed(w)'
    <3>1. view'[w] = view[w]
      BY <1>1, <2>1 DEF TypeOK
    <3>2. CASE InodeOf(v) # path
      <4>1. size'[path] = size[path]
        BY <1>1, <2>1, <3>2 DEF TypeOK
      <4> QED BY <1>1, <2>1, <3>1, <4>1, SameBacking
    <3>3. CASE InodeOf(v) = path
      <4>1. size'[path] = MappingEnd(v) /\ size[path] \in Nat
        BY <1>1, <2>1, <2>2, <3>3, SizeFacts DEF TypeOK
      <4>2. Growing(v) /\ InPath(v)
        BY <2>1, <3>3 DEF Growing, InPath, MustGrow
      <4>3. size[path] <= MappingEnd(v)
        BY <4>2 DEF Backing
      <4>4. /\ MappingEnd(w)' = MappingEnd(w) /\ (Mappable(w)' <=> Mappable(w))
            /\ (InPath(w)' <=> InPath(w)) /\ (Growing(w)' <=> Growing(w))
        BY <2>1, <3>1, SameView
      <4>5. Growing(w) => MappingEnd(w) = MappingEnd(v)
        BY <4>2 DEF GrowthAgreed
      <4>6. MappingEnd(w) \in Nat
        BY <1>1, ViewNumbers
      <4>7. InPath(w) /\ ~ Growing(w) => MappingEnd(w) <= size[path]
        BY DEF Backing
      <4>8. InPath(w)' => IF Growing(w)' THEN size'[path] <= MappingEnd(w)'
                          ELSE MappingEnd(w)' <= size'[path]
        BY <2>2, <4>1, <4>3, <4>4, <4>5, <4>6, <4>7
      <4> QED BY <2>1, <3>1, <4>4, <4>8 DEF Backing
    <3> QED BY <3>2, <3>3
  <2>4. Backed(v)'
    <3>1. /\ view'[v].stage = "grown" /\ ~ Growing(v)'
          /\ MappingEnd(v)' = MappingEnd(v) /\ InodeOf(v)' = InodeOf(v)
      BY <1>1, <2>1 DEF TypeOK, Growing, MappingEnd, InodeOf
    <3>2. InodeOf(v) = path => size'[path] = MappingEnd(v)
      BY <1>1, <2>1, <2>2 DEF TypeOK
    <3> QED BY <2>1, <2>2, <3>1, <3>2 DEF InPath
  <2> QED BY <1>0, <2>3, <2>4
<1>7. ASSUME NEW v \in Views, KeepSize(v) \/ Map(v) PROVE Backing'
  <2> DEFINE stage == IF KeepSize(v) THEN "grown" ELSE "mapped"
  <2>1. /\ view[v].stage \in {"sized", "grown"} /\ ~ Growing(v) /\ stage \in {"grown", "mapped"}
        /\ view' = [view EXCEPT ![v].stage = stage]
        /\ UNCHANGED <<path, size, file>>
        /\ stage = "mapped" => Mappable(v)
    BY <1>7 DEF KeepSize, Map, Growing
  <2> HIDE DEF stage
  <2>2. ASSUME NEW w \in Views \ {v} PROVE Backed(w)'
    <3>1. view'[w] = view[w]
      BY <1>1, <2>1 DEF TypeOK
    <3> QED BY <1>1, <2>1, <3>1, SameBacking
  <2>3. Backed(v)'
    <3>1. /\ view'[v].stage = stage /\ ~ Growing(v)'
          /\ MappingEnd(v)' = MappingEnd(v) /\ (Mappable(v)' <=> Mappable(v))
          /\ InPath(v)' <=> InPath(v)
      BY <1>1, <2>1 DEF TypeOK, Growing, MappingEnd, Mappable, MapLength, InodeOf, InPath
    <3> QED BY <2>1, <3>1 DEF Backing
  <2> QED BY <1>0, <2>2, <2>3
<1>8. ASSUME NEW v \in Views, Release(v), UNCHANGED <<path, size>> PROVE Backing'
  <2>1. ASSUME NEW w \in Views \ {v} PROVE Backed(w)'
    BY <1>1, <1>8, ReleaseKeeps, SameBacking
  <2>2. Backed(v)'
    BY <1>8, ReleaseKeeps DEF InPath
  <2> QED BY <1>0, <2>1, <2>2
<1>9. ASSUME NEW v \in Views, GrowFails(v) \/ MapFails(v) \/ Destroy(v) PROVE Backing'
  BY <1>8, <1>9 DEF GrowFails, MapFails, Destroy
<1>10. CASE UNCHANGED vars
  <2>1. ASSUME NEW v \in Views PROVE Backed(v)'
    BY <1>1, <1>10, SameBacking DEF vars
  <2> QED BY <1>0, <2>1
<1> QED
  BY <1>2, <1>3, <1>4, <1>5, <1>6, <1>7, <1>9, <1>10 DEF Next, FileStep, ViewStep

LEMMA BackingAlways == Spec /\ []GrowthAgreed => []Backing
<1>1. Init => Backing
  BY DEF Init, Backing, FreeView, InPath
<1>2. IInv /\ Backing /\ GrowthAgreed /\ [Next]_vars => Backing'
  BY BackingStep
<1> QED BY <1>1, <1>2, Inductive, PTL DEF Spec

\* A view in use has a length somebody asked for.
LengthsAsked ==
  \A v \in Views : view[v].stage # "free" => view[v].view_length \in LengthArgs

LEMMA LengthsAskedAlways == Spec => []LengthsAsked
<1>1. Init => LengthsAsked
  BY DEF Init, LengthsAsked, FreeView
<1>2. ASSUME IInv, LengthsAsked, [Next]_vars PROVE LengthsAsked'
  <2>1. TypeOK
    BY <1>2 DEF IInv
  <2>2. ASSUME UNCHANGED view PROVE LengthsAsked'
    BY <1>2, <2>2 DEF LengthsAsked
  <2>3. ASSUME NEW f \in Files, NEW v \in Views, OpenView(f, v) PROVE LengthsAsked'
    <3>1. PICK offset \in OffsetArgs, length \in LengthArgs : GetView(f, v, offset, length)
      BY <2>3 DEF OpenView
    <3>2. /\ view'[v].view_length = length
          /\ \A w \in Views \ {v} : view'[w] = view[w]
      BY <2>1, <3>1 DEF GetView, TypeOK
    <3> QED BY <1>2, <3>2 DEF LengthsAsked
  <2>4. ASSUME NEW v \in Views, Grow(v) \/ KeepSize(v) \/ Map(v) PROVE LengthsAsked'
    <3>1. /\ view[v].stage # "free" /\ view'[v].view_length = view[v].view_length
          /\ \A w \in Views \ {v} : view'[w] = view[w]
      BY <2>1, <2>4 DEF Grow, KeepSize, Map, TypeOK
    <3> QED BY <1>2, <3>1 DEF LengthsAsked
  <2>5. ASSUME NEW v \in Views, GrowFails(v) \/ MapFails(v) \/ Destroy(v) PROVE LengthsAsked'
    <3>1. Release(v)
      BY <2>5 DEF GrowFails, MapFails, Destroy
    <3> QED BY <1>2, <3>1, ReleaseKeeps DEF LengthsAsked
  <2> QED
    BY <1>2, <2>2, <2>3, <2>4, <2>5
       DEF Next, vars, Vanish, FileStep, Create, DropFile, ViewStep
<1> QED BY <1>1, <1>2, Inductive, PTL DEF Spec

\* A view that could be mapped ends where open_mapping thinks it does.
LEMMA MappableEnd ==
  ASSUME TypeOK, NEW v \in Views, Mappable(v),
         view[v].view_length # 0, view[v].view_length + Granularity <= Word
  PROVE  MappingEnd(v) = view[v].file_offset + view[v].view_length
<1> DEFINE o == view[v].file_offset
           l == view[v].view_length
<1>1. o \in Sizes /\ l \in Sizes
  BY DEF TypeOK
<1>2. /\ real_offset(o) \in Nat /\ page_delta(o) = o - real_offset(o)
      /\ page_delta(o) \in 0 .. Granularity - 1
  BY <1>1, RealOffset
<1>3. o \in Nat /\ l \in Nat /\ Word = 2 * HalfWord /\ HalfWord \in Nat
  BY <1>1, SizeFacts DEF Word
<1>4. Plus(page_delta(o), l) < HalfWord /\ real_offset(o) < HalfWord
  <2>1. MapLength(v) = Plus(page_delta(o), l)
    BY DEF MapLength, map_length, mapping_size
  <2> HIDE DEF o, l
  <2> QED BY <1>3, <2>1 DEF Mappable, o
<1>5. MappingEnd(v) = Plus(o, l)
  BY DEF MappingEnd, mapping_end, mapping_size
<1>6. l + Granularity <= Word
  OBVIOUS
<1> HIDE DEF o, l
<1>7. Plus(page_delta(o), l) = page_delta(o) + l
  BY <1>2, <1>3, <1>6, GranularityAssumption DEF Plus
<1>8. o + l < Word
  BY <1>2, <1>3, <1>4, <1>7
<1> QED BY <1>5, <1>8 DEF Plus, o, l

LEMMA BackedViews ==
  ASSUME \A length \in LengthArgs : length + Granularity <= Word,
         IInv, Backing, LengthsAsked
  PROVE  WritableViewsBacked
<1> SUFFICES ASSUME NEW v \in Views, view[v].stage = "mapped",
                    CanWrite(file[view[v].file].access), InodeOf(v) = path
             PROVE  view[v].file_offset .. view[v].file_offset + view[v].view_length - 1
                      \subseteq 0 .. size[path] - 1
  BY DEF WritableViewsBacked
<1>1. TypeOK /\ view[v].file_offset \in Nat /\ view[v].view_length \in Nat
  BY SizeFacts DEF IInv, TypeOK
<1>2. CASE view[v].view_length = 0
  BY <1>1, <1>2
<1>3. CASE view[v].view_length # 0
  <2>1. InPath(v) /\ ~ Growing(v) /\ Mappable(v)
    BY DEF InPath, Growing, Backing
  <2>2. MappingEnd(v) <= size[path]
    BY <2>1 DEF Backing
  <2>3. view[v].view_length + Granularity <= Word
    BY DEF LengthsAsked
  <2>4. MappingEnd(v) = view[v].file_offset + view[v].view_length
    BY <1>1, <1>3, <2>1, <2>3, MappableEnd
  <2>5. size[path] \in Nat
    <3>1. path \in Inodes
      BY PathMoves
    <3> QED BY <1>1, <3>1, SizeFacts DEF TypeOK
  <2> QED BY <1>1, <2>2, <2>4, <2>5
<1> QED BY <1>2, <1>3

\* As long as callers that truncate at the same time agree on the size, no
\* view of a writable file loses a byte to another, as long as nobody asks for
\* all but the last bytes of the address space (page_delta + view_length would
\* wrap, and the view be longer than its mapping).
THEOREM AgreedViewsStayBacked ==
  ASSUME \A length \in LengthArgs : length + Granularity <= Word
  PROVE  Spec /\ []GrowthAgreed => []WritableViewsBacked
<1>1. IInv /\ Backing /\ LengthsAsked => WritableViewsBacked
  BY BackedViews
<1> QED BY <1>1, Inductive, BackingAlways, LengthsAskedAlways, PTL

\* Under the same condition opening a view never shortens the file, whatever
\* is asked for.
THEOREM AgreedFilesOnlyGrow == Spec /\ []GrowthAgreed => FilesOnlyGrow
<1>1. ASSUME IInv, Backing, [Next]_vars
      PROVE  \A v \in Views, i \in Inodes : view'[v] # view[v] /\ path = i => size'[i] >= size[i]
  <2> SUFFICES ASSUME NEW v \in Views, NEW i \in Inodes, view'[v] # view[v], path = i
               PROVE  size'[i] >= size[i]
    OBVIOUS
  <2>1. TypeOK /\ size[i] \in Nat
    BY <1>1, SizeFacts DEF IInv, TypeOK
  <2>2. CASE UNCHANGED size
    BY <2>1, <2>2
  <2>3. ASSUME NEW w \in Views, Grow(w) PROVE size'[i] >= size[i]
    <3>1. /\ view[w].stage = "sized" /\ MustGrow(w)
          /\ size' = [size EXCEPT ![InodeOf(w)] = MappingEnd(w)]
      BY <2>3 DEF Grow
    <3>2. CASE InodeOf(w) = i
      <4>1. Growing(w) /\ InPath(w)
        BY <3>1, <3>2 DEF Growing, InPath, MustGrow
      <4>2. size[i] <= MappingEnd(w) /\ MappingEnd(w) \in Nat
        BY <1>1, <2>1, <4>1, ViewNumbers DEF Backing
      <4> QED BY <2>1, <3>1, <3>2, <4>2 DEF TypeOK
    <3>3. CASE InodeOf(w) # i
      BY <2>1, <3>1, <3>3 DEF TypeOK
    <3> QED BY <3>2, <3>3
  <2>4. ~ (\E f \in Files : FileStep(f)) /\ ~ Vanish
    BY DEF FileStep, Create, DropFile, Vanish
  <2> QED
    BY <1>1, <2>2, <2>3, <2>4
       DEF Next, vars, ViewStep, OpenView, GetView, GrowFails, KeepSize, Map, MapFails, Destroy
<1> QED BY <1>1, Inductive, BackingAlways, PTL DEF Spec, FilesOnlyGrow

\* With one caller inside get_view at a time there is nobody to disagree with.
LEMMA OneOpening ==
  ASSUME MaxOpening <= 1
  PROVE  Spec => []GrowthAgreed
<1> DEFINE Alone == \A v, w \in Views : IsOpening(v) /\ IsOpening(w) => v = w
<1>1. Init => Alone
  BY DEF Init, FreeView, IsOpening
<1>2. ASSUME IInv, Alone, [Next]_vars PROVE Alone'
  <2>1. TypeOK
    BY <1>2 DEF IInv
  <2>2. ASSUME \A v \in Views : IsOpening(v)' => IsOpening(v) PROVE Alone'
    BY <1>2, <2>2
  <2>3. ASSUME NEW f \in Files, NEW v \in Views, OpenView(f, v) PROVE Alone'
    <3>1. ASSUME NEW w \in Views, IsOpening(w) PROVE FALSE
      <4>1. {u \in Views : IsOpening(u)} = {w}
        BY <1>2, <3>1
      <4>2. Cardinality({u \in Views : IsOpening(u)}) = 1
        BY <4>1, FS_Singleton
      <4> QED BY <2>3, <4>2, BoundAssumption DEF OpenView
    <3>2. \A w \in Views \ {v} : view'[w] = view[w]
      BY <2>1, <2>3 DEF OpenView, GetView, TypeOK
    <3>3. \A w \in Views : IsOpening(w)' => w = v
      BY <3>1, <3>2 DEF IsOpening
    <3> QED BY <3>3
  <2>4. ASSUME NEW v \in Views, Grow(v) \/ KeepSize(v) \/ Map(v) PROVE Alone'
    <3>1. /\ IsOpening(v) /\ \A w \in Views \ {v} : view'[w] = view[w]
      BY <2>1, <2>4 DEF Grow, KeepSize, Map, TypeOK, IsOpening
    <3> QED BY <2>2, <3>1 DEF IsOpening
  <2>5. ASSUME NEW v \in Views, GrowFails(v) \/ MapFails(v) \/ Destroy(v) PROVE Alone'
    <3>1. Release(v)
      BY <2>5 DEF GrowFails, MapFails, Destroy
    <3> QED BY <1>2, <2>2, <3>1, ReleaseKeeps DEF IsOpening
  <2>6. ASSUME UNCHANGED view PROVE Alone'
    BY <1>2, <2>6 DEF IsOpening
  <2> QED
    BY <1>2, <2>3, <2>4, <2>5, <2>6
       DEF Next, vars, Vanish, FileStep, Create, DropFile, ViewStep
<1>3. Alone => GrowthAgreed
  BY DEF GrowthAgreed, Growing, IsOpening
<1> HIDE DEF Alone
<1> QED BY <1>1, <1>2, <1>3, Inductive, PTL DEF Spec

\* One caller at a time: every byte of a view mapped through a writable file
\* stays in the file, while files are dropped and the path is removed and made
\* again.
THEOREM ViewsStayBacked ==
  ASSUME MaxOpening <= 1, \A length \in LengthArgs : length + Granularity <= Word
  PROVE  Spec => []WritableViewsBacked
<1> QED BY OneOpening, AgreedViewsStayBacked, PTL

\* One caller at a time: opening a view never shortens the file.
THEOREM OpeningNeverShortens ==
  ASSUME MaxOpening <= 1
  PROVE  Spec => FilesOnlyGrow
<1> QED BY OneOpening, AgreedFilesOnlyGrow, PTL
=============================================================================
