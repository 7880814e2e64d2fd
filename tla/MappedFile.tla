------------------------------ MODULE MappedFile ------------------------------
(***************************************************************************)
(* storage::File and the life of the views mapped on it (POSIX build):     *)
(* File::create, File::get_view with View::open_mapping, File::~File and   *)
(* View::~View.                                                            *)
(*                                                                         *)
(* open_mapping is not one step: it reads the file size (by path), may     *)
(* grow the file with ftruncate (by handle), then maps.  Nothing locks it, *)
(* so two callers that open views on the same file interleave.             *)
(*                                                                         *)
(* All File objects of the model are made from one path.  An Inode is a    *)
(* file the path names or named; a handle keeps its inode when the path is *)
(* removed or comes to name another one.                                   *)
(***************************************************************************)
EXTENDS ViewArith, FiniteSets

CONSTANTS Files,          \* File objects
          NoFile,
          Views,          \* View objects; a torn down one may be made again
          Inodes,
          NoInode,
          AccessModes,    \* the FileAccess values callers use
          OffsetArgs,     \* offsets given to get_view
          LengthArgs,     \* lengths given to get_view
          InitialSizes,   \* sizes of the file that is there at the start
          MaxFileSize,    \* ftruncate fails beyond it
          MaxOpening,     \* bound: callers inside get_view at the same time
          PathMayVanish   \* whether another program removes the path

FileAccess == {"Read", "Write", "ReadWrite", "Execute", "ReadExecute", "ReadWriteExecute"}

ASSUME SentinelAssumption == NoFile \notin Files /\ NoInode \notin Inodes
ASSUME AccessAssumption   == AccessModes \subseteq FileAccess
ASSUME SizeAssumption     == MaxFileSize \in 0 .. HalfWord - 1 /\ InitialSizes \subseteq 0 .. MaxFileSize
ASSUME ArgumentAssumption == OffsetArgs \subseteq Offsets /\ LengthArgs \subseteq Sizes
ASSUME BoundAssumption    == MaxOpening \in Nat /\ PathMayVanish \in BOOLEAN

VARIABLES path,   \* the inode the path names, or NoInode
          size,   \* the size of each inode
          file,   \* per File: the inode its handle is open on (NoInode: closed), its
                  \* access, and whether a caller still holds a FilePointer to it
          view,   \* per View: how far get_view got, and the fields it filled in
          pages   \* per View: pages of its mapping still in the address space

vars == <<path, size, file, view, pages>>

ClosedFile == [inode |-> NoInode, access |-> "Read", owned |-> FALSE]
FreeView   == [stage |-> "free", file |-> NoFile, file_offset |-> 0, view_length |-> 0,
               file_size |-> 0]

\* The Write bit of an access mode.
CanWrite(access) == access \in {"Write", "ReadWrite", "ReadWriteExecute"}

IsOpen(f)    == file[f].inode # NoInode
IsOpening(v) == view[v].stage \in {"sized", "grown"}

InodeOf(v)      == file[view[v].file].inode
MappingEnd(v)   == mapping_end(view[v].file_offset, view[v].view_length, view[v].file_size)
MapLength(v)    == map_length(view[v].file_offset, view[v].view_length, view[v].file_size)
ReleaseLength(v) == release_length(view[v].file_offset, view[v].view_length)

Init ==
  /\ path \in {NoInode} \cup Inodes
  /\ size \in [Inodes -> InitialSizes]
  /\ \A i \in Inodes : i # path => size[i] = 0
  /\ file = [f \in Files |-> ClosedFile]
  /\ view = [v \in Views |-> FreeView]
  /\ pages = [v \in Views |-> 0]

-----------------------------------------------------------------------------
(* Files                                                                    *)

\* An inode neither the path nor a handle refers to.
Unused(i) == i # path /\ \A f \in Files : file[f].inode # i

\* File::create that succeeds.  With the Write bit open(2) creates the file
\* when the path names none; without it the path must exist.
Create(f, access) ==
  /\ ~ IsOpen(f)
  /\ IF path = NoInode
     THEN /\ CanWrite(access)
          /\ \E i \in Inodes : Unused(i) /\ path' = i /\ size' = [size EXCEPT ![i] = 0]
     ELSE UNCHANGED <<path, size>>
  /\ file' = [file EXCEPT ![f] = [inode |-> path', access |-> access, owned |-> TRUE]]
  /\ UNCHANGED <<view, pages>>

\* Fault: views do not keep their File alive.
Faulty_DropFile(f) ==
  /\ file[f].owned
  /\ file' = [file EXCEPT ![f] = ClosedFile]
  /\ UNCHANGED <<path, size, view, pages>>

\* The caller lets its last FilePointer go.  ~File closes the handle, unless
\* a view still refers to the file.
DropFile(f) ==
  /\ file[f].owned
  /\ file' = [file EXCEPT ![f] =
                IF \E v \in Views : view[v].file = f THEN [@ EXCEPT !.owned = FALSE]
                ELSE ClosedFile]
  /\ UNCHANGED <<path, size, view, pages>>

\* Another program removes the path; open handles keep the inode.
Vanish ==
  /\ PathMayVanish
  /\ path # NoInode
  /\ path' = NoInode
  /\ UNCHANGED <<size, file, view, pages>>

-----------------------------------------------------------------------------
(* Views                                                                    *)

\* The view gives up its reference to the file; the last one closes it.
Release(v) ==
  LET f == view[v].file
  IN  /\ view' = [view EXCEPT ![v] = FreeView]
      /\ file' = IF file[f].owned \/ \E w \in Views \ {v} : view[w].file = f THEN file
                 ELSE [file EXCEPT ![f] = ClosedFile]

\* Fault: a negative offset stays negative.
Faulty_GetView(f, v, offset, length) ==
  /\ file[f].owned
  /\ view[v].stage = "free"
  /\ path # NoInode
  /\ view' = [view EXCEPT ![v] =
                [stage |-> "sized", file |-> f, file_offset |-> offset,
                 view_length |-> length, file_size |-> size[path]]]
  /\ UNCHANGED <<path, size, file, pages>>

\* get_view fills the fields in and open_mapping reads the file size, which
\* File::get_size asks of the path.  (A path that names nothing makes it
\* throw, and the view is gone again.)
GetView(f, v, offset, length) ==
  /\ file[f].owned
  /\ view[v].stage = "free"
  /\ path # NoInode
  /\ view' = [view EXCEPT ![v] =
                [stage |-> "sized", file |-> f, file_offset |-> AsSize(offset),
                 view_length |-> length, file_size |-> size[path]]]
  /\ UNCHANGED <<path, size, file, pages>>

\* Fault: truncates to the end of the mapping even when the file is longer.
Faulty_MustGrow(v) == CanWrite(file[view[v].file].access)

\* "Truncate only if we're allowed to truncate" and the mapping ends past the
\* size that was read.
MustGrow(v) ==
  /\ CanWrite(file[view[v].file].access)
  /\ MappingEnd(v) > view[v].file_size

\* ftruncate on the handle; it sets the size, up or down.
Grow(v) ==
  /\ view[v].stage = "sized"
  /\ MustGrow(v)
  /\ MappingEnd(v) <= MaxFileSize
  /\ size' = [size EXCEPT ![InodeOf(v)] = MappingEnd(v)]
  /\ view' = [view EXCEPT ![v].stage = "grown"]
  /\ UNCHANGED <<path, file, pages>>

\* ftruncate fails: get_view drops the view and returns nullptr.
GrowFails(v) ==
  /\ view[v].stage = "sized"
  /\ MustGrow(v)
  /\ Release(v)
  /\ UNCHANGED <<path, size, pages>>

KeepSize(v) ==
  /\ view[v].stage = "sized"
  /\ ~ MustGrow(v)
  /\ view' = [view EXCEPT ![v].stage = "grown"]
  /\ UNCHANGED <<path, size, file, pages>>

\* mmap refuses a length of zero, more than the address space, and a
\* negative file offset.  It does not look at the file's size.
Mappable(v) ==
  /\ MapLength(v) \in 1 .. HalfWord - 1
  /\ real_offset(view[v].file_offset) < HalfWord

Map(v) ==
  /\ view[v].stage = "grown"
  /\ Mappable(v)
  /\ pages' = [pages EXCEPT ![v] = PagesOf(MapLength(v))]
  /\ view' = [view EXCEPT ![v].stage = "mapped"]
  /\ UNCHANGED <<path, size, file>>

\* mmap fails, as it may at any time.  view_pointer is MAP_FAILED then, which
\* the destructor takes for a mapping; munmap refuses that address.
MapFails(v) ==
  /\ view[v].stage = "grown"
  /\ Release(v)
  /\ UNCHANGED <<path, size, pages>>

\* Fault: unmaps the view without the part of its first page before it.
Faulty_Destroy(v) ==
  LET released == PagesOf(view[v].view_length)
  IN  /\ view[v].stage = "mapped"
      /\ pages' = [pages EXCEPT ![v] = IF released >= @ THEN 0 ELSE @ - released]
      /\ Release(v)
      /\ UNCHANGED <<path, size>>

\* ~View: munmap of the recomputed region (a length of zero unmaps nothing).
Destroy(v) ==
  LET released == PagesOf(ReleaseLength(v))
  IN  /\ view[v].stage = "mapped"
      /\ pages' = [pages EXCEPT ![v] = IF released >= @ THEN 0 ELSE @ - released]
      /\ Release(v)
      /\ UNCHANGED <<path, size>>

\* A caller opens a view.  Two bounds: MaxOpening, and a View slot whose
\* pages leaked is not used again.
OpenView(f, v) ==
  /\ Cardinality({w \in Views : IsOpening(w)}) < MaxOpening
  /\ pages[v] = 0
  /\ \E offset \in OffsetArgs, length \in LengthArgs : GetView(f, v, offset, length)

FileStep(f) == DropFile(f) \/ \E access \in AccessModes : Create(f, access)

ViewStep(v) ==
  \/ \E f \in Files : OpenView(f, v)
  \/ Grow(v)
  \/ GrowFails(v)
  \/ KeepSize(v)
  \/ Map(v)
  \/ MapFails(v)
  \/ Destroy(v)

Next == Vanish \/ (\E f \in Files : FileStep(f)) \/ (\E v \in Views : ViewStep(v))

Spec == Init /\ [][Next]_vars

-----------------------------------------------------------------------------
TypeOK ==
  /\ path \in Inodes \cup {NoInode}
  /\ size \in [Inodes -> 0 .. MaxFileSize]
  /\ file \in [Files -> [inode : Inodes \cup {NoInode}, access : FileAccess, owned : BOOLEAN]]
  /\ view \in [Views -> [stage : {"free", "sized", "grown", "mapped"},
                         file : Files \cup {NoFile},
                         file_offset : Sizes, view_length : Sizes, file_size : Sizes]]
  /\ pages \in [Views -> Nat]

\* The handle is open exactly as long as a caller or a view refers to the
\* File, and no view outlives it: "messing with open state while it is mapped
\* will lead to madness" (Storage/File.hpp:322).
HandleLifetime ==
  /\ \A f \in Files :
       IsOpen(f) <=> file[f].owned \/ \E v \in Views : view[v].file = f
  /\ \A v \in Views : view[v].stage # "free" => view[v].file \in Files

\* Every byte of a view mapped through a writable file lies in the file, for
\* as long as the view lives and the path names that file: touching it cannot
\* fault.
WritableViewsBacked ==
  \A v \in Views :
    view[v].stage = "mapped" /\ CanWrite(file[view[v].file].access) /\ InodeOf(v) = path =>
      view[v].file_offset .. view[v].file_offset + view[v].view_length - 1
        \subseteq 0 .. size[path] - 1

\* "Need to truncate *up*" (source/POSIX/Storage/View.cpp:50): opening a view
\* never shortens the file the path names.
FilesOnlyGrow ==
  [][\A v \in Views, i \in Inodes :
       view'[v] # view[v] /\ path = i => size'[i] >= size[i]]_vars

\* A caller that is about to truncate the file the path names.
Growing(v) == view[v].stage = "sized" /\ MustGrow(v) /\ InodeOf(v) = path

\* Callers that are at the same time about to truncate it agree on its size.
\* Nothing in the code sees to that; it is what the two properties above need.
GrowthAgreed ==
  \A v, w \in Views : Growing(v) /\ Growing(w) => MappingEnd(v) = MappingEnd(w)

\* What flush writes back and ~View unmaps is the whole mapping of the view
\* and nothing next to it.
TeardownExact ==
  \A v \in Views :
    view[v].stage = "mapped" => PagesOf(ReleaseLength(v)) = pages[v]

\* "ensure platform objects are freed and all maps are properly torn down"
\* (Storage/File.hpp:373): a view that is gone leaves no page behind.
NothingLeaks == \A v \in Views : view[v].stage = "free" => pages[v] = 0
=============================================================================
