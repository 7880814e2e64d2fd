-------------------------- MODULE WindowsMappedFile ---------------------------
(***************************************************************************)
(* storage::File and its views in the Windows build.  Where the POSIX      *)
(* build truncates the file itself, CreateFileMappingW makes a section of  *)
(* it, and grows the file when the section is larger; MapViewOfFile maps   *)
(* nothing outside the section.  A view owns the handle of its section.    *)
(*                                                                         *)
(* The file is shared for reading and writing but not for deletion: no     *)
(* program removes it while a handle is open.                              *)
(***************************************************************************)
EXTENDS ViewArith, FiniteSets

CONSTANTS Files,        \* File objects, all of one path
          NoFile,
          Views,        \* View objects; a torn down one may be made again
          AccessModes,  \* the FileAccess values callers use
          OffsetArgs,   \* offsets given to get_view
          LengthArgs,   \* lengths given to get_view
          MaxFileSize   \* files do not grow beyond it

FileAccess == {"Read", "Write", "ReadWrite", "Execute", "ReadExecute", "ReadWriteExecute"}

ASSUME FileAssumption     == NoFile \notin Files /\ AccessModes \subseteq FileAccess
ASSUME SizeAssumption     == MaxFileSize \in 0 .. HalfWord - 1
ASSUME ArgumentAssumption == OffsetArgs \subseteq Offsets /\ LengthArgs \subseteq Sizes

VARIABLES exists,   \* whether the path names a file
          size,     \* its size; 0 when there is none
          file,     \* per File: whether its handle is open, its access, and whether a
                    \* caller still holds a FilePointer to it
          view,     \* per View: how far get_view got, and the fields it filled in;
                    \* view_pointer counts from the start of the mapping, -1 is nullptr
          section,  \* per View: the size of the section its handle is open on, -1 if none
          mapped    \* per View: bytes of the address space that map the section

vars == <<exists, size, file, view, section, mapped>>

ClosedFile == [open |-> FALSE, access |-> "Read", owned |-> FALSE]
FreeView   == [stage |-> "free", file |-> NoFile, file_offset |-> 0, view_length |-> 0,
               file_size |-> 0, view_pointer |-> -1]

CanWrite(access) == access \in {"Write", "ReadWrite", "ReadWriteExecute"}

\* What open_mapping works out from the fields of a view.
MapOffset(v)        == real_offset(view[v].file_offset)
MapLength(v)        == map_length(view[v].file_offset, view[v].view_length, view[v].file_size)
offset_plus_size(v) == Plus(view[v].file_offset, view[v].view_length)

\* The address flush and ~View work out from the view, which is to be that of
\* the mapping (0).
data(v) == view[v].view_pointer - page_delta(view[v].file_offset)

\* Fault: counts from the view instead of from the start of its mapping.
Faulty_mapped_size(v) == view[v].view_length

\* The length flush goes on from there.
mapped_size(v) == Plus(view[v].view_length, AsSize(view[v].view_pointer - data(v)))

Init ==
  /\ exists \in BOOLEAN
  /\ size \in 0 .. MaxFileSize
  /\ ~ exists => size = 0
  /\ file = [f \in Files |-> ClosedFile]
  /\ view = [v \in Views |-> FreeView]
  /\ section = [v \in Views |-> -1]
  /\ mapped = [v \in Views |-> 0]

-----------------------------------------------------------------------------
\* File::create that succeeds: with the Write bit CreateFileW makes a missing
\* file, without it create has looked whether there is one.
Create(f, access) ==
  /\ ~ file[f].open
  /\ exists \/ CanWrite(access)
  /\ exists' = TRUE
  /\ file' = [file EXCEPT ![f] = [open |-> TRUE, access |-> access, owned |-> TRUE]]
  /\ UNCHANGED <<size, view, section, mapped>>

\* ~File, unless a view still refers to the file.
DropFile(f) ==
  /\ file[f].owned
  /\ file' = [file EXCEPT ![f] =
                IF \E v \in Views : view[v].file = f THEN [@ EXCEPT !.owned = FALSE]
                ELSE ClosedFile]
  /\ UNCHANGED <<exists, size, view, section, mapped>>

\* Another program removes the file.
Vanish ==
  /\ exists
  /\ \A f \in Files : ~ file[f].open
  /\ exists' = FALSE
  /\ size' = 0
  /\ UNCHANGED <<file, view, section, mapped>>

\* Fault: keeps the handle of the section.
Faulty_Release(v) ==
  LET f == view[v].file
  IN  /\ view' = [view EXCEPT ![v] = FreeView]
      /\ file' = IF file[f].owned \/ \E w \in Views \ {v} : view[w].file = f THEN file
                 ELSE [file EXCEPT ![f] = ClosedFile]
      /\ UNCHANGED section

\* The end of ~View: the handle of the section is closed (there may be none),
\* and the reference to the file is given up.
Release(v) ==
  LET f == view[v].file
  IN  /\ view' = [view EXCEPT ![v] = FreeView]
      /\ file' = IF file[f].owned \/ \E w \in Views \ {v} : view[w].file = f THEN file
                 ELSE [file EXCEPT ![f] = ClosedFile]
      /\ section' = [section EXCEPT ![v] = -1]

\* Fault: a negative offset stays negative.
Faulty_GetView(f, v, offset, length) ==
  /\ file[f].owned
  /\ view[v].stage = "free"
  /\ view' = [view EXCEPT ![v] =
                [stage |-> "sized", file |-> f, file_offset |-> offset,
                 view_length |-> length, file_size |-> size, view_pointer |-> -1]]
  /\ UNCHANGED <<exists, size, file, section, mapped>>

\* get_view fills the fields in and open_mapping reads the size of the file.
GetView(f, v, offset, length) ==
  /\ file[f].owned
  /\ view[v].stage = "free"
  /\ view' = [view EXCEPT ![v] =
                [stage |-> "sized", file |-> f, file_offset |-> AsSize(offset),
                 view_length |-> length, file_size |-> size, view_pointer |-> -1]]
  /\ UNCHANGED <<exists, size, file, section, mapped>>

\* CreateFileMappingW: a maximum of zero means the size of the file; a larger
\* one than that grows a writable file.
CreateMapping(v) ==
  LET maximum == offset_plus_size(v)
  IN  /\ view[v].stage = "sized"
      /\ \/ maximum = 0 /\ size > 0
            /\ section' = [section EXCEPT ![v] = size] /\ UNCHANGED size
         \/ maximum \in 1 .. size
            /\ section' = [section EXCEPT ![v] = maximum] /\ UNCHANGED size
         \/ maximum \in size + 1 .. MaxFileSize /\ CanWrite(file[view[v].file].access)
            /\ section' = [section EXCEPT ![v] = maximum] /\ size' = maximum
      /\ view' = [view EXCEPT ![v].stage = "section"]
      /\ UNCHANGED <<exists, file, mapped>>

\* MapViewOfFile: nothing outside the section; a length of zero means up to
\* its end.  The pointer it returns is moved on to the first byte of the view.
MapView(v) ==
  LET length == IF MapLength(v) = 0 THEN section[v] - MapOffset(v) ELSE MapLength(v)
  IN  /\ view[v].stage = "section"
      /\ length > 0
      /\ MapOffset(v) + length <= section[v]
      /\ mapped' = [mapped EXCEPT ![v] = length]
      /\ view' = [view EXCEPT ![v].stage = "mapped",
                             ![v].view_pointer = page_delta(view[v].file_offset)]
      /\ UNCHANGED <<exists, size, file, section>>

\* Fault: unmaps at the address of the view, not at that of its mapping.
Faulty_Unmap(v) ==
  mapped' = [mapped EXCEPT ![v] = IF view[v].view_pointer = 0 THEN 0 ELSE @]

\* UnmapViewOfFile unmaps all of a mapping, and only for the address the
\* mapping starts at; the answer is not looked at.
Unmap(v) ==
  mapped' = [mapped EXCEPT ![v] = IF view[v].view_pointer # -1 /\ data(v) = 0 THEN 0 ELSE @]

\* ~View of a view whose CreateFileMappingW or MapViewOfFile failed, as either
\* may at any time, or that its last owner lets go of.
Destroy(v) ==
  /\ view[v].stage # "free"
  /\ Unmap(v)
  /\ Release(v)
  /\ UNCHANGED <<exists, size>>

FileStep(f) == DropFile(f) \/ \E access \in AccessModes : Create(f, access)

ViewStep(v) ==
  \/ \E f \in Files, offset \in OffsetArgs, length \in LengthArgs : GetView(f, v, offset, length)
  \/ CreateMapping(v)
  \/ MapView(v)
  \/ Destroy(v)

Next == Vanish \/ (\E f \in Files : FileStep(f)) \/ (\E v \in Views : ViewStep(v))

Spec == Init /\ [][Next]_vars

-----------------------------------------------------------------------------
TypeOK ==
  /\ exists \in BOOLEAN
  /\ size \in 0 .. MaxFileSize
  /\ file \in [Files -> [open : BOOLEAN, access : FileAccess, owned : BOOLEAN]]
  /\ view \in [Views -> [stage : {"free", "sized", "section", "mapped"},
                         file : Files \cup {NoFile},
                         file_offset : Sizes, view_length : Sizes, file_size : Sizes,
                         view_pointer : -1 .. Granularity - 1]]
  /\ section \in [Views -> -1 .. MaxFileSize]
  /\ mapped \in [Views -> 0 .. MaxFileSize]

\* The handle of a file is open exactly as long as a caller or a view refers
\* to it, and that of a section as long as its view needs it, whichever of
\* the calls that open a view fails.
HandleLifetime ==
  /\ \A f \in Files :
       file[f].open <=> file[f].owned \/ \E v \in Views : view[v].file = f
  /\ \A v \in Views :
       section[v] # -1 <=> view[v].stage \in {"section", "mapped"}

\* Every byte of a mapped view lies in the mapping, and every byte of the
\* mapping in the file, for any access and however many callers open views
\* of any part of the file at once.
ViewsBacked ==
  \A v \in Views :
    view[v].stage = "mapped" =>
      /\ MapOffset(v) + mapped[v] <= size
      /\ view[v].view_length # 0 =>
           page_delta(view[v].file_offset) + view[v].view_length <= mapped[v]

\* flush hands all of the mapping to FlushViewOfFile, for which a length of
\* zero means up to the end.
FlushCoversMapping ==
  \A v \in Views :
    view[v].stage = "mapped" =>
      data(v) = 0 /\ (mapped_size(v) = 0 \/ mapped_size(v) >= mapped[v])

\* "ensure platform objects are freed and all maps are properly torn down"
\* (Storage/File.hpp:373), also for views that were opened with length zero:
\* the address ~View works out is that of the mapping wherever in its page the
\* view starts, and no view that is gone still maps bytes.
NothingLeaks == \A v \in Views : view[v].stage # "mapped" => mapped[v] = 0
=============================================================================
