----------------------- MODULE WindowsMappedFileProofs ------------------------
(***************************************************************************)
(* Handles, sections and mappings of the Windows build, for any number of  *)
(* File and View objects and of callers that open views at once, any file  *)
(* sizes, offsets and granularity.                                         *)
(*                                                                         *)
(* That a view is backed by the file needs more than what is said of       *)
(* mapped views: the section must have got at least the size the view ends *)
(* at, and the file must not have become shorter than the section since,   *)
(* which rests on the handle being open as long as the view is there.      *)
(***************************************************************************)
EXTENDS WindowsMappedFile, ViewArithProofs

\* Exactly the views in use refer to a file.
References ==
  \A v \in Views : IF view[v].stage = "free" THEN view[v].file = NoFile
                   ELSE view[v].file \in Files

\* No section is larger than the file; it ends where the view does, unless
\* that is 0.
Sections ==
  \A v \in Views :
    /\ section[v] <= size
    /\ section[v] # -1 /\ offset_plus_size(v) # 0 => section[v] = offset_plus_size(v)

\* What is mapped lies in the section and is what MapViewOfFile was asked for,
\* and the view knows where its mapping starts.
Mappings ==
  \A v \in Views :
    IF view[v].stage = "mapped"
    THEN /\ MapOffset(v) + mapped[v] <= section[v]
         /\ MapLength(v) # 0 => mapped[v] = MapLength(v)
         /\ view[v].view_pointer = page_delta(view[v].file_offset)
    ELSE mapped[v] = 0

\* The lengths of views come from callers.
Requests == \A v \in Views : view[v].stage # "free" => view[v].view_length \in LengthArgs

IInv == TypeOK /\ HandleLifetime /\ References /\ Sections /\ Mappings /\ Requests

LEMMA SizeFacts ==
  /\ HalfWord \in Nat \ {0} /\ Word \in Nat /\ MaxFileSize \in Nat
  /\ 0 .. MaxFileSize \subseteq Sizes /\ 0 \in Sizes /\ Sizes \subseteq Nat
  /\ \A o \in OffsetArgs : AsSize(o) \in Sizes
BY HalfWordAssumption, SizeAssumption, ArgumentAssumption DEF Word, Sizes, Offsets, AsSize

LEMMA WordSum ==
  ASSUME NEW a \in Sizes, NEW b \in Sizes
  PROVE  Plus(a, b) \in Sizes /\ Minus(a, b) \in Sizes
BY HalfWordAssumption DEF Plus, Minus, Sizes, Word

\* What a well-typed view makes of its fields.
LEMMA ViewNumbers ==
  ASSUME TypeOK, NEW v \in Views
  PROVE  /\ offset_plus_size(v) \in Nat /\ MapLength(v) \in Nat
         /\ MapOffset(v) \in Nat /\ MapOffset(v) <= view[v].file_offset
         /\ view[v].file_offset \in Nat /\ view[v].view_length \in Nat
         /\ page_delta(view[v].file_offset) = view[v].file_offset - MapOffset(v)
         /\ page_delta(view[v].file_offset) \in 0 .. Granularity - 1
         /\ page_delta(view[v].file_offset) \in Sizes
<1> DEFINE o == view[v].file_offset
           l == view[v].view_length
           s == view[v].file_size
<1>1. o \in Sizes /\ l \in Sizes /\ s \in Sizes
  BY DEF TypeOK
<1>2. /\ real_offset(o) \in 0 .. o /\ page_delta(o) = o - real_offset(o)
      /\ page_delta(o) \in 0 .. Granularity - 1
  BY <1>1, RealOffset
<1>3. o \in Nat /\ l \in Nat /\ o < Word
  BY <1>1, SizeFacts DEF Sizes
<1>4. page_delta(o) \in Sizes
  BY <1>2, <1>3, SizeFacts DEF Sizes
<1>5. mapping_size(o, l, s) \in Sizes
  BY <1>1, WordSum DEF mapping_size
<1>6. Plus(o, l) \in Nat /\ map_length(o, l, s) \in Nat
  BY <1>1, <1>4, <1>5, WordSum, SizeFacts DEF map_length
<1> QED BY <1>2, <1>3, <1>4, <1>6 DEF offset_plus_size, MapLength, MapOffset

LEMMA InitInv == Init => IInv
<1> SUFFICES ASSUME Init PROVE IInv
  OBVIOUS
<1>1. TypeOK
  BY SizeFacts, GranularityAssumption DEF Init, TypeOK, ClosedFile, FreeView, FileAccess
<1>2. HandleLifetime /\ References
  BY FileAssumption DEF Init, HandleLifetime, References, ClosedFile, FreeView
<1>3. Sections /\ Mappings /\ Requests
  BY SizeFacts DEF Init, Sections, Mappings, Requests, FreeView
<1> QED BY <1>1, <1>2, <1>3 DEF IInv

\* What flush and ~View make of the pointer of a mapped view.
LEMMA DataFacts ==
  ASSUME IInv, NEW v \in Views, view[v].stage = "mapped"
  PROVE  /\ data(v) = 0 /\ view[v].view_pointer # -1
         /\ mapped_size(v) = Plus(view[v].view_length, page_delta(view[v].file_offset))
<1>1. PICK delta : delta = page_delta(view[v].file_offset)
  OBVIOUS
<1>2. view[v].view_pointer = delta /\ delta \in 0 .. Granularity - 1
  BY <1>1, ViewNumbers DEF IInv, Mappings
<1>3. data(v) = 0 /\ view[v].view_pointer - data(v) = delta /\ AsSize(delta) = delta
  BY <1>1, <1>2, GranularityAssumption DEF data, AsSize
<1> QED BY <1>1, <1>2, <1>3, GranularityAssumption DEF mapped_size

\* A step that leaves the views, their sections and mappings alone, and the
\* size if any view is in use.
LEMMA OtherFieldsInv ==
  ASSUME IInv, UNCHANGED <<view, section, mapped>>, size' \in 0 .. MaxFileSize,
         size' >= size \/ \A v \in Views : section[v] = -1
  PROVE  Sections' /\ Mappings' /\ Requests'
<1>1. size' \in Nat /\ size \in Nat
  BY SizeFacts DEF IInv, TypeOK
<1>2. \A v \in Views : section[v] \in Int
  BY SizeFacts DEF IInv, TypeOK
<1>3. Sections'
  BY <1>1, <1>2 DEF IInv, Sections, offset_plus_size
<1>4. Mappings' /\ Requests'
  BY DEF IInv, Mappings, Requests, MapOffset, MapLength
<1> QED BY <1>3, <1>4

\* A view that is given up, together with its section and its mapping.
LEMMA ReleaseInv ==
  ASSUME IInv, NEW v \in Views, view[v].stage # "free", Release(v),
         UNCHANGED <<exists, size>>, mapped' = [mapped EXCEPT ![v] = 0]
  PROVE  IInv'
<1> DEFINE f == view[v].file
<1> USE DEF IInv
<1>1. f \in Files /\ file[f].open
  BY DEF References, HandleLifetime
<1>2. view' = [view EXCEPT ![v] = FreeView] /\ section' = [section EXCEPT ![v] = -1]
  BY DEF Release
<1>3. /\ view'[v] = FreeView /\ section'[v] = -1 /\ mapped'[v] = 0
      /\ \A w \in Views \ {v} : view'[w] = view[w] /\ section'[w] = section[w]
                                /\ mapped'[w] = mapped[w]
  BY <1>2 DEF TypeOK
<1>4. Sections' /\ Mappings' /\ Requests'
  <2>1. size' = size /\ -1 <= size
    BY SizeFacts DEF TypeOK
  <2>2. Sections'
    BY <1>3, <2>1 DEF Sections, offset_plus_size
  <2>3. Mappings' /\ Requests'
    BY <1>3 DEF Mappings, Requests, FreeView, MapOffset, MapLength
  <2> QED BY <2>2, <2>3
<1>5. References'
  BY <1>3 DEF References, FreeView
<1>6. file' \in [Files -> [open : BOOLEAN, access : FileAccess, owned : BOOLEAN]]
  BY DEF Release, TypeOK, ClosedFile, FileAccess
<1>7. TypeOK'
  <2>1. view' \in [Views -> [stage : {"free", "sized", "section", "mapped"},
                             file : Files \cup {NoFile}, file_offset : Sizes,
                             view_length : Sizes, file_size : Sizes,
                             view_pointer : -1 .. Granularity - 1]]
    BY <1>2, SizeFacts, GranularityAssumption DEF TypeOK, FreeView
  <2>2. section' \in [Views -> -1 .. MaxFileSize] /\ mapped' \in [Views -> 0 .. MaxFileSize]
    BY <1>2, SizeFacts DEF TypeOK
  <2> QED BY <1>6, <2>1, <2>2 DEF TypeOK
<1>8. \A w \in Views : section'[w] # -1 <=> view'[w].stage \in {"section", "mapped"}
  BY <1>3 DEF HandleLifetime, FreeView
<1>9. \A g \in Files : file'[g].open <=> file'[g].owned \/ \E w \in Views : view'[w].file = g
  <2>1. view'[v].file = NoFile /\ NoFile \notin Files
    BY <1>3, FileAssumption DEF FreeView
  <2>2. ASSUME NEW g \in Files, g # f
        PROVE  (\E w \in Views : view[w].file = g) <=> \E w \in Views : view'[w].file = g
    BY <1>3, <2>1, <2>2
  <2>3. (\E w \in Views \ {v} : view[w].file = f) <=> \E w \in Views : view'[w].file = f
    BY <1>1, <1>3, <2>1
  <2>4. CASE file[f].owned \/ \E w \in Views \ {v} : view[w].file = f
    <3>1. file' = file
      BY <2>4 DEF Release
    <3> QED BY <1>1, <2>2, <2>3, <2>4, <3>1 DEF HandleLifetime
  <2>5. CASE ~ (file[f].owned \/ \E w \in Views \ {v} : view[w].file = f)
    <3>1. file' = [file EXCEPT ![f] = ClosedFile]
      BY <2>5 DEF Release
    <3>2. ~ file'[f].open /\ ~ file'[f].owned /\ \A g \in Files \ {f} : file'[g] = file[g]
      BY <1>1, <3>1 DEF TypeOK, ClosedFile
    <3> QED BY <2>2, <2>3, <2>5, <3>2 DEF HandleLifetime
  <2> QED BY <2>4, <2>5
<1> QED BY <1>4, <1>5, <1>7, <1>8, <1>9 DEF HandleLifetime

LEMMA StepInv == IInv /\ [Next]_vars => IInv'
<1> SUFFICES ASSUME IInv, [Next]_vars PROVE IInv'
  OBVIOUS
<1> USE DEF IInv
<1>1. ASSUME NEW f \in Files, NEW access \in AccessModes, Create(f, access) PROVE IInv'
  <2>1. /\ ~ file[f].open /\ exists' = TRUE /\ UNCHANGED <<size, view, section, mapped>>
        /\ file' = [file EXCEPT ![f] = [open |-> TRUE, access |-> access, owned |-> TRUE]]
    BY <1>1 DEF Create
  <2>2. TypeOK'
    BY <2>1, FileAssumption DEF TypeOK
  <2>3. HandleLifetime' /\ References'
    BY <2>1 DEF TypeOK, HandleLifetime, References
  <2>4. size' \in 0 .. MaxFileSize /\ size' >= size
    BY <2>1, SizeFacts DEF TypeOK
  <2> QED BY <2>1, <2>2, <2>3, <2>4, OtherFieldsInv
<1>2. ASSUME NEW f \in Files, DropFile(f) PROVE IInv'
  <2>1. file[f].owned /\ UNCHANGED <<exists, size, view, section, mapped>>
    BY <1>2 DEF DropFile
  <2>2. size' \in 0 .. MaxFileSize /\ size' >= size
    BY <2>1, SizeFacts DEF TypeOK
  <2>3. Sections' /\ Mappings' /\ Requests'
    BY <2>1, <2>2, OtherFieldsInv
  <2>4. CASE \E v \in Views : view[v].file = f
    <3>1. file' = [file EXCEPT ![f].owned = FALSE]
      BY <1>2, <2>4 DEF DropFile
    <3>2. TypeOK' /\ References'
      BY <2>1, <3>1 DEF TypeOK, References
    <3>3. \A g \in Files :
            file'[g].open = file[g].open /\ (g # f => file'[g].owned = file[g].owned)
      BY <3>1 DEF TypeOK
    <3>4. file[f].open
      BY <2>4 DEF HandleLifetime
    <3>5. HandleLifetime'
      BY <2>1, <2>4, <3>3, <3>4 DEF HandleLifetime
    <3> QED BY <2>3, <3>2, <3>5
  <2>5. CASE ~ \E v \in Views : view[v].file = f
    <3>1. file' = [file EXCEPT ![f] = ClosedFile]
      BY <1>2, <2>5 DEF DropFile
    <3>2. TypeOK' /\ HandleLifetime' /\ References'
      BY <2>1, <2>5, <3>1 DEF TypeOK, HandleLifetime, References, ClosedFile, FileAccess
    <3> QED BY <2>3, <3>2
  <2> QED BY <2>4, <2>5
<1>3. CASE Vanish
  <2>1. \A v \in Views : view[v].stage = "free" /\ section[v] = -1
    BY <1>3 DEF Vanish, HandleLifetime, References
  <2>2. size' \in 0 .. MaxFileSize /\ UNCHANGED <<file, view, section, mapped>>
    BY <1>3, SizeFacts DEF Vanish
  <2>3. exists' \in BOOLEAN
    BY <1>3 DEF Vanish
  <2>4. TypeOK'
    BY <2>2, <2>3 DEF TypeOK
  <2>5. HandleLifetime' /\ References'
    BY <2>2 DEF HandleLifetime, References
  <2> QED BY <2>1, <2>2, <2>4, <2>5, OtherFieldsInv
<1>4. ASSUME NEW f \in Files, NEW v \in Views, NEW offset \in OffsetArgs, NEW length \in LengthArgs,
             GetView(f, v, offset, length)
      PROVE  IInv'
  <2>1. /\ file[f].owned /\ view[v].stage = "free"
        /\ UNCHANGED <<exists, size, file, section, mapped>>
        /\ view' = [view EXCEPT ![v] =
                      [stage |-> "sized", file |-> f, file_offset |-> AsSize(offset),
                       view_length |-> length, file_size |-> size, view_pointer |-> -1]]
    BY <1>4 DEF GetView
  <2>2. AsSize(offset) \in Sizes /\ length \in Sizes /\ size \in Sizes
    BY SizeFacts, ArgumentAssumption DEF TypeOK
  <2>3. TypeOK'
    BY <2>1, <2>2, GranularityAssumption DEF TypeOK
  <2>4. /\ view'[v].stage = "sized" /\ view'[v].file = f /\ view'[v].view_length = length
        /\ \A w \in Views \ {v} : view'[w] = view[w]
    BY <2>1 DEF TypeOK
  <2>5. HandleLifetime' /\ References'
    BY <2>1, <2>4, FileAssumption DEF HandleLifetime, References
  <2>6. section[v] = -1 /\ mapped[v] = 0
    BY <2>1 DEF HandleLifetime, Mappings
  <2>7. Sections'
    BY <2>1, <2>4, <2>6 DEF Sections, offset_plus_size
  <2>8. Mappings' /\ Requests'
    BY <2>1, <2>4, <2>6 DEF Mappings, Requests, MapOffset, MapLength
  <2> QED BY <2>3, <2>5, <2>7, <2>8
<1>5. ASSUME NEW v \in Views, CreateMapping(v) PROVE IInv'
  <2> DEFINE maximum == offset_plus_size(v)
  <2>1. /\ view[v].stage = "sized" /\ UNCHANGED <<exists, file, mapped>>
        /\ view' = [view EXCEPT ![v].stage = "section"]
    BY <1>5 DEF CreateMapping
  <2>2. maximum \in Nat /\ size \in 0 .. MaxFileSize
    BY ViewNumbers DEF TypeOK
  <2>3. PICK n \in 0 .. MaxFileSize :
          /\ section' = [section EXCEPT ![v] = n] /\ n <= size' /\ (maximum # 0 => n = maximum)
          /\ size' \in 0 .. MaxFileSize /\ size' >= size
    <3> HIDE DEF maximum
    <3>1. \/ maximum = 0 /\ section' = [section EXCEPT ![v] = size] /\ size' = size
          \/ maximum \in 1 .. size /\ section' = [section EXCEPT ![v] = maximum] /\ size' = size
          \/ maximum \in size + 1 .. MaxFileSize
               /\ section' = [section EXCEPT ![v] = maximum] /\ size' = maximum
      BY <1>5 DEF CreateMapping, maximum
    <3> QED BY <2>2, <3>1, SizeFacts
  <2>4. /\ view'[v].stage = "section" /\ view'[v].file = view[v].file
        /\ view'[v].file_offset = view[v].file_offset /\ view'[v].view_length = view[v].view_length
        /\ section'[v] = n
        /\ \A w \in Views \ {v} : view'[w] = view[w] /\ section'[w] = section[w]
    BY <2>1, <2>3 DEF TypeOK
  <2>5. TypeOK'
    BY <2>1, <2>3, SizeFacts DEF TypeOK
  <2>6. HandleLifetime' /\ References'
    <3>1. n # -1
      BY SizeFacts
    <3>2. \A w \in Views : view'[w].file = view[w].file
      BY <2>4
    <3>3. \A w \in Views : section'[w] # -1 <=> view'[w].stage \in {"section", "mapped"}
      BY <2>4, <3>1 DEF HandleLifetime
    <3>4. References'
      BY <2>1, <2>4 DEF References
    <3> QED BY <2>1, <3>2, <3>3, <3>4 DEF HandleLifetime
  <2>7. Sections'
    <3>1. offset_plus_size(v)' = maximum
      BY <2>4 DEF offset_plus_size
    <3>2. \A w \in Views \ {v} : section'[w] <= size'
      BY <2>2, <2>3, <2>4, SizeFacts DEF Sections, TypeOK
    <3>3. \A w \in Views \ {v} : offset_plus_size(w)' = offset_plus_size(w)
      BY <2>4 DEF offset_plus_size
    <3> QED BY <2>3, <2>4, <3>1, <3>2, <3>3 DEF Sections
  <2>8. Mappings' /\ Requests'
    BY <2>1, <2>4 DEF Mappings, Requests, MapOffset, MapLength
  <2> QED BY <2>5, <2>6, <2>7, <2>8
<1>6. ASSUME NEW v \in Views, MapView(v) PROVE IInv'
  <2> DEFINE length == IF MapLength(v) = 0 THEN section[v] - MapOffset(v) ELSE MapLength(v)
  <2>1. /\ view[v].stage = "section" /\ UNCHANGED <<exists, size, file, section>>
        /\ view' = [view EXCEPT ![v].stage = "mapped",
                               ![v].view_pointer = page_delta(view[v].file_offset)]
        /\ mapped' = [mapped EXCEPT ![v] = length]
        /\ length > 0 /\ MapOffset(v) + length <= section[v]
    BY <1>6 DEF MapView
  <2>2. MapOffset(v) \in Nat /\ MapLength(v) \in Nat /\ section[v] \in -1 .. MaxFileSize
    BY ViewNumbers DEF TypeOK
  <2>3. length \in 0 .. MaxFileSize /\ (MapLength(v) # 0 => length = MapLength(v))
    BY <2>1, <2>2, SizeFacts
  <2> HIDE DEF length
  <2>9. PICK delta \in -1 .. Granularity - 1 : delta = page_delta(view[v].file_offset)
    BY ViewNumbers, GranularityAssumption
  <2>10. view' = [view EXCEPT ![v].stage = "mapped", ![v].view_pointer = delta]
    BY <2>1, <2>9
  <2>4. /\ view'[v].stage = "mapped" /\ view'[v].file = view[v].file
        /\ view'[v].view_pointer = delta /\ view'[v].file_offset = view[v].file_offset
        /\ MapOffset(v)' = MapOffset(v) /\ MapLength(v)' = MapLength(v)
        /\ offset_plus_size(v)' = offset_plus_size(v) /\ view'[v].view_length = view[v].view_length
        /\ mapped'[v] = length
        /\ \A w \in Views \ {v} : view'[w] = view[w] /\ mapped'[w] = mapped[w]
    BY <2>1, <2>10 DEF TypeOK, MapOffset, MapLength, offset_plus_size
  <2>5. TypeOK'
    <3>1. view'[v] \in [stage : {"free", "sized", "section", "mapped"},
                        file : Files \cup {NoFile}, file_offset : Sizes, view_length : Sizes,
                        file_size : Sizes, view_pointer : -1 .. Granularity - 1]
      <4>1. PICK r : r = view[v]
        OBVIOUS
      <4>2. r \in [stage : {"free", "sized", "section", "mapped"},
                    file : Files \cup {NoFile}, file_offset : Sizes, view_length : Sizes,
                    file_size : Sizes, view_pointer : -1 .. Granularity - 1]
        BY <4>1 DEF TypeOK
      <4>3. view'[v] = [r EXCEPT !.stage = "mapped", !.view_pointer = delta]
        BY <2>10, <4>1 DEF TypeOK
      <4> QED BY <4>2, <4>3
    <3>2. view' = [view EXCEPT ![v] = view'[v]]
      BY <2>10 DEF TypeOK
    <3> QED BY <2>1, <2>3, <3>1, <3>2 DEF TypeOK
  <2>6. HandleLifetime' /\ References'
    <3>1. \A w \in Views : view'[w].file = view[w].file
      BY <2>4
    <3>2. \A w \in Views : view'[w].stage \in {"section", "mapped"}
                             <=> view[w].stage \in {"section", "mapped"}
      BY <2>1, <2>4
    <3>3. References'
      BY <2>1, <2>4 DEF References
    <3>4. file' = file /\ section' = section
      BY <2>1
    <3>5. HandleLifetime
      OBVIOUS
    <3>6. HandleLifetime'
      BY ONLY <3>1, <3>2, <3>4, <3>5 DEF HandleLifetime
    <3> QED BY <3>3, <3>6
  <2>7. Sections'
    <3>1. \A w \in Views : offset_plus_size(w)' = offset_plus_size(w)
      BY <2>4 DEF offset_plus_size
    <3> QED BY <2>1, <3>1 DEF Sections
  <2>8. Mappings' /\ Requests'
    <3>1. \A w \in Views \ {v} : MapOffset(w)' = MapOffset(w) /\ MapLength(w)' = MapLength(w)
      BY <2>4 DEF MapOffset, MapLength
    <3>2. view'[v].view_pointer = page_delta(view'[v].file_offset)
      BY <2>4, <2>9
    <3> QED BY <2>1, <2>3, <2>4, <3>1, <3>2 DEF Mappings, Requests
  <2> QED BY <2>5, <2>6, <2>7, <2>8
<1>7. ASSUME NEW v \in Views, Destroy(v) PROVE IInv'
  <2>1. view[v].stage # "free" /\ Unmap(v) /\ Release(v) /\ UNCHANGED <<exists, size>>
    BY <1>7 DEF Destroy
  <2>2. CASE view[v].stage = "mapped"
    BY <2>1, <2>2, DataFacts, ReleaseInv DEF Unmap
  <2>3. CASE view[v].stage # "mapped"
    <3>1. mapped[v] = 0 /\ mapped' = [mapped EXCEPT ![v] = 0]
      BY <2>1, <2>3 DEF Unmap, Mappings, TypeOK
    <3> QED BY <2>1, <3>1, ReleaseInv
  <2> QED BY <2>2, <2>3
<1>8. CASE UNCHANGED vars
  <2>1. UNCHANGED <<exists, size, file, view, section, mapped>>
    BY <1>8 DEF vars
  <2>2. TypeOK' /\ HandleLifetime' /\ References'
    BY <2>1 DEF TypeOK, HandleLifetime, References
  <2>3. size' \in 0 .. MaxFileSize /\ size' >= size
    BY <2>1, SizeFacts DEF TypeOK
  <2> QED BY <2>1, <2>2, <2>3, OtherFieldsInv
<1> QED
  BY <1>1, <1>2, <1>3, <1>4, <1>5, <1>6, <1>7, <1>8 DEF Next, FileStep, ViewStep

LEMMA Inductive == Spec => []IInv
<1> QED BY InitInv, StepInv, PTL DEF Spec

\* Sizes, sections and mappings stay within the largest file, and the fields
\* of a view are words whatever it was asked for.
THEOREM TypeCorrect == Spec => []TypeOK
<1>1. IInv => TypeOK
  BY DEF IInv
<1> QED BY Inductive, <1>1, PTL

\* File handles and section handles are open exactly as long as something
\* needs them.
THEOREM HandlesLiveAsLongAsNeeded == Spec => []HandleLifetime
<1>1. IInv => HandleLifetime
  BY DEF IInv
<1> QED BY Inductive, <1>1, PTL

\* A view that is gone, or that never got past a failure of get_view, maps
\* nothing, also when it was opened with length zero: for every granularity and
\* offset ~View gets from the pointer of the view back to the address that
\* MapViewOfFile returned, the only one UnmapViewOfFile takes.
THEOREM NoMappingLeaks == Spec => []NothingLeaks
<1>1. IInv => NothingLeaks
  BY DEF IInv, Mappings, NothingLeaks
<1> QED BY Inductive, <1>1, PTL

\* The bytes of every mapped view are bytes of the file, for every access and
\* any number of callers, as long as nobody asks for all but the last bytes of
\* the address space (page_delta + view_length must not wrap).
THEOREM ViewsStayBacked ==
  ASSUME \A length \in LengthArgs : length + Granularity <= Word
  PROVE  Spec => []ViewsBacked
<1>1. IInv => ViewsBacked
  <2> SUFFICES ASSUME IInv, NEW v \in Views, view[v].stage = "mapped"
               PROVE  /\ MapOffset(v) + mapped[v] <= size
                      /\ view[v].view_length # 0 =>
                           page_delta(view[v].file_offset) + view[v].view_length <= mapped[v]
    BY DEF ViewsBacked
  <2> DEFINE delta == page_delta(view[v].file_offset)
             l     == view[v].view_length
  <2>1. MapOffset(v) \in Nat /\ mapped[v] \in Nat /\ section[v] \in Int /\ size \in Nat
    BY ViewNumbers, SizeFacts DEF IInv, TypeOK
  <2>2. MapOffset(v) + mapped[v] <= section[v] /\ section[v] <= size
    BY DEF IInv, Mappings, Sections
  <2>3. ASSUME l # 0 PROVE delta + l <= mapped[v]
    <3>1. l + Granularity <= Word
      BY DEF IInv, Requests
    <3>2. l \in Nat /\ delta \in 0 .. Granularity - 1
      BY ViewNumbers DEF IInv
    <3>3. MapLength(v) = Plus(delta, l)
      BY <2>3 DEF MapLength, map_length, mapping_size
    <3> HIDE DEF delta, l
    <3>4. MapLength(v) = delta + l /\ MapLength(v) # 0
      BY <2>3, <3>1, <3>2, <3>3, GranularityAssumption, SizeFacts DEF Plus
    <3>5. mapped[v] = MapLength(v)
      BY <3>4 DEF IInv, Mappings
    <3> QED BY <3>2, <3>4, <3>5
  <2> QED BY <2>1, <2>2, <2>3
<1> QED BY Inductive, <1>1, PTL

\* flush gives FlushViewOfFile the whole mapping, also for a view opened with
\* length zero: it is asked for nothing then, which stands for all, or for
\* what lies before the end of the section.
THEOREM FlushCovers ==
  ASSUME \A length \in LengthArgs : length + Granularity <= Word
  PROVE  Spec => []FlushCoversMapping
<1>1. IInv => FlushCoversMapping
  <2> SUFFICES ASSUME IInv, NEW v \in Views, view[v].stage = "mapped"
               PROVE  mapped_size(v) = 0 \/ mapped_size(v) >= mapped[v]
    BY DataFacts DEF FlushCoversMapping
  <2> DEFINE o     == view[v].file_offset
             delta == page_delta(o)
             l     == view[v].view_length
  <2>1. /\ MapOffset(v) \in Nat /\ o \in Nat /\ delta = o - MapOffset(v)
        /\ delta \in 0 .. Granularity - 1 /\ l \in Nat /\ MapOffset(v) <= o
    BY ViewNumbers DEF IInv
  <2>2. mapped[v] \in Nat /\ section[v] \in Int
    BY SizeFacts DEF IInv, TypeOK
  <2>3. MapOffset(v) + mapped[v] <= section[v] /\ section[v] # -1
    BY DEF IInv, Mappings, HandleLifetime
  <2>4. o < Word /\ Word \in Nat
    BY SizeFacts DEF IInv, TypeOK, Sizes
  <2>5. mapped_size(v) = Plus(l, delta) /\ offset_plus_size(v) = Plus(o, l)
    BY DataFacts DEF offset_plus_size
  <2>6. CASE l = 0
    <3> HIDE DEF o, delta, l
    <3>1. mapped_size(v) = delta /\ offset_plus_size(v) = o
      BY <2>1, <2>4, <2>5, <2>6 DEF Plus
    <3>2. CASE o = 0
      BY <2>1, <3>1, <3>2
    <3>3. CASE o # 0
      <4>1. section[v] = o
        BY <2>3, <3>1, <3>3 DEF IInv, Sections
      <4> QED BY <2>1, <2>2, <2>3, <3>1, <4>1
    <3> QED BY <3>2, <3>3
  <2>7. CASE l # 0
    <3>1. l + Granularity <= Word
      BY DEF IInv, Requests
    <3>2. MapLength(v) = Plus(delta, l)
      BY <2>7 DEF MapLength, map_length, mapping_size
    <3> HIDE DEF o, delta, l
    <3>3. MapLength(v) = delta + l /\ MapLength(v) # 0 /\ mapped_size(v) = delta + l
      BY <2>1, <2>5, <2>7, <3>1, <3>2, GranularityAssumption, SizeFacts DEF Plus
    <3>4. mapped[v] = MapLength(v)
      BY <3>3 DEF IInv, Mappings
    <3> QED BY <2>2, <3>3, <3>4
  <2> QED BY <2>6, <2>7
<1> QED BY Inductive, <1>1, PTL
=============================================================================
