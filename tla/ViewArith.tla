------------------------------ MODULE ViewArith ------------------------------
(***************************************************************************)
(* The unsigned arithmetic every mapped file operation rests on: the size  *)
(* allowance of a transfer, the clamp of a seek, and the offsets and       *)
(* lengths handed to mmap, msync and munmap (POSIX build).                 *)
(*                                                                         *)
(* StorageSize and size_t are unsigned machine words, StorageOffset is a   *)
(* signed word of the same width (Storage/Core.hpp): both wrap here too.   *)
(***************************************************************************)
EXTENDS Integers

CONSTANTS HalfWord,    \* 2^63 in the code: one past the largest StorageOffset
          Granularity  \* get_granularity(): the page size

ASSUME HalfWordAssumption == HalfWord \in Nat \ {0}
ASSUME GranularityAssumption == Granularity \in Nat \ {0}

Word    == 2 * HalfWord
Sizes   == 0 .. Word - 1
Offsets == -HalfWord .. HalfWord - 1

\* Conversions between StorageOffset and StorageSize keep the bit pattern.
AsSize(o)   == IF o < 0 THEN o + Word ELSE o
AsOffset(s) == IF s < HalfWord THEN s ELSE s - Word

\* + and - of two words; the result is reduced modulo Word.
Plus(a, b)  == IF a + b < Word THEN a + b ELSE a + b - Word
Minus(a, b) == IF a >= b THEN a - b ELSE a - b + Word

Min2(a, b) == IF a <= b THEN a ELSE b

-----------------------------------------------------------------------------
(* Transfers and seeks within a view (or a platform file) of a given length *)

\* Fault: answers with the overshoot instead of taking it off the request.
Faulty_calculate_allowance(length, offset, requested) ==
  LET new_offset == Plus(offset, requested)
  IN  IF offset >= length THEN 0
      ELSE IF new_offset > length THEN Minus(new_offset, length)
           ELSE requested

\* View::calculate_allowance: how much of the request fits behind offset.
calculate_allowance(length, offset, requested) ==
  LET new_offset == Plus(offset, requested)
  IN  IF offset >= length THEN 0
      ELSE IF new_offset > length
           THEN Minus(requested, Minus(new_offset, length))
           ELSE requested

Whence == {"Set", "Current", "End"}

\* The store seek makes before it clamps: only the Current branch writes to
\* the cursor member itself (cursor += offset).
seek_early_store(cursor, offset, whence) ==
  IF whence = "Current" THEN cursor + offset ELSE cursor

\* Fault: clamps the offset it was given instead of the position it computed.
Faulty_seek_target(length, cursor, offset, whence) ==
  LET cur == CASE whence = "Set"     -> offset
               [] whence = "Current" -> cursor
               [] whence = "End"     -> AsOffset(Plus(length, AsSize(offset)))
  IN  IF offset < 0 THEN 0
      ELSE IF AsSize(offset) > length THEN AsOffset(length)
      ELSE cur

\* The value seek finally leaves in the cursor.  cur is a copy of the cursor
\* made before the branches run, and the Current branch does not update it.
seek_target(length, cursor, offset, whence) ==
  LET cur == CASE whence = "Set"     -> offset
               [] whence = "Current" -> cursor
               [] whence = "End"     -> AsOffset(Plus(length, AsSize(offset)))
  IN  IF offset < 0 THEN 0
      ELSE IF AsSize(cur) > length THEN AsOffset(length)
      ELSE cur

-----------------------------------------------------------------------------
(* Mapping geometry: View::open_mapping, View::flush and View::~View        *)

\* A length of zero stands for "from file_offset to the end of the file".
mapping_size(file_offset, view_length, file_size) ==
  IF view_length = 0 THEN Minus(file_size, file_offset) ELSE view_length

real_offset(file_offset) == (file_offset \div Granularity) * Granularity

\* Distance from the start of the mapping to the first byte of the view.
page_delta(file_offset) == Minus(file_offset, real_offset(file_offset))

\* Fault: forgets that the mapping starts before the view.
Faulty_map_length(file_offset, view_length, file_size) ==
  mapping_size(file_offset, view_length, file_size)

\* The length handed to mmap ...
map_length(file_offset, view_length, file_size) ==
  Plus(page_delta(file_offset),
       mapping_size(file_offset, view_length, file_size))

\* Fault: counts from the view instead of from the start of its page.
Faulty_release_length(file_offset, view_length) == view_length

\* ... and the one flush and the destructor work out again from the view.
release_length(file_offset, view_length) ==
  Plus(view_length, page_delta(file_offset))

\* Fault: compares the length alone with the file size.
Faulty_mapping_end(file_offset, view_length, file_size) ==
  mapping_size(file_offset, view_length, file_size)

\* The end of the view as open_mapping compares it with the file size.
mapping_end(file_offset, view_length, file_size) ==
  Plus(file_offset, mapping_size(file_offset, view_length, file_size))

\* Pages the kernel maps, writes back or unmaps for a given length.
PagesOf(length) == (length + Granularity - 1) \div Granularity
=============================================================================
