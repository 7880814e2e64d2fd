--------------------------- MODULE ViewArithProofs ---------------------------
(***************************************************************************)
(* What the arithmetic of ViewArith guarantees for every word size and     *)
(* every page size.                                                        *)
(***************************************************************************)
EXTENDS ViewArith, TLAPS

\* calculate_allowance answers with the part of the request that lies between
\* the offset and the end of the view, as long as offset + requested does not
\* wrap below the length (source/common/Storage/View.cpp:91).
THEOREM AllowanceFits ==
  ASSUME NEW length \in Sizes, NEW offset \in Sizes, NEW requested \in Sizes,
         offset >= length \/ offset + requested < Word
  PROVE  calculate_allowance(length, offset, requested)
           = IF offset >= length THEN 0 ELSE Min2(requested, length - offset)
BY HalfWordAssumption
   DEF Sizes, Word, calculate_allowance, Plus, Minus, Min2

\* The condition cannot go: where offset + requested wraps, as for a caller who
\* asks for "all that is left" with the largest size, the request is granted
\* whole, whatever the length.
THEOREM WrappedRequestIsGranted ==
  ASSUME NEW length \in Sizes, NEW offset \in Sizes, NEW requested \in Sizes,
         offset < length, offset + requested >= Word
  PROVE  /\ calculate_allowance(length, offset, requested) = requested
         /\ requested > length - offset
BY HalfWordAssumption DEF Sizes, Word, calculate_allowance, Plus, Minus

\* A seek leaves the cursor inside the view, wherever it was before and
\* whatever the offset and the origin are.
THEOREM SeekLands ==
  ASSUME NEW length \in 0 .. HalfWord - 1, NEW cursor \in Offsets,
         NEW offset \in Offsets, NEW whence \in Whence
  PROVE  seek_target(length, cursor, offset, whence) \in 0 .. length
<1>1. AsOffset(length) = length
  BY HalfWordAssumption DEF AsOffset
<1>2. CASE offset < 0
  BY <1>2 DEF seek_target
<1>3. CASE offset >= 0
  <2>1. /\ AsOffset(Plus(length, AsSize(offset))) \in Offsets
        /\ AsSize(AsOffset(Plus(length, AsSize(offset)))) = length + offset
    BY <1>3, HalfWordAssumption DEF Plus, AsOffset, AsSize, Word, Offsets
  <2>2. \A cur \in Offsets : ~ AsSize(cur) > length => cur \in 0 .. length
    BY HalfWordAssumption DEF AsSize, Offsets, Word
  <2>3. CASE whence = "Set"
    BY <1>1, <1>3, <2>2, <2>3 DEF seek_target
  <2>4. CASE whence = "Current"
    BY <1>1, <1>3, <2>2, <2>4 DEF seek_target
  <2>5. CASE whence = "End"
    BY <1>1, <1>3, <2>1, <2>2, <2>5 DEF seek_target
  <2> QED BY <2>3, <2>4, <2>5 DEF Whence
<1> QED BY <1>2, <1>3 DEF Offsets

\* An absolute or end-relative seek forward lands on the position asked for,
\* when there is one.
THEOREM SeekReaches ==
  ASSUME NEW length \in 0 .. HalfWord - 1, NEW cursor \in Offsets, NEW offset \in Offsets,
         offset >= 0
  PROVE  /\ offset <= length => seek_target(length, cursor, offset, "Set") = offset
         /\ length + offset <= length => seek_target(length, cursor, offset, "End") = length + offset
<1>1. offset <= length => seek_target(length, cursor, offset, "Set") = offset
  BY HalfWordAssumption DEF seek_target, AsSize, Offsets
<1>2. ASSUME offset = 0 PROVE seek_target(length, cursor, offset, "End") = length
  <2>1. AsOffset(Plus(length, AsSize(offset))) = length
    BY <1>2, HalfWordAssumption DEF Plus, AsOffset, AsSize, Word
  <2> QED BY <1>2, <2>1, HalfWordAssumption DEF seek_target, AsSize
<1> QED BY <1>1, <1>2 DEF Offsets

\* A seek forward from the current position does not move the cursor, however
\* far it is told to go, and one back from the end goes to the start of the view.
\* The comments on these branches say "current + offset" and "end + offset"
\* (source/common/Storage/View.cpp:39 and 45).
THEOREM RelativeSeekStays ==
  ASSUME NEW length \in 0 .. HalfWord - 1, NEW cursor \in 0 .. length, NEW offset \in Offsets
  PROVE  /\ offset >= 0 => seek_target(length, cursor, offset, "Current") = cursor
         /\ offset < 0 => seek_target(length, cursor, offset, "End") = 0
<1>1. offset >= 0 => seek_target(length, cursor, offset, "Current") = cursor
  BY HalfWordAssumption DEF seek_target, AsSize, Offsets
<1>2. offset < 0 => seek_target(length, cursor, offset, "End") = 0
  BY DEF seek_target
<1> QED BY <1>1, <1>2

\* Rounding down to a page stays within a page of where it started.
LEMMA RealOffset ==
  ASSUME NEW file_offset \in Sizes
  PROVE  /\ real_offset(file_offset) \in 0 .. file_offset
         /\ real_offset(file_offset) % Granularity = 0
         /\ page_delta(file_offset) = file_offset - real_offset(file_offset)
         /\ page_delta(file_offset) \in 0 .. Granularity - 1
<1> DEFINE q == file_offset \div Granularity
<1>1. file_offset \in Nat /\ Granularity \in Nat \ {0}
  BY HalfWordAssumption, GranularityAssumption DEF Sizes, Word
<1>2. q \in Nat /\ q * Granularity <= file_offset /\ file_offset < q * Granularity + Granularity
  BY <1>1, SMTT(30)
<1>3. (q * Granularity) % Granularity = 0
  BY <1>1, <1>2, SMTT(30)
<1>4. real_offset(file_offset) = q * Granularity /\ real_offset(file_offset) \in Nat
  BY <1>1, <1>2 DEF real_offset
<1> HIDE DEF q
<1> QED BY <1>1, <1>2, <1>3, <1>4 DEF page_delta, Minus

\* A length fits into the pages that are mapped for it.
LEMMA PagesHold ==
  ASSUME NEW length \in Nat
  PROVE  PagesOf(length) \in Nat /\ Granularity * PagesOf(length) >= length
<1> DEFINE up == length + Granularity - 1
           q  == up \div Granularity
<1>1. up \in Nat /\ Granularity \in Nat \ {0}
  BY GranularityAssumption
<1>2. q \in Nat /\ q * Granularity <= up /\ up < q * Granularity + Granularity
  BY <1>1, SMTT(30)
<1>3. Granularity * q = q * Granularity
  BY <1>1, <1>2, SMTT(30)
<1>4. PagesOf(length) = q
  BY DEF PagesOf
<1>5. Granularity * q \in Nat /\ q * Granularity \in Nat
  BY <1>1, <1>2, SMTT(30)
<1>6. up = length + Granularity - 1
  OBVIOUS
<1> HIDE DEF q, up
<1> QED BY <1>1, <1>2, <1>3, <1>4, <1>5, <1>6

\* flush and ~View work with the region mmap was given, wherever the view
\* starts in its page, unless the view was opened with a length of zero.
THEOREM ReleaseMatchesMap ==
  ASSUME NEW file_offset \in Sizes, NEW view_length \in Sizes, NEW file_size \in Sizes,
         view_length # 0
  PROVE  release_length(file_offset, view_length)
           = map_length(file_offset, view_length, file_size)
<1>1. page_delta(file_offset) \in Nat
  BY RealOffset, GranularityAssumption
<1> QED BY <1>1, HalfWordAssumption
        DEF release_length, map_length, mapping_size, Plus, Sizes, Word

\* A view that starts on a page boundary and was opened with a length of zero,
\* for which the whole file was mapped, is unmapped with a length of zero, that
\* is, not at all: "an explicit deconstruct is required to ensure ... all maps
\* are properly torn down" (Storage/File.hpp:373).
THEOREM ZeroLengthIsNotReleased ==
  ASSUME NEW file_offset \in Sizes, real_offset(file_offset) = file_offset,
         NEW file_size \in Sizes
  PROVE  /\ release_length(file_offset, 0) = 0
         /\ map_length(file_offset, 0, file_size) = Minus(file_size, file_offset)
<1>1. page_delta(file_offset) = 0
  BY HalfWordAssumption DEF page_delta, Minus, Sizes, Word
<1>2. Minus(file_size, file_offset) \in Sizes
  BY HalfWordAssumption DEF Minus, Sizes, Word
<1> QED BY <1>1, <1>2, HalfWordAssumption
        DEF release_length, map_length, mapping_size, Plus, Sizes, Word

\* The pages that are mapped, counted from the page boundary the mapping
\* starts on, reach the end of the view, when that end is an address at all.
THEOREM MappedPagesHoldView ==
  ASSUME NEW file_offset \in Sizes, NEW view_length \in Sizes, NEW file_size \in Sizes,
         file_offset + mapping_size(file_offset, view_length, file_size) < Word
  PROVE  real_offset(file_offset)
           + Granularity * PagesOf(map_length(file_offset, view_length, file_size))
           >= mapping_end(file_offset, view_length, file_size)
<1> DEFINE ms == mapping_size(file_offset, view_length, file_size)
           ro == real_offset(file_offset)
           pd == page_delta(file_offset)
           ml == map_length(file_offset, view_length, file_size)
<1>1. ms \in Nat
  BY HalfWordAssumption DEF mapping_size, Minus, Sizes, Word
<1>2. ro \in Nat /\ ro <= file_offset /\ pd = file_offset - ro /\ file_offset \in Nat
  BY RealOffset, HalfWordAssumption DEF Sizes, Word
<1>3. Word \in Nat
  BY HalfWordAssumption DEF Word
<1>4. file_offset + ms < Word
  OBVIOUS
<1>5. mapping_end(file_offset, view_length, file_size) = Plus(file_offset, ms)
  BY DEF mapping_end
<1>6. ml = Plus(pd, ms)
  BY DEF map_length
<1> HIDE DEF ms, ro, pd, ml
<1>7. mapping_end(file_offset, view_length, file_size) = file_offset + ms
  BY <1>1, <1>2, <1>3, <1>4, <1>5 DEF Plus
<1>8. ml = pd + ms /\ ml \in Nat
  BY <1>1, <1>2, <1>3, <1>4, <1>6 DEF Plus
<1>9. Granularity * PagesOf(ml) >= ml /\ Granularity * PagesOf(ml) \in Nat
  <2>1. PagesOf(ml) \in Nat /\ Granularity * PagesOf(ml) >= ml
    BY <1>8, PagesHold
  <2> QED BY <2>1, GranularityAssumption, SMTT(30)
<1>10. ro + Granularity * PagesOf(ml) >= file_offset + ms
  BY <1>1, <1>2, <1>8, <1>9
<1> QED BY <1>7, <1>10 DEF ro, ml
=============================================================================
