----------------------------- MODULE MCViewArith -----------------------------
(***************************************************************************)
(* A driver that calls the arithmetic of ViewArith with every argument of  *)
(* a small word and compares it with reference definitions over unbounded  *)
(* integers.  call is the call being evaluated, or Idle.                   *)
(***************************************************************************)
EXTENDS ViewArith

CONSTANTS MaxLength,   \* lengths and cursors enumerated: 0 .. MaxLength
          MaxRequest,  \* requested sizes enumerated: 0 .. MaxRequest
          MaxOffset,   \* seek offsets enumerated: -MaxOffset .. MaxOffset
          Idle

VARIABLE call

Lengths == 0 .. MaxLength

TransferCalls ==
  [kind : {"transfer"}, length : Lengths, offset : Sizes, requested : 0 .. MaxRequest]

SeekCalls ==
  {c \in [kind : {"seek"}, length : Lengths, cursor : Lengths,
          offset : -MaxOffset .. MaxOffset, whence : Whence] :
     c.cursor <= c.length}

Init == call = Idle

Transfer == call = Idle /\ call' \in TransferCalls
SeekTo   == call = Idle /\ call' \in SeekCalls
Return   == call # Idle /\ call' = Idle

Next == Transfer \/ SeekTo \/ Return

Spec == Init /\ [][Next]_call

-----------------------------------------------------------------------------
Calls(kind) == call # Idle /\ call.kind = kind

\* "The maximum number of bytes which can be written to, or read from, based
\* on a given offset and requested size" (Storage/File.hpp:184): the request,
\* cut to what lies between the offset and the end of the view, unless their
\* sum wraps (source/common/Storage/View.cpp:91).
AllowanceIsWhatFits ==
  Calls("transfer") /\ (call.offset >= call.length \/ call.offset + call.requested < Word) =>
    calculate_allowance(call.length, call.offset, call.requested)
      = IF call.offset >= call.length THEN 0
        ELSE Min2(call.requested, call.length - call.offset)

\* A seek always lands inside the view, and an absolute or end-relative seek
\* forward lands on the position asked for when that position exists.
SeekLandsInside ==
  Calls("seek") =>
    LET target == seek_target(call.length, call.cursor, call.offset, call.whence)
        asked  == IF call.whence = "Set" THEN call.offset ELSE call.length + call.offset
    IN  /\ target \in 0 .. call.length
        /\ call.whence # "Current" /\ asked \in 0 .. call.length /\ call.offset >= 0
             => target = asked
=============================================================================
