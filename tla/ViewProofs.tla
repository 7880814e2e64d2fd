------------------------------ MODULE ViewProofs ------------------------------
(***************************************************************************)
(* The safety properties of View for any number of threads, any length of  *)
(* the view and any offsets, and for requests that do not wrap             *)
(* (RequestAssumption).  The four invariants the runs check need each      *)
(* other: a transfer stays inside the view because the cursor it started   *)
(* from did, and the cursor stays inside because only the thread that      *)
(* holds the lock moves it, by what it transferred.  CallShape adds what   *)
(* the program counter says of the locals of a call.                       *)
(*                                                                         *)
(* On the same invariant rests the refinement of AtomicStream, for threads *)
(* that use only the locking calls.                                        *)
(***************************************************************************)
EXTENDS View, ViewArithProofs

\* Every call carries the arguments its operation uses.
LEMMA CallTypes ==
  ASSUME NEW c \in Calls
  PROVE  /\ c.op \in LockedTransfers \cup UnlockedTransfers \cup {"seek"}
         /\ c.op \in LockedTransfers \cup UnlockedTransfers => c.requested \in Requests
         /\ c.op \in UnlockedTransfers => c.offset \in FromOffsets
         /\ c.op \in (LockedTransfers \cup UnlockedTransfers) \ Reads => c.byte \in Bytes
         /\ c.op = "seek" => c.offset \in SeekOffsets /\ c.whence \in Whence
BY DEF Calls, LockedTransfers, UnlockedTransfers, Reads

\* A thread inside the view has a call; its operation says which of the two
\* kinds of step it is in, and a seek settles inside the view.
CallShape ==
  \A t \in Threads :
    /\ pc[t] # "idle" => call[t] \in Calls
    /\ pc[t] = "copy" => call[t].op \in LockedTransfers \cup UnlockedTransfers
    /\ pc[t] = "settle" => call[t].op = "seek" /\ at[t] \in 0 .. ViewLength

IInv == TypeOK /\ CallShape /\ LockDiscipline /\ CursorInView /\ TransferFollowsCursor

\* Numbers the proofs need: lengths, requests and positions are words.
LEMMA WordFacts ==
  /\ HalfWord \in Nat \ {0} /\ Word \in Nat /\ HalfWord < Word
  /\ ViewLength \in Nat \ {0} /\ ViewLength < HalfWord /\ ViewLength \in Sizes
  /\ \A n \in Requests : n \in Nat /\ n \in Sizes /\ ViewLength + n < Word
BY HalfWordAssumption, LengthAssumption, RequestAssumption DEF Word, Sizes, AsSize

\* A transfer that starts at a position in the view, or at an offset the
\* caller made up, moves only bytes of the view.
LEMMA TransferFits ==
  ASSUME NEW from \in Offsets, NEW n \in Requests
  PROVE  LET c == calculate_allowance(ViewLength, AsSize(from), n)
         IN  /\ c \in Nat
             /\ from .. from + c - 1 \subseteq Positions
             /\ from \in 0 .. ViewLength => from + c <= ViewLength
<1> DEFINE c == calculate_allowance(ViewLength, AsSize(from), n)
<1>1. AsSize(from) \in Sizes /\ from \in Int /\ (from < 0 => AsSize(from) >= ViewLength)
  BY WordFacts, LengthAssumption DEF AsSize, Offsets, Sizes, Word
<1>2. from >= 0 => AsSize(from) = from
  BY WordFacts DEF AsSize, Offsets
<1>3. AsSize(from) >= ViewLength \/ AsSize(from) + n < Word
  BY <1>1, WordFacts DEF Sizes
<1>4. c = IF AsSize(from) >= ViewLength THEN 0 ELSE Min2(n, ViewLength - AsSize(from))
  BY <1>1, <1>3, WordFacts, AllowanceFits
<1> HIDE DEF c
<1>5. CASE AsSize(from) >= ViewLength
  <2>1. c = 0
    BY <1>4, <1>5
  <2> QED BY <1>1, <2>1 DEF c
<1>6. CASE AsSize(from) < ViewLength
  <2>1. from \in 0 .. ViewLength - 1 /\ AsSize(from) = from
    <3>1. ~ (from < 0)
      BY <1>1, <1>6, WordFacts DEF Sizes
    <3> QED BY <1>1, <1>2, <1>6, <3>1, LengthAssumption
  <2>2. c = Min2(n, ViewLength - from)
    BY <1>4, <2>1, WordFacts
  <2>3. c \in Nat /\ from + c <= ViewLength
    BY <2>1, <2>2, WordFacts DEF Min2
  <2> QED BY <2>1, <2>3, WordFacts DEF Positions, c
<1> QED BY <1>1, <1>5, <1>6, WordFacts DEF Sizes

\* A seek that starts with the cursor in the view settles in the view.
LEMMA SeekFits ==
  ASSUME NEW c \in Calls, c.op = "seek", cursor \in 0 .. ViewLength
  PROVE  seek_target(ViewLength, cursor, c.offset, c.whence) \in 0 .. ViewLength
<1>1. c.offset \in Offsets /\ c.whence \in Whence
  BY CallTypes, OffsetAssumption
<1>2. ViewLength \in 0 .. HalfWord - 1 /\ cursor \in Offsets
  BY LengthAssumption, HalfWordAssumption DEF Offsets
<1> QED BY <1>1, <1>2, SeekLands

\* The invariant holds in every initial state ...
LEMMA InitInv == Init => IInv
<1> SUFFICES ASSUME Init PROVE IInv
  OBVIOUS
<1>1. TypeOK
  BY DEF Init, TypeOK, Empty
<1>2. CallShape
  BY DEF Init, CallShape
<1>3. LockDiscipline
  BY ThreadAssumption DEF Init, LockDiscipline, Holds
<1>4. CursorInView
  BY WordFacts DEF Init, CursorInView
<1>5. TransferFollowsCursor
  BY DEF Init, TransferFollowsCursor
<1> QED BY <1>1, <1>2, <1>3, <1>4, <1>5 DEF IInv

\* What the call of t may move from there.
Allowed(t, from) == calculate_allowance(ViewLength, AsSize(from), call[t].requested)

\* StartTransfer, whichever call it belongs to.
LEMMA StartTransferInv ==
  ASSUME CallShape, NEW t \in Threads, NEW from \in Offsets,
         pc[t] = "enter", call[t].op \in LockedTransfers \cup UnlockedTransfers,
         StartTransfer(t, from)
  PROVE  /\ at' = [at EXCEPT ![t] = from]
         /\ pc' = [pc EXCEPT ![t] = "copy"]
         /\ count' = [count EXCEPT ![t] = Allowed(t, from)]
         /\ todo' = [todo EXCEPT ![t] = from .. from + Allowed(t, from) - 1]
         /\ Allowed(t, from) \in Nat
         /\ from .. from + Allowed(t, from) - 1 \subseteq Positions
         /\ from \in 0 .. ViewLength => from + Allowed(t, from) <= ViewLength
<1>1. call[t] \in Calls
  BY DEF CallShape
<1>2. call[t].requested \in Requests
  BY <1>1, CallTypes
<1>3. /\ Allowed(t, from) \in Nat
      /\ from .. from + Allowed(t, from) - 1 \subseteq Positions
      /\ from \in 0 .. ViewLength => from + Allowed(t, from) <= ViewLength
  BY <1>2, TransferFits DEF Allowed
<1> QED BY <1>3 DEF StartTransfer, Allowed

\* The end of a call, with or without giving the lock back.
LEMMA LeaveInv ==
  ASSUME IInv, NEW t \in Threads, Leave(t), UNCHANGED bytes,
         \/ rw_mutex = t /\ rw_mutex' = NoThread /\ cursor' \in 0 .. ViewLength
         \/ ~ Holds(t) /\ UNCHANGED <<cursor, rw_mutex>>
  PROVE  IInv'
<1>1. TypeOK /\ CallShape /\ LockDiscipline /\ CursorInView /\ TransferFollowsCursor
  BY DEF IInv
<1>2. /\ pc' = [pc EXCEPT ![t] = "idle"] /\ call' = [call EXCEPT ![t] = NoCall]
      /\ at' = [at EXCEPT ![t] = 0] /\ count' = [count EXCEPT ![t] = 0]
      /\ todo' = [todo EXCEPT ![t] = {}] /\ received' = [received EXCEPT ![t] = Empty]
  BY DEF Leave
<1>3. cursor' \in Int
  BY <1>1, WordFacts DEF TypeOK
<1>4. TypeOK'
  BY <1>1, <1>2, <1>3 DEF TypeOK, Empty
<1>5. CallShape'
  BY <1>1, <1>2 DEF TypeOK, CallShape
<1>6. \A u \in Threads \ {t} : Holds(u)' <=> Holds(u)
  BY <1>1, <1>2 DEF TypeOK, Holds
<1>7. ~ Holds(t)'
  BY <1>1, <1>2 DEF TypeOK, Holds
<1>8. LockDiscipline'
  BY <1>1, <1>6, <1>7, ThreadAssumption DEF LockDiscipline
<1>9. CursorInView'
  BY <1>1 DEF CursorInView
<1>10. TransferFollowsCursor'
  <2> SUFFICES ASSUME NEW u \in Threads, pc'[u] = "copy", call'[u].op \in LockedTransfers
               PROVE  /\ at'[u] = cursor' /\ cursor' >= 0 /\ cursor' + count'[u] <= ViewLength
                      /\ todo'[u] \subseteq at'[u] .. at'[u] + count'[u] - 1
    BY DEF TransferFollowsCursor
  <2>1. u # t
    BY <1>1, <1>2 DEF TypeOK
  <2>2. /\ pc[u] = "copy" /\ call[u].op \in LockedTransfers
        /\ at'[u] = at[u] /\ count'[u] = count[u] /\ todo'[u] = todo[u]
    BY <1>1, <1>2, <2>1 DEF TypeOK
  <2>3. rw_mutex = u
    BY <1>1, <2>2 DEF LockDiscipline, Holds
  <2>4. UNCHANGED cursor
    BY <2>1, <2>3
  <2> QED BY <1>1, <2>2, <2>4 DEF TransferFollowsCursor
<1> QED BY <1>4, <1>5, <1>8, <1>9, <1>10 DEF IInv

\* ... every step preserves it ...
LEMMA StepInv == IInv /\ [Next]_vars => IInv'
<1> SUFFICES ASSUME IInv, TypeOK, CallShape, LockDiscipline, CursorInView,
                    TransferFollowsCursor, [Next]_vars
             PROVE  IInv'
  BY DEF IInv
<1>1. ASSUME NEW t \in Threads, Invoke(t) PROVE IInv'
  <2>1. PICK c \in Calls : call' = [call EXCEPT ![t] = c]
    BY <1>1 DEF Invoke
  <2>2. pc[t] = "idle" /\ pc' = [pc EXCEPT ![t] = "enter"]
    BY <1>1 DEF Invoke
  <2>3. UNCHANGED <<bytes, cursor, rw_mutex, at, count, todo, received>>
    BY <1>1 DEF Invoke, transferVars
  <2>4. TypeOK'
    BY <2>1, <2>2, <2>3 DEF TypeOK
  <2>5. CallShape'
    BY <2>1, <2>2, <2>3 DEF TypeOK, CallShape
  <2>6. LockDiscipline'
    BY <2>1, <2>2, <2>3 DEF TypeOK, LockDiscipline, Holds
  <2>7. CursorInView'
    BY <2>3 DEF CursorInView
  <2>8. TransferFollowsCursor'
    BY <2>1, <2>2, <2>3 DEF TypeOK, TransferFollowsCursor
  <2> QED BY <2>4, <2>5, <2>6, <2>7, <2>8 DEF IInv
<1>2. ASSUME NEW t \in Threads, LockTransfer(t) PROVE IInv'
  <2>1. /\ pc[t] = "enter" /\ call[t].op \in LockedTransfers
        /\ rw_mutex = NoThread /\ rw_mutex' = t
        /\ UNCHANGED <<bytes, cursor, call, received>>
        /\ StartTransfer(t, cursor)
    BY <1>2 DEF LockTransfer
  <2>2. cursor \in 0 .. ViewLength /\ cursor \in Offsets
    BY <2>1, WordFacts DEF CursorInView, Offsets
  <2>3. /\ at' = [at EXCEPT ![t] = cursor]
        /\ pc' = [pc EXCEPT ![t] = "copy"]
        /\ count' = [count EXCEPT ![t] = Allowed(t, cursor)]
        /\ todo' = [todo EXCEPT ![t] = cursor .. cursor + Allowed(t, cursor) - 1]
        /\ Allowed(t, cursor) \in Nat
        /\ cursor .. cursor + Allowed(t, cursor) - 1 \subseteq Positions
        /\ cursor + Allowed(t, cursor) <= ViewLength
    BY <2>1, <2>2, StartTransferInv
  <2>5. TypeOK'
    BY <2>1, <2>2, <2>3 DEF TypeOK
  <2>6. CallShape'
    BY <2>1, <2>3 DEF TypeOK, CallShape
  <2>7. LockDiscipline'
    BY <2>1, <2>3, ThreadAssumption DEF TypeOK, LockDiscipline, Holds
  <2>8. CursorInView'
    BY <2>1, ThreadAssumption DEF CursorInView
  <2>9. TransferFollowsCursor'
    <3> SUFFICES ASSUME NEW u \in Threads, pc'[u] = "copy", call'[u].op \in LockedTransfers
                 PROVE  /\ at'[u] = cursor' /\ cursor' >= 0 /\ cursor' + count'[u] <= ViewLength
                        /\ todo'[u] \subseteq at'[u] .. at'[u] + count'[u] - 1
      BY DEF TransferFollowsCursor
    <3>1. CASE u = t
      BY <2>1, <2>2, <2>3, <3>1 DEF TypeOK
    <3>2. CASE u # t
      <4>1. Holds(u)
        BY <2>1, <2>3, <3>2 DEF Holds, TypeOK
      <4> QED BY <2>1, <4>1, ThreadAssumption DEF LockDiscipline
    <3> QED BY <3>1, <3>2
  <2> QED BY <2>5, <2>6, <2>7, <2>8, <2>9 DEF IInv
<1>3. ASSUME NEW t \in Threads, BeginTransfer(t) PROVE IInv'
  <2>1. /\ pc[t] = "enter" /\ call[t].op \in UnlockedTransfers
        /\ UNCHANGED <<bytes, cursor, rw_mutex, call, received>>
        /\ StartTransfer(t, call[t].offset)
    BY <1>3 DEF BeginTransfer
  <2>2. call[t].offset \in Offsets /\ call[t].offset \in Int
    <3>1. call[t] \in Calls
      BY <2>1 DEF CallShape
    <3>2. call[t].offset \in FromOffsets
      BY <2>1, <3>1, CallTypes
    <3>3. call[t].offset \in Offsets
      BY <3>2, OffsetAssumption
    <3> QED BY <3>3, HalfWordAssumption DEF Offsets
  <2> DEFINE from == call[t].offset
  <2>3. /\ at' = [at EXCEPT ![t] = from]
        /\ pc' = [pc EXCEPT ![t] = "copy"]
        /\ count' = [count EXCEPT ![t] = Allowed(t, from)]
        /\ todo' = [todo EXCEPT ![t] = from .. from + Allowed(t, from) - 1]
        /\ Allowed(t, from) \in Nat
        /\ from .. from + Allowed(t, from) - 1 \subseteq Positions
    BY <2>1, <2>2, StartTransferInv
  <2>5. TypeOK'
    BY <2>1, <2>2, <2>3 DEF TypeOK
  <2>6. CallShape'
    BY <2>1, <2>3 DEF TypeOK, CallShape
  <2>7. LockDiscipline'
    BY <2>1, <2>3 DEF TypeOK, LockDiscipline, Holds, LockedTransfers, UnlockedTransfers
  <2>8. CursorInView'
    BY <2>1 DEF CursorInView
  <2>9. TransferFollowsCursor'
    BY <2>1, <2>3
       DEF TypeOK, TransferFollowsCursor, LockedTransfers, UnlockedTransfers
  <2> QED BY <2>5, <2>6, <2>7, <2>8, <2>9 DEF IInv
<1>4. ASSUME NEW t \in Threads, CopyByte(t) PROVE IInv'
  <2>1. PICK i \in todo[t] :
          /\ todo' = [todo EXCEPT ![t] = @ \ {i}]
          /\ IF call[t].op \in Reads
             THEN /\ received' = [received EXCEPT ![t] = [@ EXCEPT ![i] = bytes[i]]]
                  /\ UNCHANGED bytes
             ELSE /\ bytes' = [bytes EXCEPT ![i] = call[t].byte]
                  /\ UNCHANGED received
    BY <1>4 DEF CopyByte
  <2>2. pc[t] = "copy" /\ UNCHANGED <<cursor, rw_mutex, pc, call, at, count>>
    BY <1>4 DEF CopyByte
  <2>3. i \in Positions
    BY DEF TypeOK
  <2>4. call[t] \in Calls /\ call[t].op \in LockedTransfers \cup UnlockedTransfers
    BY <2>2 DEF CallShape
  <2>5. TypeOK'
    <3>1. bytes' \in [Positions -> Bytes]
      BY <2>1, <2>3, <2>4, CallTypes DEF TypeOK
    <3>2. received' \in [Threads -> [Positions -> Bytes \cup {NoByte}]]
      <4>1. bytes[i] \in Bytes \cup {NoByte} /\ received[t] \in [Positions -> Bytes \cup {NoByte}]
        BY <2>3 DEF TypeOK
      <4>2. [received[t] EXCEPT ![i] = bytes[i]] \in [Positions -> Bytes \cup {NoByte}]
        BY <2>3, <4>1
      <4> QED BY <2>1, <4>2 DEF TypeOK
    <3>3. todo' \in [Threads -> SUBSET Positions]
      BY <2>1 DEF TypeOK
    <3> QED BY <2>2, <3>1, <3>2, <3>3 DEF TypeOK
  <2>6. CallShape'
    BY <2>2 DEF CallShape
  <2>7. LockDiscipline'
    BY <2>2 DEF LockDiscipline, Holds
  <2>8. CursorInView'
    BY <2>2 DEF CursorInView
  <2>9. TransferFollowsCursor'
    BY <2>1, <2>2 DEF TypeOK, TransferFollowsCursor
  <2> QED BY <2>5, <2>6, <2>7, <2>8, <2>9 DEF IInv
<1>5. ASSUME NEW t \in Threads, ReturnLocked(t) PROVE IInv'
  <2>1. /\ pc[t] = "copy" /\ call[t].op \in LockedTransfers
        /\ cursor' = cursor + count[t] /\ rw_mutex' = NoThread /\ UNCHANGED bytes
        /\ Leave(t)
    BY <1>5 DEF ReturnLocked
  <2>2. rw_mutex = t
    BY <2>1 DEF LockDiscipline, Holds
  <2>3. cursor' \in 0 .. ViewLength
    BY <2>1, WordFacts DEF TransferFollowsCursor, TypeOK
  <2> QED BY <2>1, <2>2, <2>3, LeaveInv
<1>6. ASSUME NEW t \in Threads, ReturnUnlocked(t) PROVE IInv'
  <2>1. /\ pc[t] = "copy" /\ call[t].op \in UnlockedTransfers
        /\ UNCHANGED <<bytes, cursor, rw_mutex>> /\ Leave(t)
    BY <1>6 DEF ReturnUnlocked
  <2>2. ~ Holds(t)
    BY <2>1 DEF Holds, LockedTransfers, UnlockedTransfers
  <2> QED BY <2>1, <2>2, LeaveInv
<1>7. ASSUME NEW t \in Threads, SeekStart(t) PROVE IInv'
  <2> DEFINE target == seek_target(ViewLength, cursor, call[t].offset, call[t].whence)
  <2>1. /\ pc[t] = "enter" /\ call[t].op = "seek"
        /\ rw_mutex = NoThread /\ rw_mutex' = t
        /\ cursor' = seek_early_store(cursor, call[t].offset, call[t].whence)
        /\ at' = [at EXCEPT ![t] = target]
        /\ pc' = [pc EXCEPT ![t] = "settle"]
        /\ UNCHANGED <<bytes, call, count, todo, received>>
    BY <1>7 DEF SeekStart
  <2>2. call[t] \in Calls /\ cursor \in 0 .. ViewLength
    BY <2>1 DEF CallShape, CursorInView
  <2>3. target \in 0 .. ViewLength
    BY <2>1, <2>2, SeekFits
  <2>4. cursor' \in Int
    <3>1. call[t].offset \in Int
      <4>1. call[t].offset \in SeekOffsets
        BY <2>1, <2>2, CallTypes
      <4>2. call[t].offset \in Offsets
        BY <4>1, OffsetAssumption
      <4> QED BY <4>2, HalfWordAssumption DEF Offsets
    <3> QED BY <2>1, <2>2, <3>1, WordFacts DEF seek_early_store
  <2> HIDE DEF target
  <2>5. TypeOK'
    BY <2>1, <2>3, <2>4, WordFacts DEF TypeOK
  <2>6. CallShape'
    BY <2>1, <2>3 DEF TypeOK, CallShape
  <2>7. LockDiscipline'
    BY <2>1, ThreadAssumption DEF TypeOK, LockDiscipline, Holds
  <2>8. CursorInView'
    BY <2>1, ThreadAssumption DEF CursorInView
  <2>9. TransferFollowsCursor'
    <3> SUFFICES ASSUME NEW u \in Threads, pc'[u] = "copy", call'[u].op \in LockedTransfers
                 PROVE  FALSE
      BY DEF TransferFollowsCursor
    <3>1. u # t /\ Holds(u)
      BY <2>1 DEF TypeOK, Holds
    <3> QED BY <2>1, <3>1, ThreadAssumption DEF LockDiscipline
  <2> QED BY <2>5, <2>6, <2>7, <2>8, <2>9 DEF IInv
<1>8. ASSUME NEW t \in Threads, SeekEnd(t) PROVE IInv'
  <2>1. /\ pc[t] = "settle" /\ cursor' = at[t]
        /\ rw_mutex' = NoThread /\ UNCHANGED bytes /\ Leave(t)
    BY <1>8 DEF SeekEnd
  <2>2. rw_mutex = t /\ at[t] \in 0 .. ViewLength
    BY <2>1 DEF LockDiscipline, Holds, CallShape
  <2> QED BY <2>1, <2>2, LeaveInv
<1>9. CASE UNCHANGED vars
  BY <1>9 DEF vars, transferVars, IInv, TypeOK, CallShape, LockDiscipline, Holds, CursorInView,
              TransferFollowsCursor
<1> QED
  BY <1>1, <1>2, <1>3, <1>4, <1>5, <1>6, <1>7, <1>8, <1>9 DEF Next, Step

\* ... so it holds always.
LEMMA Inductive == Spec => []IInv
<1> QED BY InitInv, StepInv, PTL DEF Spec

\* For any number of threads and any offsets, no memcpy leaves the mapped bytes
\* as long as every request is one that does not wrap (RequestAssumption).
\* Without that it is false: WrappedRequestIsGranted.
THEOREM TypeCorrect == Spec => []TypeOK
<1>1. IInv => TypeOK
  BY DEF IInv
<1> QED BY Inductive, <1>1, PTL

\* The lock is held exactly by the thread inside a locking call.
THEOREM MutualExclusion == Spec => []LockDiscipline
<1>1. IInv => LockDiscipline
  BY DEF IInv
<1> QED BY Inductive, <1>1, PTL

\* No sequence of calls of any threads drives the shared cursor out of the
\* view.
THEOREM CursorStaysInView == Spec => []CursorInView
<1>1. IInv => CursorInView
  BY DEF IInv
<1> QED BY Inductive, <1>1, PTL

\* A locking transfer works on exactly the bytes the cursor then passes.
THEOREM TransfersFollowCursor == Spec => []TransferFollowsCursor
<1>1. IInv => TransferFollowsCursor
  BY DEF IInv
<1> QED BY Inductive, <1>1, PTL

-----------------------------------------------------------------------------
(* The refinement: threads that use only the locking calls see calls that   *)
(* are single steps.  The instant of a call is the one at which it gets the *)
(* lock; all that is left to do then concerns only its thread.              *)

OnlyLocking == Operations \subseteq LockedTransfers \cup {"seek"}

\* Only the thread that holds the lock is anywhere but at the door.
LEMMA Inside ==
  ASSUME OnlyLocking, IInv, NEW t \in Threads
  PROVE  /\ pc[t] # "idle" => call[t] \in Calls /\ call[t].op \in LockedTransfers \cup {"seek"}
         /\ pc[t] = "copy" => call[t].op \in LockedTransfers
         /\ pc[t] \in {"copy", "settle"} <=> rw_mutex = t
<1>1. pc[t] # "idle" => call[t] \in Calls
  BY DEF IInv, CallShape
<1>2. \A c \in Calls : c.op \in Operations
  BY DEF Calls
<1>3. pc[t] # "idle" => call[t].op \in LockedTransfers \cup {"seek"}
  BY <1>1, <1>2 DEF OnlyLocking
<1>4. pc[t] = "copy" => call[t].op \in LockedTransfers
  BY <1>3 DEF IInv, CallShape, LockedTransfers, UnlockedTransfers
<1>5. pc[t] \in {"copy", "settle"} <=> Holds(t)
  BY <1>4 DEF Holds
<1> QED BY <1>1, <1>3, <1>4, <1>5 DEF IInv, LockDiscipline

\* The bytes a transfer has moved or is about to move.
Moved(t) ==
  [i \in at[t] .. at[t] + count[t] - 1 |->
     IF call[t].op = "write" THEN call[t].byte
     ELSE IF i \in todo[t] THEN bytes[i] ELSE received[t][i]]

\* What the mapping shows: the view as it is while nobody holds the lock, and
\* what the holder will have made of it otherwise.
Shown ==
  /\ rw_mutex = NoThread => settledBytes = bytes /\ settledCursor = cursor
  /\ \A t \in Threads : rw_mutex # t => settledReply[t] = NoReply
  /\ \A t \in Threads : pc[t] = "settle" =>
       /\ settledBytes = bytes /\ settledCursor = at[t]
       /\ settledReply[t] = [moved |-> [i \in {} |-> 0], to |-> at[t]]
  /\ \A t \in Threads : pc[t] = "copy" =>
       /\ settledBytes = [i \in Positions |->
                            IF call[t].op = "write" /\ i \in todo[t] THEN call[t].byte
                            ELSE bytes[i]]
       /\ settledCursor = cursor + count[t]
       /\ settledReply[t] = [moved |-> Moved(t), to |-> at[t] + count[t]]

LEMMA MappingShows ==
  ASSUME OnlyLocking, IInv
  PROVE  Shown
<1>1. bytes = [i \in Positions |-> bytes[i]] /\ NoThread \notin Threads
  BY ThreadAssumption DEF IInv, TypeOK
<1>2. \A t \in Threads, i \in Positions : Writing(t, i) => rw_mutex = t /\ pc[t] = "copy"
  BY Inside DEF Writing
<1>3. ASSUME \A t \in Threads, i \in Positions : ~ Writing(t, i)
      PROVE  settledBytes = bytes
  BY <1>1, <1>3 DEF settledBytes
<1>4. ASSUME rw_mutex = NoThread PROVE settledBytes = bytes /\ settledCursor = cursor
  BY <1>1, <1>2, <1>3, <1>4 DEF settledCursor
<1>5. ASSUME NEW t \in Threads, rw_mutex # t PROVE settledReply[t] = NoReply
  <2>1. pc[t] # "settle" /\ pc[t] # "copy"
    BY <1>5, Inside
  <2> QED BY <2>1 DEF settledReply
<1>6. ASSUME NEW t \in Threads, pc[t] = "settle"
      PROVE  /\ settledBytes = bytes /\ settledCursor = at[t]
             /\ settledReply[t] = [moved |-> [i \in {} |-> 0], to |-> at[t]]
  <2>1. rw_mutex = t
    BY <1>6, Inside
  <2>2. settledBytes = bytes
    BY <1>2, <1>3, <1>6, <2>1
  <2>3. settledCursor = at[t]
    BY <1>1, <1>6, <2>1 DEF settledCursor
  <2> QED BY <1>6, <2>2, <2>3 DEF settledReply
<1>7. ASSUME NEW t \in Threads, pc[t] = "copy"
      PROVE  /\ settledBytes = [i \in Positions |->
                                  IF call[t].op = "write" /\ i \in todo[t] THEN call[t].byte
                                  ELSE bytes[i]]
             /\ settledCursor = cursor + count[t]
             /\ settledReply[t] = [moved |-> Moved(t), to |-> at[t] + count[t]]
  <2>1. rw_mutex = t /\ call[t].op \in LockedTransfers
    BY <1>7, Inside
  <2>2. ASSUME NEW i \in Positions
        PROVE  settledBytes[i] = IF call[t].op = "write" /\ i \in todo[t] THEN call[t].byte
                                 ELSE bytes[i]
    <3>1. CASE Writing(t, i)
      <4>1. \A u \in Threads : Writing(u, i) <=> u = t
        BY <1>2, <2>1, <3>1
      <4>2. (CHOOSE u \in Threads : Writing(u, i)) = t
        BY <3>1, <4>1
      <4> QED BY <3>1, <4>2 DEF settledBytes, Writing
    <3>2. CASE ~ Writing(t, i)
      <4>1. \A u \in Threads : ~ Writing(u, i)
        BY <1>2, <2>1, <3>2
      <4>2. settledBytes[i] = bytes[i]
        BY <4>1 DEF settledBytes
      <4> QED BY <1>7, <3>2, <4>2 DEF Writing
    <3> QED BY <3>1, <3>2
  <2>3. settledBytes = [i \in Positions |->
                          IF call[t].op = "write" /\ i \in todo[t] THEN call[t].byte ELSE bytes[i]]
    BY <2>2 DEF settledBytes
  <2>4. settledCursor = cursor + count[t]
    BY <1>1, <1>7, <2>1 DEF settledCursor
  <2>5. settledReply[t] = [moved |-> Moved(t), to |-> at[t] + count[t]]
    BY <1>7, <2>1 DEF settledReply, Moved
  <2> QED BY <2>3, <2>4, <2>5
<1> QED BY <1>4, <1>5, <1>6, <1>7 DEF Shown

LEMMA MappingShowsNext ==
  ASSUME OnlyLocking
  PROVE  IInv' => Shown'
<1>1. IInv => Shown
  BY MappingShows
<1> QED BY <1>1, PTL

\* A step of the only thread that is inside, before or after it, leaves the
\* replies of the others alone.
LEMMA OthersReplies ==
  ASSUME IInv, IInv', OnlyLocking, NEW t \in Threads,
         \A u \in Threads \ {t} : rw_mutex # u /\ rw_mutex' # u
  PROVE  settledReply' = [settledReply EXCEPT ![t] = settledReply'[t]]
<1>1. \A u \in Threads \ {t} : settledReply[u] = NoReply /\ settledReply'[u] = NoReply
  BY MappingShows, MappingShowsNext DEF Shown
<1>2. /\ settledReply = [u \in Threads |-> settledReply[u]]
      /\ settledReply' = [u \in Threads |-> settledReply'[u]]
  BY DEF settledReply
<1> HIDE DEF settledReply
<1> QED BY <1>1, <1>2

\* Nothing shows of a step of a thread that waits at the door.
LEMMA DoorRefines ==
  ASSUME OnlyLocking, IInv, IInv', UNCHANGED <<bytes, cursor, rw_mutex>>,
         \A u \in Threads : rw_mutex = u =>
           /\ pc'[u] = pc[u] /\ call'[u] = call[u] /\ at'[u] = at[u] /\ count'[u] = count[u]
           /\ todo'[u] = todo[u] /\ received'[u] = received[u]
  PROVE  UNCHANGED Atomic!vars
<1>1. Shown /\ Shown'
  BY MappingShows, MappingShowsNext
<1>2. ASSUME NEW u \in Threads, rw_mutex = u
      PROVE  /\ UNCHANGED <<settledBytes, settledCursor>>
             /\ settledReply'[u] = settledReply[u]
  <2>1. pc[u] \in {"copy", "settle"} /\ pc'[u] = pc[u]
    BY <1>2, Inside
  <2>2. Moved(u)' = Moved(u)
    BY <1>2 DEF Moved
  <2>3. CASE pc[u] = "copy"
    <3>1. /\ settledBytes = [i \in Positions |->
                              IF call[u].op = "write" /\ i \in todo[u] THEN call[u].byte
                              ELSE bytes[i]]
          /\ settledCursor = cursor + count[u]
          /\ settledReply[u] = [moved |-> Moved(u), to |-> at[u] + count[u]]
      BY <1>1, <2>3 DEF Shown
    <3>2. /\ settledBytes' = [i \in Positions |->
                               IF call'[u].op = "write" /\ i \in todo'[u] THEN call'[u].byte
                               ELSE bytes'[i]]
          /\ settledCursor' = cursor' + count'[u]
          /\ settledReply'[u] = [moved |-> Moved(u)', to |-> at'[u] + count'[u]]
      BY <1>1, <2>1, <2>3 DEF Shown
    <3>3. settledBytes' = settledBytes
      BY <1>2, <3>1, <3>2
    <3>4. settledCursor' = settledCursor
      BY <1>2, <3>1, <3>2
    <3>5. settledReply'[u] = settledReply[u]
      BY <1>2, <2>2, <3>1, <3>2
    <3> QED BY <3>3, <3>4, <3>5
  <2>4. CASE pc[u] = "settle"
    <3>1. /\ settledBytes = bytes /\ settledCursor = at[u]
          /\ settledReply[u] = [moved |-> [i \in {} |-> 0], to |-> at[u]]
      BY <1>1, <2>4 DEF Shown
    <3>2. /\ settledBytes' = bytes' /\ settledCursor' = at'[u]
          /\ settledReply'[u] = [moved |-> [i \in {} |-> 0], to |-> at'[u]]
      BY <1>1, <2>1, <2>4 DEF Shown
    <3> QED BY <1>2, <3>1, <3>2
  <2> QED BY <2>1, <2>3, <2>4
<1>3. UNCHANGED <<settledBytes, settledCursor>>
  BY <1>1, <1>2 DEF Shown, IInv, TypeOK
<1>4. \A u \in Threads : settledReply'[u] = settledReply[u]
  BY <1>1, <1>2 DEF Shown
<1>5. /\ settledReply = [u \in Threads |-> settledReply[u]]
      /\ settledReply' = [u \in Threads |-> settledReply'[u]]
  BY DEF settledReply
<1>6. UNCHANGED settledReply
  BY <1>4, <1>5
<1> QED BY <1>3, <1>6 DEF Atomic!vars

\* A call that gets the lock replies.
LEMMA ReplyRefines ==
  ASSUME OnlyLocking, IInv, IInv', NEW t \in Threads, rw_mutex = NoThread, rw_mutex' = t,
         NEW moved, NEW to, settledReply'[t] = [moved |-> moved, to |-> to], settledCursor' = to
  PROVE  Atomic!Reply(t, moved, to)
<1>1. \A u \in Threads : rw_mutex # u /\ (u # t => rw_mutex' # u)
  BY ThreadAssumption
<1>2. settledReply[t] = NoReply
  BY <1>1, MappingShows DEF Shown
<1>3. settledReply' = [settledReply EXCEPT ![t] = settledReply'[t]]
  BY <1>1, OthersReplies
<1> QED BY <1>2, <1>3 DEF Atomic!Reply

\* read and write take effect when they get the lock ...
LEMMA LockRefines ==
  ASSUME OnlyLocking, IInv, IInv', NEW t \in Threads, LockTransfer(t)
  PROVE  Atomic!Read(t) \/ Atomic!Write(t)
<1>1. /\ pc[t] = "enter" /\ call[t].op \in LockedTransfers /\ call[t] \in Calls
      /\ rw_mutex = NoThread /\ rw_mutex' = t
      /\ UNCHANGED <<bytes, cursor, call, received>>
      /\ cursor \in 0 .. ViewLength /\ cursor \in Offsets
  BY WordFacts DEF LockTransfer, IInv, CallShape, CursorInView, Offsets
<1> DEFINE n == Allowed(t, cursor)
<1>2. /\ at'[t] = cursor /\ pc'[t] = "copy" /\ count'[t] = n /\ n \in Nat
      /\ todo'[t] = cursor .. cursor + n - 1 /\ cursor + n <= ViewLength
      /\ cursor .. cursor + n - 1 \subseteq Positions
  <2>1. /\ at' = [at EXCEPT ![t] = cursor]
        /\ pc' = [pc EXCEPT ![t] = "copy"]
        /\ count' = [count EXCEPT ![t] = n]
        /\ todo' = [todo EXCEPT ![t] = cursor .. cursor + n - 1]
        /\ n \in Nat /\ cursor + n <= ViewLength
        /\ cursor .. cursor + n - 1 \subseteq Positions
    BY <1>1, StartTransferInv DEF LockTransfer, IInv
  <2> QED BY <2>1 DEF IInv, TypeOK
<1> HIDE DEF n
<1>3. settledBytes = bytes /\ settledCursor = cursor
  BY <1>1, MappingShows DEF Shown
<1>4. /\ settledBytes' = [i \in Positions |->
                            IF call[t].op = "write" /\ i \in cursor .. cursor + n - 1
                            THEN call[t].byte ELSE bytes[i]]
      /\ settledCursor' = cursor + n
      /\ settledReply'[t] = [moved |-> Moved(t)', to |-> cursor + n]
  BY <1>1, <1>2, MappingShowsNext DEF Shown
<1>5. Atomic!Reply(t, Moved(t)', cursor + n)
  BY <1>1, <1>4, ReplyRefines
<1>6. n \in 0 .. ViewLength /\ Atomic!Fits(n) = n
  BY <1>1, <1>2, <1>3, WordFacts DEF Atomic!Fits
<1>7. CASE call[t].op = "write"
  <2>1. call[t].byte \in Bytes
    BY <1>1, <1>7, CallTypes DEF LockedTransfers, UnlockedTransfers, Reads
  <2>2. Moved(t)' = [i \in cursor .. cursor + n - 1 |-> call[t].byte]
    BY <1>1, <1>2, <1>7 DEF Moved
  <2>3. settledBytes' = [i \in Positions |-> IF i \in cursor .. cursor + n - 1
                                             THEN call[t].byte ELSE bytes[i]]
    BY <1>4, <1>7
  <2> QED BY <1>3, <1>5, <1>6, <2>1, <2>2, <2>3 DEF Atomic!Write, Atomic!Positions, Positions
<1>8. CASE call[t].op # "write"
  <2>1. Moved(t)' = [i \in cursor .. cursor + n - 1 |-> bytes[i]]
    BY <1>1, <1>2, <1>8 DEF Moved
  <2>2. settledBytes' = settledBytes
    BY <1>3, <1>4, <1>8 DEF IInv, TypeOK
  <2> QED BY <1>3, <1>5, <1>6, <2>1, <2>2 DEF Atomic!Read
<1> QED BY <1>7, <1>8

\* ... and so does seek; the store it makes before it clamps does not show.
LEMMA SeekRefines ==
  ASSUME OnlyLocking, IInv, IInv', NEW t \in Threads, SeekStart(t)
  PROVE  Atomic!Seek(t)
<1>1. /\ rw_mutex = NoThread /\ rw_mutex' = t /\ pc'[t] = "settle" /\ UNCHANGED bytes
  BY DEF SeekStart, IInv, TypeOK
<1>2. at'[t] \in 0 .. ViewLength
  BY <1>1 DEF IInv, CallShape
<1>3. settledBytes = bytes
  BY <1>1, MappingShows DEF Shown
<1>4. /\ settledBytes' = bytes' /\ settledCursor' = at'[t]
      /\ settledReply'[t] = [moved |-> [i \in {} |-> 0], to |-> at'[t]]
  BY <1>1, MappingShowsNext DEF Shown
<1>5. Atomic!Reply(t, [i \in {} |-> 0], at'[t])
  BY <1>1, <1>4, ReplyRefines
<1> QED BY <1>1, <1>2, <1>3, <1>4, <1>5 DEF Atomic!Seek

\* Nothing shows of one byte of the memcpy.
LEMMA CopyRefines ==
  ASSUME OnlyLocking, IInv, IInv', NEW t \in Threads, CopyByte(t)
  PROVE  UNCHANGED Atomic!vars
<1>1. PICK i \in todo[t] :
        /\ todo' = [todo EXCEPT ![t] = @ \ {i}]
        /\ IF call[t].op \in Reads
           THEN /\ received' = [received EXCEPT ![t] = [@ EXCEPT ![i] = bytes[i]]]
                /\ UNCHANGED bytes
           ELSE /\ bytes' = [bytes EXCEPT ![i] = call[t].byte]
                /\ UNCHANGED received
  BY DEF CopyByte
<1>2. /\ pc[t] = "copy" /\ UNCHANGED <<cursor, rw_mutex, pc, call, at, count>>
      /\ rw_mutex = t /\ call[t].op \in LockedTransfers
  BY Inside DEF CopyByte
<1>3. i \in Positions /\ todo'[t] = todo[t] \ {i} /\ todo[t] \subseteq Positions
  BY <1>1 DEF IInv, TypeOK
<1>4. Shown /\ Shown'
  BY MappingShows, MappingShowsNext
<1>5. UNCHANGED settledCursor
  BY <1>2, <1>4 DEF Shown
<1>6. /\ settledReply[t] = [moved |-> Moved(t), to |-> at[t] + count[t]]
       /\ settledReply'[t] = [moved |-> Moved(t)', to |-> at'[t] + count'[t]]
  BY <1>2, <1>4 DEF Shown
<1>7. /\ settledBytes = [j \in Positions |->
                            IF call[t].op = "write" /\ j \in todo[t] THEN call[t].byte
                            ELSE bytes[j]]
       /\ settledBytes' = [j \in Positions |->
                             IF call'[t].op = "write" /\ j \in todo'[t] THEN call'[t].byte
                             ELSE bytes'[j]]
  BY <1>2, <1>4 DEF Shown
<1>8. ASSUME call[t].op = "write"
      PROVE  UNCHANGED settledBytes /\ settledReply'[t] = settledReply[t]
  <2>1. bytes' = [bytes EXCEPT ![i] = call[t].byte] /\ UNCHANGED received
    BY <1>1, <1>8 DEF Reads
  <2>2. \A j \in Positions :
          (IF j \in todo[t] THEN call[t].byte ELSE bytes[j])
            = (IF j \in todo'[t] THEN call[t].byte ELSE bytes'[j])
    BY <1>1, <1>3, <2>1 DEF IInv, TypeOK
  <2>3. /\ settledBytes = [j \in Positions |-> IF j \in todo[t] THEN call[t].byte ELSE bytes[j]]
        /\ settledBytes' = [j \in Positions |-> IF j \in todo'[t] THEN call[t].byte ELSE bytes'[j]]
    BY <1>2, <1>7, <1>8
  <2>4. UNCHANGED settledBytes
    BY <2>2, <2>3
  <2>5. Moved(t)' = Moved(t)
    BY <1>2, <1>8 DEF Moved
  <2>6. settledReply'[t] = settledReply[t]
    BY <1>2, <1>6, <2>5
  <2> QED BY <2>4, <2>6
<1>9. ASSUME call[t].op = "read"
      PROVE  UNCHANGED settledBytes /\ settledReply'[t] = settledReply[t]
  <2>1. received' = [received EXCEPT ![t] = [@ EXCEPT ![i] = bytes[i]]] /\ UNCHANGED bytes
    BY <1>1, <1>9 DEF Reads
  <2>2. received'[t] = [received[t] EXCEPT ![i] = bytes[i]]
    BY <2>1 DEF IInv, TypeOK
  <2>3. settledBytes = bytes /\ settledBytes' = bytes'
    <3>1. /\ settledBytes = [j \in Positions |-> bytes[j]]
          /\ settledBytes' = [j \in Positions |-> bytes'[j]]
      BY <1>2, <1>7, <1>9
    <3>2. bytes = [j \in Positions |-> bytes[j]] /\ bytes' = [j \in Positions |-> bytes'[j]]
      BY DEF IInv, TypeOK
    <3> QED BY <3>1, <3>2
  <2>4. \A j \in at[t] .. at[t] + count[t] - 1 : j \in Int
    BY DEF IInv, TypeOK
  <2>5. at[t] .. at[t] + count[t] - 1 \subseteq Positions
    BY <1>2, WordFacts DEF IInv, TransferFollowsCursor, TypeOK, Positions
  <2>6. \A j \in Positions :
          (IF j \in todo[t] THEN bytes[j] ELSE received[t][j])
            = (IF j \in todo'[t] THEN bytes'[j] ELSE received'[t][j])
    BY <1>1, <1>3, <2>1, <2>2 DEF IInv, TypeOK
  <2>7. /\ Moved(t) = [j \in at[t] .. at[t] + count[t] - 1 |->
                         IF j \in todo[t] THEN bytes[j] ELSE received[t][j]]
        /\ Moved(t)' = [j \in at[t] .. at[t] + count[t] - 1 |->
                          IF j \in todo'[t] THEN bytes'[j] ELSE received'[t][j]]
    BY <1>2, <1>9 DEF Moved
  <2>8. Moved(t)' = Moved(t)
    BY <2>5, <2>6, <2>7
  <2>9. settledReply'[t] = settledReply[t]
    BY <1>2, <1>6, <2>8
  <2> QED BY <2>1, <2>3, <2>9
<1>10. UNCHANGED settledBytes /\ settledReply'[t] = settledReply[t]
  BY <1>2, <1>8, <1>9 DEF LockedTransfers
<1>11. UNCHANGED settledReply
  <2>1. settledReply' = [settledReply EXCEPT ![t] = settledReply'[t]]
    BY <1>2, OthersReplies
  <2>2. settledReply = [u \in Threads |-> settledReply[u]]
    BY DEF settledReply
  <2> HIDE DEF settledReply
  <2> QED BY <1>10, <2>1, <2>2
<1> QED BY <1>5, <1>10, <1>11 DEF Atomic!vars

\* The call returns when it gives the lock back.
LEMMA ReturnRefines ==
  ASSUME OnlyLocking, IInv, IInv', NEW t \in Threads, ReturnLocked(t) \/ SeekEnd(t)
  PROVE  Atomic!Return(t)
<1>1. /\ rw_mutex' = NoThread /\ UNCHANGED bytes /\ rw_mutex = t
      /\ \/ pc[t] = "copy" /\ todo[t] = {} /\ cursor' = cursor + count[t]
         \/ pc[t] = "settle" /\ cursor' = at[t]
  BY Inside DEF ReturnLocked, SeekEnd
<1>2. Shown /\ Shown'
  BY MappingShows, MappingShowsNext
<1>3. settledBytes = bytes /\ settledCursor = cursor'
  <2>1. CASE pc[t] = "copy" /\ todo[t] = {} /\ cursor' = cursor + count[t]
    <3>1. /\ settledBytes = [i \in Positions |->
                              IF call[t].op = "write" /\ i \in todo[t] THEN call[t].byte
                              ELSE bytes[i]]
          /\ settledCursor = cursor + count[t]
      BY <1>2, <2>1 DEF Shown
    <3>2. settledBytes = [i \in Positions |-> bytes[i]]
      BY <2>1, <3>1
    <3>3. bytes = [i \in Positions |-> bytes[i]]
      BY DEF IInv, TypeOK
    <3> QED BY <2>1, <3>1, <3>2, <3>3
  <2>2. CASE pc[t] = "settle" /\ cursor' = at[t]
    BY <1>2, <2>2 DEF Shown
  <2> QED BY <1>1, <2>1, <2>2
<1>4. settledBytes' = bytes' /\ settledCursor' = cursor'
  BY <1>1, <1>2 DEF Shown
<1>5. settledReply' = [settledReply EXCEPT ![t] = NoReply]
  <2>1. \A u \in Threads \ {t} : rw_mutex # u /\ rw_mutex' # u
    BY <1>1, ThreadAssumption
  <2>2. settledReply'[t] = NoReply
    BY <1>1, <1>2, ThreadAssumption DEF Shown
  <2> QED BY <2>1, <2>2, OthersReplies
<1> QED BY <1>1, <1>3, <1>4, <1>5 DEF Atomic!Return

LEMMA NextRefines ==
  ASSUME OnlyLocking, IInv, IInv', [Next]_vars
  PROVE  [Atomic!Next]_(Atomic!vars)
<1>1. CASE UNCHANGED vars
  BY <1>1, DoorRefines DEF vars, transferVars
<1>2. ASSUME NEW t \in Threads, Invoke(t) PROVE UNCHANGED Atomic!vars
  <2>1. pc[t] = "idle" /\ rw_mutex # t
    BY <1>2, Inside DEF Invoke
  <2>2. /\ UNCHANGED <<bytes, cursor, rw_mutex, at, count, todo, received>>
        /\ \A u \in Threads \ {t} : pc'[u] = pc[u] /\ call'[u] = call[u]
    BY <1>2 DEF Invoke, transferVars, IInv, TypeOK
  <2> QED BY <2>1, <2>2, DoorRefines
<1>3. ASSUME NEW t \in Threads PROVE ~ BeginTransfer(t) /\ ~ ReturnUnlocked(t)
  BY Inside DEF BeginTransfer, ReturnUnlocked, LockedTransfers, UnlockedTransfers
<1>4. ASSUME NEW t \in Threads, Step(t) PROVE Atomic!Next \/ UNCHANGED Atomic!vars
  BY <1>3, <1>4, LockRefines, SeekRefines, CopyRefines, ReturnRefines DEF Step, Atomic!Next
<1> QED BY <1>1, <1>2, <1>4 DEF Next

LEMMA InitRefines == Init => Atomic!Init
<1> SUFFICES ASSUME Init PROVE Atomic!Init
  OBVIOUS
<1>1. settledCursor = 0 /\ settledReply = [t \in Threads |-> NoReply]
  BY DEF Init, settledCursor, settledReply
<1>2. settledBytes = bytes
  <2>1. \A t \in Threads, i \in Positions : ~ Writing(t, i)
    BY DEF Init, Writing
  <2>2. bytes = [i \in Positions |-> bytes[i]]
    BY DEF Init
  <2> QED BY <2>1, <2>2 DEF settledBytes
<1> QED BY <1>1, <1>2 DEF Init, Atomic!Init, Atomic!Positions, Positions

\* Any number of threads that use read, write and seek cannot tell the view
\* from one whose calls are single steps: no call sees or leaves half of
\* another, and the ranges handed out follow each other.
THEOREM LockingCallsAreAtomic ==
  ASSUME Operations \subseteq LockedTransfers \cup {"seek"}
  PROVE  Spec => ImplementsAtomicStream
<1>1. IInv /\ IInv' /\ [Next]_vars => [Atomic!Next]_(Atomic!vars)
  BY NextRefines DEF OnlyLocking
<1> QED BY <1>1, InitRefines, Inductive, PTL DEF Spec, ImplementsAtomicStream, Atomic!Spec
=============================================================================
