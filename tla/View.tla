-------------------------------- MODULE View --------------------------------
(***************************************************************************)
(* storage::View after it has been mapped: several threads share one view, *)
(* its cursor and its rw_mutex.  read, write and seek take the mutex for   *)
(* the whole call; read_from and write_to never lock.  memcpy moves one    *)
(* byte per step, in no particular order, so everything that runs without  *)
(* the mutex can fall between two bytes.                                   *)
(*                                                                         *)
(* The pointer and the vector overloads of a call differ only in the       *)
(* caller's buffer and are one operation here.                             *)
(***************************************************************************)
EXTENDS ViewArith

CONSTANTS Threads,
          NoThread,      \* rw_mutex is free
          NoCall,        \* the thread is outside the view
          Bytes,         \* byte values
          NoByte,        \* received: position not filled by the read
          NoReply,       \* the thread has no call that has taken effect
          ViewLength,    \* view_length
          Operations,    \* the operations the threads use
          Requests,      \* requested sizes
          FromOffsets,   \* offsets given to read_from and write_to
          SeekOffsets    \* offsets given to seek

ASSUME ThreadAssumption == NoThread \notin Threads
ASSUME ByteAssumption   == NoByte \notin Bytes
ASSUME LengthAssumption == ViewLength \in 1 .. HalfWord - 1
\* Requests small enough for offset + requested not to wrap, which the code does
\* not ask for.  One that wraps is granted whole, and its memcpy leaves the view
\* (theorem WrappedRequestIsGranted of ViewArithProofs): nothing this module
\* says is about such a request.
ASSUME RequestAssumption ==
  /\ Requests \subseteq Nat
  /\ \A n \in Requests : ViewLength + n < Word
ASSUME OffsetAssumption ==
  /\ FromOffsets \subseteq Offsets
  /\ SeekOffsets \subseteq Offsets
  /\ \A o \in SeekOffsets : ViewLength + o < HalfWord

VARIABLES bytes,     \* the mapped bytes, from view_pointer
          cursor,
          rw_mutex,  \* the thread that holds the unique lock, or NoThread
          pc,        \* where each thread is in its call
          call,      \* the arguments of that call, or NoCall
          at,        \* where its memcpy starts; for seek, the clamped target
          count,     \* how many bytes it moves
          todo,      \* the positions its memcpy has still to move
          received   \* the caller's buffer, by position in the view

vars == <<bytes, cursor, rw_mutex, pc, call, at, count, todo, received>>
transferVars == <<at, count, todo>>

Positions == 0 .. ViewLength - 1
Empty     == [i \in Positions |-> NoByte]

Calls ==
  {c \in [op : {"read"}, requested : Requests]
     \cup [op : {"write"}, requested : Requests, byte : Bytes]
     \cup [op : {"read_from"}, requested : Requests, offset : FromOffsets]
     \cup [op : {"write_to"}, requested : Requests, offset : FromOffsets, byte : Bytes]
     \cup [op : {"seek"}, offset : SeekOffsets, whence : Whence] :
   c.op \in Operations}

LockedTransfers   == {"read", "write"}
UnlockedTransfers == {"read_from", "write_to"}
Reads             == {"read", "read_from"}

Init ==
  /\ bytes \in [Positions -> Bytes]
  /\ cursor = 0
  /\ rw_mutex = NoThread
  /\ pc = [t \in Threads |-> "idle"]
  /\ call = [t \in Threads |-> NoCall]
  /\ at = [t \in Threads |-> 0]
  /\ count = [t \in Threads |-> 0]
  /\ todo = [t \in Threads |-> {}]
  /\ received = [t \in Threads |-> Empty]

-----------------------------------------------------------------------------
\* A thread enters one of the operations.
Invoke(t) ==
  /\ pc[t] = "idle"
  /\ \E c \in Calls : call' = [call EXCEPT ![t] = c]
  /\ pc' = [pc EXCEPT ![t] = "enter"]
  /\ UNCHANGED <<bytes, cursor, rw_mutex, transferVars, received>>

\* Fault: moves as much as was requested.
Faulty_StartTransfer(t, from) ==
  /\ at' = [at EXCEPT ![t] = from]
  /\ count' = [count EXCEPT ![t] = call[t].requested]
  /\ todo' = [todo EXCEPT ![t] = from .. from + call[t].requested - 1]
  /\ pc' = [pc EXCEPT ![t] = "copy"]

\* Sets up the memcpy of a call at a given position.
StartTransfer(t, from) ==
  LET n == calculate_allowance(ViewLength, AsSize(from), call[t].requested)
  IN  /\ at' = [at EXCEPT ![t] = from]
      /\ count' = [count EXCEPT ![t] = n]
      /\ todo' = [todo EXCEPT ![t] = from .. from + n - 1]
      /\ pc' = [pc EXCEPT ![t] = "copy"]

\* Fault: computes the allowance before it holds the lock.
Faulty_LockTransfer(t) ==
  /\ pc[t] = "enter"
  /\ call[t].op \in LockedTransfers
  /\ rw_mutex' = t
  /\ StartTransfer(t, cursor)
  /\ UNCHANGED <<bytes, cursor, call, received>>

\* read, write: take the lock, work out the allowance from the cursor.
LockTransfer(t) ==
  /\ pc[t] = "enter"
  /\ call[t].op \in LockedTransfers
  /\ rw_mutex = NoThread
  /\ rw_mutex' = t
  /\ StartTransfer(t, cursor)
  /\ UNCHANGED <<bytes, cursor, call, received>>

\* read_from, write_to: the same from the offset given, without the lock.
BeginTransfer(t) ==
  /\ pc[t] = "enter"
  /\ call[t].op \in UnlockedTransfers
  /\ StartTransfer(t, call[t].offset)
  /\ UNCHANGED <<bytes, cursor, rw_mutex, call, received>>

\* One byte of the memcpy.
CopyByte(t) ==
  /\ pc[t] = "copy"
  /\ \E i \in todo[t] :
       /\ todo' = [todo EXCEPT ![t] = @ \ {i}]
       /\ IF call[t].op \in Reads
          THEN /\ received' = [received EXCEPT ![t] = [@ EXCEPT ![i] = bytes[i]]]
               /\ UNCHANGED bytes
          ELSE /\ bytes' = [bytes EXCEPT ![i] = call[t].byte]
               /\ UNCHANGED received
  /\ UNCHANGED <<cursor, rw_mutex, pc, call, at, count>>

\* The call is over: its locals are gone.
Leave(t) ==
  /\ pc' = [pc EXCEPT ![t] = "idle"]
  /\ call' = [call EXCEPT ![t] = NoCall]
  /\ at' = [at EXCEPT ![t] = 0]
  /\ count' = [count EXCEPT ![t] = 0]
  /\ todo' = [todo EXCEPT ![t] = {}]
  /\ received' = [received EXCEPT ![t] = Empty]

\* Fault: advances by the size requested, not by the size transferred.
Faulty_ReturnLocked(t) ==
  /\ pc[t] = "copy"
  /\ todo[t] = {}
  /\ call[t].op \in LockedTransfers
  /\ cursor' = cursor + call[t].requested
  /\ rw_mutex' = NoThread
  /\ Leave(t)
  /\ UNCHANGED bytes

\* read, write: advance the cursor by what was moved; the lock goes with the
\* scope.
ReturnLocked(t) ==
  /\ pc[t] = "copy"
  /\ todo[t] = {}
  /\ call[t].op \in LockedTransfers
  /\ cursor' = cursor + count[t]
  /\ rw_mutex' = NoThread
  /\ Leave(t)
  /\ UNCHANGED bytes

\* read_from, write_to: nothing but the return value.
ReturnUnlocked(t) ==
  /\ pc[t] = "copy"
  /\ todo[t] = {}
  /\ call[t].op \in UnlockedTransfers
  /\ Leave(t)
  /\ UNCHANGED <<bytes, cursor, rw_mutex>>

\* seek: lock, copy the cursor, pick the position.  The Current branch stores
\* to the cursor member here, before the clamp.
SeekStart(t) ==
  /\ pc[t] = "enter"
  /\ call[t].op = "seek"
  /\ rw_mutex = NoThread
  /\ rw_mutex' = t
  /\ cursor' = seek_early_store(cursor, call[t].offset, call[t].whence)
  /\ at' = [at EXCEPT ![t] = seek_target(ViewLength, cursor, call[t].offset, call[t].whence)]
  /\ pc' = [pc EXCEPT ![t] = "settle"]
  /\ UNCHANGED <<bytes, call, count, todo, received>>

\* Fault: returns without giving the lock back.
Faulty_SeekEnd(t) ==
  /\ pc[t] = "settle"
  /\ cursor' = at[t]
  /\ Leave(t)
  /\ UNCHANGED <<bytes, rw_mutex>>

\* seek: store the clamped position and return.
SeekEnd(t) ==
  /\ pc[t] = "settle"
  /\ cursor' = at[t]
  /\ rw_mutex' = NoThread
  /\ Leave(t)
  /\ UNCHANGED bytes

\* What a running thread does on its own; Invoke is up to its caller.
Step(t) ==
  \/ LockTransfer(t)
  \/ BeginTransfer(t)
  \/ CopyByte(t)
  \/ ReturnLocked(t)
  \/ ReturnUnlocked(t)
  \/ SeekStart(t)
  \/ SeekEnd(t)

Next == \E t \in Threads : Invoke(t) \/ Step(t)

Spec == Init /\ [][Next]_vars

\* Threads inside a call are scheduled again and again.  Nothing is assumed
\* about which of several waiting threads std::shared_mutex lets in.
FairSpec == Spec /\ \A t \in Threads : WF_vars(Step(t))

-----------------------------------------------------------------------------
\* Types; no memcpy of a request that does not wrap leaves the mapped bytes,
\* whatever the offset of the call and wherever other threads left the cursor.
TypeOK ==
  /\ bytes \in [Positions -> Bytes]
  /\ cursor \in Int
  /\ rw_mutex \in Threads \cup {NoThread}
  /\ pc \in [Threads -> {"idle", "enter", "copy", "settle"}]
  /\ call \in [Threads -> Calls \cup {NoCall}]
  /\ at \in [Threads -> Int]
  /\ count \in [Threads -> Nat]
  /\ todo \in [Threads -> SUBSET Positions]
  /\ received \in [Threads -> [Positions -> Bytes \cup {NoByte}]]

\* A thread that is inside the critical section of a locking call.
Holds(t) ==
  \/ pc[t] = "settle"
  \/ pc[t] = "copy" /\ call[t].op \in LockedTransfers

\* The lock is held exactly by the thread inside a locking call, so no two of
\* them overlap.
LockDiscipline == \A t \in Threads : Holds(t) <=> rw_mutex = t

\* Whenever nobody holds the lock the shared cursor lies in the view: no
\* sequence of reads, writes and seeks of any threads drives it out.  (While
\* a relative seek is between its two stores it may be outside, and
\* get_offset and get_absolute_offset read it without the lock.)
CursorInView == rw_mutex = NoThread => cursor \in 0 .. ViewLength

\* A locking transfer works on exactly the bytes the cursor is about to pass:
\* from the moment it computes its range until it returns, the cursor stays
\* at the start of the range and the range ends inside the view.  No byte is
\* handed out twice or skipped.
TransferFollowsCursor ==
  \A t \in Threads :
    pc[t] = "copy" /\ call[t].op \in LockedTransfers =>
      /\ at[t] = cursor
      /\ cursor >= 0
      /\ cursor + count[t] <= ViewLength
      /\ todo[t] \subseteq at[t] .. at[t] + count[t] - 1

\* Every thread that gets the lock gives it back.
LockReleased == \A t \in Threads : rw_mutex = t ~> rw_mutex # t

-----------------------------------------------------------------------------
(* The locking calls are atomic: each takes effect when it gets the lock.  *)

Writing(t, i) == pc[t] = "copy" /\ call[t].op = "write" /\ i \in todo[t]

\* The bytes as they are once the write in progress is through.
settledBytes ==
  [i \in Positions |->
     IF \E t \in Threads : Writing(t, i)
     THEN call[CHOOSE t \in Threads : Writing(t, i)].byte
     ELSE bytes[i]]

settledCursor ==
  IF rw_mutex = NoThread THEN cursor
  ELSE IF pc[rw_mutex] = "settle" THEN at[rw_mutex]
  ELSE cursor + count[rw_mutex]

\* What the call of a thread has done, from the instant it got the lock.
settledReply ==
  [t \in Threads |->
     IF pc[t] = "settle" THEN [moved |-> [i \in {} |-> 0], to |-> at[t]]
     ELSE IF pc[t] = "copy" /\ call[t].op \in LockedTransfers
     THEN [moved |-> [i \in at[t] .. at[t] + count[t] - 1 |->
                        IF call[t].op = "write" THEN call[t].byte
                        ELSE IF i \in todo[t] THEN bytes[i] ELSE received[t][i]],
           to    |-> at[t] + count[t]]
     ELSE NoReply]

Atomic == INSTANCE AtomicStream
            WITH Length <- ViewLength,
                 content <- settledBytes,
                 pos <- settledCursor,
                 reply <- settledReply

\* Threads that use read, write and seek cannot tell the view from one where
\* each call is a single step.
ImplementsAtomicStream == Atomic!Spec
=============================================================================
