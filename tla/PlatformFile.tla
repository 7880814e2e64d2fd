----------------------------- MODULE PlatformFile -----------------------------
(***************************************************************************)
(* gfs::PlatformFile: a cursor, a rw_mutex and a storage::File.  Every     *)
(* transfer maps a view just large enough for it, copies, and drops the    *)
(* view; read, write and write_to hold the mutex exclusively meanwhile,    *)
(* read_from holds it shared, and seek does not take it.                   *)
(*                                                                         *)
(* The life of the views is MappedFile's: a thread has at most one, so the *)
(* thread names it.  A PlatformFile owns one storage::File, so the File    *)
(* names the PlatformFile.                                                 *)
(***************************************************************************)
EXTENDS ViewArith, FiniteSets

CONSTANTS Threads,
          NoThread,      \* nobody holds the mutex exclusively
          Handles,       \* PlatformFile objects
          NoHandle,
          Inodes,
          NoInode,
          AccessModes,   \* accesses the handles are opened with
          InitialSizes,
          MaxFileSize,
          Bytes,         \* byte values; 0 is what a file grows by
          Calls,         \* the calls the threads make
          NoCall,
          NoReply,
          SyncMayFail    \* whether msync can fail

VARIABLES path, size, file, view, pages,  \* see MappedFile
          data,      \* the bytes of each inode
          dirty,     \* the positions written and not yet on disk
          cursor,    \* per handle
          writer,    \* rw_mutex: the exclusive holder ...
          readers,   \* ... and the shared ones
          pc, call,
          seen,      \* the cursor as the call in progress loaded it
          reply,     \* the bytes its transfer moved, by position
          signal     \* what killed the process, or "none"

Storage == INSTANCE MappedFile
             WITH Files <- Handles, NoFile <- NoHandle, Views <- Threads,
                  OffsetArgs <- Offsets,
                  LengthArgs <- {c.requested : c \in {d \in Calls : d.op # "seek"}},
                  MaxOpening <- Cardinality(Threads), PathMayVanish <- FALSE

storageVars == <<path, size, file, view, pages>>
lockVars    == <<writer, readers>>
vars == <<storageVars, data, dirty, cursor, lockVars, pc, call, seen, reply, signal>>

Positions == 0 .. MaxFileSize - 1
Exclusive == {"read", "write", "write_to"}
AtCursor  == {"read", "write"}
Writes    == {"write", "write_to"}

ASSUME SentinelAssumption == NoThread \notin Threads /\ NoHandle \notin Handles /\ NoInode \notin Inodes
ASSUME AccessAssumption   == AccessModes \subseteq Storage!FileAccess
ASSUME SizeAssumption     == MaxFileSize \in 0 .. HalfWord - 1 /\ InitialSizes \subseteq 0 .. MaxFileSize
ASSUME ByteAssumption     == 0 \in Bytes
\* Requests small enough for page_delta + view_length not to wrap: the view
\* would be longer than its mapping.
ASSUME CallAssumption ==
  LET Requests == {n \in Sizes : n + Granularity <= Word}
  IN  Calls \subseteq
        [op : {"read"}, handle : Handles, requested : Requests]
          \cup [op : {"write"}, handle : Handles, requested : Requests, byte : Bytes]
          \cup [op : {"read_from"}, handle : Handles, requested : Requests, offset : Offsets]
          \cup [op : {"write_to"}, handle : Handles, requested : Requests, offset : Offsets,
                 byte : Bytes]
          \cup [op : {"seek"}, handle : Handles, offset : Offsets, whence : Whence]

Init ==
  /\ Storage!Init
  /\ data \in [Inodes -> [Positions -> Bytes]]
  /\ \A i \in Inodes, p \in Positions : p >= size[i] => data[i][p] = 0
  /\ dirty = [i \in Inodes |-> {}]
  /\ cursor = [h \in Handles |-> 0]
  /\ writer = [h \in Handles |-> NoThread]
  /\ readers = [h \in Handles |-> {}]
  /\ pc = [t \in Threads |-> "idle"]
  /\ call = [t \in Threads |-> NoCall]
  /\ seen = [t \in Threads |-> 0]
  /\ reply = [t \in Threads |-> NoReply]
  /\ signal = "none"

InodeOf(h)    == file[h].inode
HandleOf(t)   == call[t].handle
Count(t)      == calculate_allowance(view[t].view_length, 0, call[t].requested)
Span(t)      == view[t].file_offset .. view[t].file_offset + Count(t) - 1
InUse(h)      == \E t \in Threads : pc[t] # "idle" /\ HandleOf(t) = h

\* The bytes a mapping reaches: up to the end of the page the file ends in.
Resident(i) == 0 .. Granularity * PagesOf(size[i]) - 1

-----------------------------------------------------------------------------
(* Opening and closing                                                      *)

Create(h, access) ==
  /\ Storage!Create(h, access)
  /\ cursor' = [cursor EXCEPT ![h] = 0]
  /\ UNCHANGED <<data, dirty, lockVars, pc, call, seen, reply, signal>>

Drop(h) ==
  /\ ~ InUse(h)
  /\ Storage!DropFile(h)
  /\ UNCHANGED <<data, dirty, cursor, lockVars, pc, call, seen, reply, signal>>

Invoke(t) ==
  /\ pc[t] = "idle"
  /\ \E c \in Calls : file[c.handle].owned /\ call' = [call EXCEPT ![t] = c]
  /\ pc' = [pc EXCEPT ![t] = "enter"]
  /\ UNCHANGED <<storageVars, data, dirty, cursor, lockVars, seen, reply, signal>>

-----------------------------------------------------------------------------
(* The mutex                                                                *)

\* Fault: every transfer locks like read_from.
Faulty_Acquire(t, h) ==
  /\ writer[h] = NoThread
  /\ readers' = [readers EXCEPT ![h] = @ \cup {t}]
  /\ UNCHANGED writer

Acquire(t, h) ==
  /\ writer[h] = NoThread
  /\ IF call[t].op \in Exclusive
     THEN readers[h] = {} /\ writer' = [writer EXCEPT ![h] = t] /\ UNCHANGED readers
     ELSE readers' = [readers EXCEPT ![h] = @ \cup {t}] /\ UNCHANGED writer

\* What Acquire waits for.
Free(t, h) == writer[h] = NoThread /\ (call[t].op \in Exclusive => readers[h] = {})

\* Fault: an exclusive lock is kept.
Faulty_Unlock(t, h) ==
  /\ readers' = [readers EXCEPT ![h] = @ \ {t}]
  /\ UNCHANGED writer

Unlock(t, h) ==
  /\ writer' = [writer EXCEPT ![h] = IF @ = t THEN NoThread ELSE @]
  /\ readers' = [readers EXCEPT ![h] = @ \ {t}]

\* The call is over: its locals are gone.
Leave(t) ==
  /\ pc' = [pc EXCEPT ![t] = "idle"]
  /\ call' = [call EXCEPT ![t] = NoCall]
  /\ seen' = [seen EXCEPT ![t] = 0]
  /\ reply' = [reply EXCEPT ![t] = NoReply]

\* File::get_size asks the path, and std::filesystem::file_size throws when it
\* gets no answer (a directory on the way may no longer be searched).  seek is
\* left by the exception before it did anything, a transfer while it holds the
\* mutex and its view maps nothing yet; unwinding gives up both.
Throw(t) ==
  /\ pc[t] = "enter"
  /\ call[t].op = "seek" \/ Free(t, HandleOf(t))
  /\ Leave(t)
  /\ UNCHANGED <<storageVars, data, dirty, cursor, lockVars, signal>>

-----------------------------------------------------------------------------
(* Transfers                                                                *)

\* Lock, then get_view begins with the cursor or the offset given.
Begin(t) ==
  /\ pc[t] = "enter"
  /\ call[t].op # "seek"
  /\ Acquire(t, HandleOf(t))
  /\ Storage!GetView(HandleOf(t), t,
       IF call[t].op \in AtCursor THEN AsOffset(cursor[HandleOf(t)]) ELSE call[t].offset,
       call[t].requested)
  /\ pc' = [pc EXCEPT ![t] = "opening"]
  /\ UNCHANGED <<data, dirty, cursor, call, seen, reply, signal>>

\* Bytes that a truncation cuts off are zero when the file grows again.
Truncated(i) == [p \in Positions |-> IF p < size'[i] THEN data[i][p] ELSE 0]

Resize(t) ==
  /\ pc[t] = "opening"
  /\ Storage!Grow(t) \/ Storage!KeepSize(t)
  /\ data' = [i \in Inodes |-> Truncated(i)]
  /\ UNCHANGED <<dirty, cursor, lockVars, pc, call, seen, reply, signal>>

Map(t) ==
  /\ pc[t] = "opening"
  /\ Storage!Map(t)
  /\ pc' = [pc EXCEPT ![t] = "mapped"]
  /\ UNCHANGED <<data, dirty, cursor, lockVars, call, seen, reply, signal>>

\* get_view returned nullptr: the call returns 0.
Fail(t) ==
  /\ pc[t] = "opening"
  /\ Storage!GrowFails(t) \/ Storage!MapFails(t)
  /\ Unlock(t, HandleOf(t))
  /\ Leave(t)
  /\ UNCHANGED <<data, dirty, cursor, signal>>

\* view->read or view->write with the view's own cursor at 0, and the load of
\* cursor += count.  (The bytes of one memcpy are View's matter.)
Copy(t) ==
  LET i == InodeOf(HandleOf(t))
  IN  /\ pc[t] = "mapped"
      /\ Span(t) \subseteq Resident(i)
      /\ call[t].op \in Writes /\ Span(t) # {} => Storage!CanWrite(file[HandleOf(t)].access)
      /\ IF call[t].op \in Writes
         THEN /\ data' = [data EXCEPT ![i] =
                   [p \in Positions |-> IF p \in Span(t) /\ p < size[i] THEN call[t].byte ELSE @[p]]]
              /\ dirty' = [dirty EXCEPT ![i] = @ \cup Span(t)]
              /\ reply' = [reply EXCEPT ![t] = [p \in Span(t) |-> call[t].byte]]
         ELSE /\ reply' = [reply EXCEPT ![t] =
                   [p \in Span(t) |-> IF p < size[i] THEN data[i][p] ELSE 0]]
              /\ UNCHANGED <<data, dirty>>
      /\ seen' = [seen EXCEPT ![t] = cursor[HandleOf(t)]]
      /\ pc' = [pc EXCEPT ![t] = "copied"]
      /\ UNCHANGED <<storageVars, cursor, lockVars, call, signal>>

\* The same memcpy on a page the file does not reach, or one that is mapped
\* for reading only.
Fault(t) ==
  LET i == InodeOf(HandleOf(t))
  IN  /\ pc[t] = "mapped"
      /\ \/ /\ call[t].op \in Writes /\ Span(t) # {}
            /\ ~ Storage!CanWrite(file[HandleOf(t)].access)
            /\ signal' = "SIGSEGV"
         \/ /\ ~ Span(t) \subseteq Resident(i)
            /\ signal' = "SIGBUS"
      /\ UNCHANGED <<storageVars, data, dirty, cursor, lockVars, pc, call, seen, reply>>

\* Fault: the calls at an offset advance the cursor as well.
Faulty_Advance(t) ==
  /\ pc[t] = "copied"
  /\ cursor' = [cursor EXCEPT ![HandleOf(t)] = Plus(seen[t], Count(t))]
  /\ pc' = [pc EXCEPT ![t] = IF call[t].op \in Writes THEN "flush" ELSE "done"]
  /\ UNCHANGED <<storageVars, data, dirty, lockVars, call, seen, reply, signal>>

\* read, write: the store of cursor += count.
Advance(t) ==
  /\ pc[t] = "copied"
  /\ cursor' = IF call[t].op \in AtCursor
               THEN [cursor EXCEPT ![HandleOf(t)] = Plus(seen[t], Count(t))]
               ELSE cursor
  /\ pc' = [pc EXCEPT ![t] = IF call[t].op \in Writes THEN "flush" ELSE "done"]
  /\ UNCHANGED <<storageVars, data, dirty, lockVars, call, seen, reply, signal>>

\* The positions msync writes back: the pages of the view's mapping.
Flushed(t) ==
  LET first == real_offset(view[t].file_offset)
  IN  first .. first + Granularity * PagesOf(release_length(view[t].file_offset, view[t].view_length)) - 1

\* Fault: the result of the write is returned before it is synced.
Faulty_Flush(t) ==
  /\ pc[t] = "flush"
  /\ UNCHANGED dirty
  /\ pc' = [pc EXCEPT ![t] = "done"]
  /\ UNCHANGED <<storageVars, data, cursor, lockVars, call, seen, reply, signal>>

\* write, write_to: view->flush(), whose result nobody looks at.
Flush(t) ==
  LET i == InodeOf(HandleOf(t))
  IN  /\ pc[t] = "flush"
      /\ \/ dirty' = [dirty EXCEPT ![i] = @ \ Flushed(t)]
         \/ SyncMayFail /\ UNCHANGED dirty
      /\ pc' = [pc EXCEPT ![t] = "done"]
      /\ UNCHANGED <<storageVars, data, cursor, lockVars, call, seen, reply, signal>>

\* The view, declared after the lock, is torn down before the lock goes.
Return(t) ==
  /\ pc[t] = "done"
  /\ Storage!Destroy(t)
  /\ Unlock(t, HandleOf(t))
  /\ Leave(t)
  /\ UNCHANGED <<data, dirty, cursor, signal>>

-----------------------------------------------------------------------------
(* seek: no lock; the size, the load of the cursor and the early store of   *)
(* the Current branch come before the store of the clamped position, and    *)
(* what seek returns is loaded once more.                                   *)

\* Fault: the early store lets the cursor go negative.
Faulty_SeekLoad(t) ==
  LET h == HandleOf(t)
  IN  /\ pc[t] = "enter"
      /\ call[t].op = "seek"
      /\ seen' = [seen EXCEPT ![t] =
                    seek_target(size[path], AsOffset(cursor[h]), call[t].offset, call[t].whence)]
      /\ cursor' = [cursor EXCEPT ![h] =
                      seek_early_store(AsOffset(@), call[t].offset, call[t].whence)]
      /\ pc' = [pc EXCEPT ![t] = "settle"]
      /\ UNCHANGED <<storageVars, data, dirty, lockVars, call, reply, signal>>

SeekLoad(t) ==
  LET h == HandleOf(t)
  IN  /\ pc[t] = "enter"
      /\ call[t].op = "seek"
      /\ seen' = [seen EXCEPT ![t] =
                    seek_target(size[path], AsOffset(cursor[h]), call[t].offset, call[t].whence)]
      /\ cursor' = IF call[t].whence = "Current"
                   THEN [cursor EXCEPT ![h] = Plus(@, AsSize(call[t].offset))]
                   ELSE cursor
      /\ pc' = [pc EXCEPT ![t] = "settle"]
      /\ UNCHANGED <<storageVars, data, dirty, lockVars, call, reply, signal>>

SeekStore(t) ==
  /\ pc[t] = "settle"
  /\ cursor' = [cursor EXCEPT ![HandleOf(t)] = AsSize(seen[t])]
  /\ pc' = [pc EXCEPT ![t] = "told"]
  /\ UNCHANGED <<storageVars, data, dirty, lockVars, call, seen, reply, signal>>

\* return cursor: the answer is cursor[HandleOf(t)], see settledReply.
SeekReturn(t) ==
  /\ pc[t] = "told"
  /\ Leave(t)
  /\ UNCHANGED <<storageVars, data, dirty, cursor, lockVars, signal>>

-----------------------------------------------------------------------------
Step(t) ==
  /\ signal = "none"
  /\ \/ Begin(t)
     \/ Resize(t)
     \/ Map(t)
     \/ Fail(t)
     \/ Copy(t)
     \/ Fault(t)
     \/ Advance(t)
     \/ Flush(t)
     \/ Return(t)
     \/ SeekLoad(t)
     \/ SeekStore(t)
     \/ SeekReturn(t)
     \/ Throw(t)

Open(h) ==
  /\ signal = "none"
  /\ Drop(h) \/ \E access \in AccessModes : Create(h, access)

Next ==
  \/ \E h \in Handles : Open(h)
  \/ \E t \in Threads : signal = "none" /\ Invoke(t)
  \/ \E t \in Threads : Step(t)

Spec == Init /\ [][Next]_vars

\* Threads inside a call are scheduled; which waiter the mutex lets in is not
\* assumed.
FairSpec == Spec /\ \A t \in Threads : WF_vars(Step(t))

-----------------------------------------------------------------------------
TypeOK ==
  /\ Storage!TypeOK
  /\ data \in [Inodes -> [Positions -> Bytes]]
  /\ dirty \in [Inodes -> SUBSET Positions]
  /\ cursor \in [Handles -> Sizes]
  /\ writer \in [Handles -> Threads \cup {NoThread}]
  /\ readers \in [Handles -> SUBSET Threads]
  /\ pc \in [Threads -> {"idle", "enter", "opening", "mapped", "copied", "flush", "done", "settle",
                       "told"}]
  /\ call \in [Threads -> Calls \cup {NoCall}]
  /\ seen \in [Threads -> Int]
  /\ signal \in {"none", "SIGSEGV", "SIGBUS"}

\* Through a writable handle no transfer touches memory the file does not
\* back: the file was grown far enough and cannot have shrunk since.
WritableHandlesNeverFault ==
  signal # "none" =>
    \E t \in Threads : pc[t] = "mapped" /\ ~ Storage!CanWrite(file[HandleOf(t)].access)

\* The cursor of a writable handle lies inside the file while nobody moves it.
CursorInFile ==
  \A h \in Handles :
    file[h].owned /\ Storage!CanWrite(file[h].access)
      /\ writer[h] = NoThread /\ (\A t \in Threads : pc[t] # "settle")
      => cursor[h] <= size[InodeOf(h)]

\* When every msync succeeds, what write and write_to reported as written is
\* on disk: only a call that is still running has bytes that are not.
ReturnedWritesAreSynced ==
  \A i \in Inodes :
    dirty[i] \subseteq UNION {Span(t) : t \in {u \in Threads : pc[u] \in {"copied", "flush"}}}

\* A call that got the mutex exclusively gives it back, also when get_view
\* fails half-way.
MutexReleased == \A h \in Handles, t \in Threads : writer[h] = t ~> writer[h] # t

\* "This method will lock the internal mutex for WRITE as it modifies the
\* internal cursor" (GameFileSystem/PlatformFile.hpp:91): the cursor moves only
\* while the mutex is held exclusively.
CursorMovesUnderLock ==
  [][\A h \in Handles :
       file[h].owned /\ cursor'[h] # cursor[h] => writer[h] # NoThread]_vars

-----------------------------------------------------------------------------
(* Every transfer is atomic: it takes effect with its memcpy.               *)

\* The cursor as it will be when the call that is moving it is through.
settledCursor ==
  [h \in Handles |->
     IF \E t \in Threads : pc[t] = "settle" /\ HandleOf(t) = h
     THEN seen[CHOOSE t \in Threads : pc[t] = "settle" /\ HandleOf(t) = h]
     ELSE IF \E t \in Threads : pc[t] = "copied" /\ HandleOf(t) = h /\ call[t].op \in AtCursor
     THEN LET t == CHOOSE u \in Threads : pc[u] = "copied" /\ HandleOf(u) = h /\ call[u].op \in AtCursor
          IN  seen[t] + Count(t)
     ELSE cursor[h]]

settledBytes == IF path = NoInode THEN [p \in Positions |-> 0] ELSE data[path]
settledSize  == IF path = NoInode THEN 0 ELSE size[path]

settledReply ==
  [t \in Threads |->
     IF pc[t] \in {"settle", "told"}
     THEN [moved |-> [i \in {} |-> 0],
           to |-> IF pc[t] = "settle" THEN seen[t] ELSE cursor[HandleOf(t)]]
     ELSE IF pc[t] \in {"copied", "flush", "done"}
     THEN [moved |-> reply[t],
           to |-> IF call[t].op \in AtCursor THEN view[t].file_offset + Count(t) ELSE 0]
     ELSE NoReply]

Atomic == INSTANCE AtomicFile
            WITH MaxLength <- MaxFileSize,
                 contents <- settledBytes,
                 length <- settledSize,
                 pos <- settledCursor,
                 reply <- settledReply

\* Threads cannot tell the platform file from one whose transfers are single
\* steps.
ImplementsAtomicFile == Atomic!Spec
=============================================================================
