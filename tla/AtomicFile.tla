------------------------------ MODULE AtomicFile ------------------------------
(***************************************************************************)
(* What a PlatformFile promises to the threads that share it: one file     *)
(* that never loses a byte, and per handle a cursor inside it.  A call     *)
(* takes effect at one instant, once; a transfer lies inside the file, and *)
(* read and write move the cursor past exactly the bytes they moved.  The  *)
(* file may be extended with zeros at any time (opening a view does that   *)
(* before the transfer, and a call that fails leaves it extended).         *)
(***************************************************************************)
EXTENDS Integers

CONSTANTS Threads,
          Handles,
          Bytes,
          MaxLength,  \* largest length of the file
          NoReply     \* the thread has no call, or none that has taken effect

VARIABLES contents,  \* the bytes; zero past the end
          length,
          pos,       \* per handle, its cursor
          reply      \* per thread, the reply of its call in progress

vars == <<contents, length, pos, reply>>

Positions == 0 .. MaxLength - 1

Init ==
  /\ length \in 0 .. MaxLength
  /\ contents \in [Positions -> Bytes]
  /\ \A i \in Positions : i >= length => contents[i] = 0
  /\ pos = [h \in Handles |-> 0]
  /\ reply = [t \in Threads |-> NoReply]

Extend ==
  /\ length' \in length .. MaxLength
  /\ UNCHANGED <<contents, pos, reply>>

\* The call takes effect: it moved these bytes and left the cursor there (0
\* for a call that has nothing to do with the cursor).
Reply(t, moved, to) ==
  /\ reply[t] = NoReply
  /\ reply' = [reply EXCEPT ![t] = [moved |-> moved, to |-> to]]

ReadAt(t, from, n, to) ==
  /\ from + n <= length
  /\ Reply(t, [i \in from .. from + n - 1 |-> contents[i]], to)
  /\ UNCHANGED <<contents, length>>

WriteAt(t, from, n, to) ==
  /\ from + n <= length
  /\ \E b \in Bytes :
       /\ Reply(t, [i \in from .. from + n - 1 |-> b], to)
       /\ contents' = [i \in Positions |-> IF i \in from .. from + n - 1 THEN b ELSE contents[i]]
  /\ UNCHANGED length

\* read, write
Transfer(t) ==
  \E h \in Handles, n \in 0 .. MaxLength :
    /\ ReadAt(t, pos[h], n, pos[h] + n) \/ WriteAt(t, pos[h], n, pos[h] + n)
    /\ pos' = [pos EXCEPT ![h] = @ + n]

\* read_from, write_to
TransferAt(t) ==
  \E from, n \in 0 .. MaxLength :
    /\ ReadAt(t, from, n, 0) \/ WriteAt(t, from, n, 0)
    /\ UNCHANGED pos

Seek(t) ==
  /\ \E h \in Handles, to \in 0 .. length :
       /\ Reply(t, [i \in {} |-> 0], to)
       /\ pos' = [pos EXCEPT ![h] = to]
  /\ UNCHANGED <<contents, length>>

Return(t) ==
  /\ reply' = [reply EXCEPT ![t] = NoReply]
  /\ UNCHANGED <<contents, length, pos>>

\* A handle is opened: its cursor starts at 0.
Open(h) ==
  /\ pos' = [pos EXCEPT ![h] = 0]
  /\ UNCHANGED <<contents, length, reply>>

Next ==
  \/ Extend
  \/ \E h \in Handles : Open(h)
  \/ \E t \in Threads : Transfer(t) \/ TransferAt(t) \/ Seek(t) \/ Return(t)

Spec == Init /\ [][Next]_vars
=============================================================================
