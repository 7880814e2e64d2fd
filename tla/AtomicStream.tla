---------------------------- MODULE AtomicStream ----------------------------
(***************************************************************************)
(* What a view promises to the threads that share it through its locking   *)
(* calls: read, write and seek each take effect at one instant, once per   *)
(* call, on a fixed run of bytes with one cursor ("a shared cursor for     *)
(* both read and write operations", Storage/File.hpp:91).  A transfer is   *)
(* cut at the end of the run and moves the cursor past exactly the bytes   *)
(* it transferred; nothing else moves the cursor.                          *)
(***************************************************************************)
EXTENDS Integers

CONSTANTS Threads,
          Length,   \* number of bytes in the run
          Bytes,    \* byte values
          NoReply   \* the thread has no call, or none that has taken effect

VARIABLES content,  \* the bytes
          pos,      \* the cursor
          reply     \* per thread: the bytes its call moved, by position, and
                    \* where it left the cursor

vars == <<content, pos, reply>>

Positions == 0 .. Length - 1

Fits(n) == IF pos + n <= Length THEN n ELSE Length - pos

Init ==
  /\ content \in [Positions -> Bytes]
  /\ pos = 0
  /\ reply = [t \in Threads |-> NoReply]

\* The call takes effect: it moved these bytes and leaves the cursor there.
Reply(t, moved, to) ==
  /\ reply[t] = NoReply
  /\ reply' = [reply EXCEPT ![t] = [moved |-> moved, to |-> to]]
  /\ pos' = to

Read(t) ==
  \E n \in 0 .. Length :
    /\ n = Fits(n)
    /\ Reply(t, [i \in pos .. pos + n - 1 |-> content[i]], pos + n)
    /\ UNCHANGED content

Write(t) ==
  \E n \in 0 .. Length, b \in Bytes :
    /\ n = Fits(n)
    /\ Reply(t, [i \in pos .. pos + n - 1 |-> b], pos + n)
    /\ content' = [i \in Positions |-> IF i \in pos .. pos + n - 1 THEN b ELSE content[i]]

Seek(t) ==
  /\ \E to \in 0 .. Length : Reply(t, [i \in {} |-> 0], to)
  /\ UNCHANGED content

Return(t) ==
  /\ reply' = [reply EXCEPT ![t] = NoReply]
  /\ UNCHANGED <<content, pos>>

Next == \E t \in Threads : Read(t) \/ Write(t) \/ Seek(t) \/ Return(t)

Spec == Init /\ [][Next]_vars
=============================================================================
