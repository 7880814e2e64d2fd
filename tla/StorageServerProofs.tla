------------------------- MODULE StorageServerProofs --------------------------
(***************************************************************************)
(* Lookups in a storage server, for any mounts, any number of callers, and *)
(* whatever other programs do to the files meanwhile.                      *)
(*                                                                         *)
(* That a lookup answers like a search of the Overlay rests on what is     *)
(* known of the layers it has passed: each lacked the file when it was     *)
(* looked in, so it does not hold it all along, whatever happened later.   *)
(***************************************************************************)
EXTENDS StorageServer, SequencesExt, SequenceTheorems, TLAPS

\* What erase and insert make of the vector of mounts, element by element.
LEMMA RemoveFacts ==
  ASSUME NEW S, NEW s \in Seq(S), NEW i \in DOMAIN s
  PROVE  /\ RemoveAt(s, i) \in Seq(S)
         /\ Len(RemoveAt(s, i)) = Len(s) - 1
         /\ \A j \in 1 .. Len(s) - 1 : RemoveAt(s, i)[j] = s[IF j < i THEN j ELSE j + 1]
<1> DEFINE front == SubSeq(s, 1, i - 1)
           back  == SubSeq(s, i + 1, Len(s))
<1>1. i \in 1 .. Len(s) /\ Len(s) \in Nat
  BY LenProperties
<1>2. \A j \in 1 .. Len(s) : s[j] \in S
  BY ElementOfSeq
<1>3. /\ front \in Seq(S) /\ Len(front) = i - 1
      /\ \A j \in 1 .. i - 1 : front[j] = s[j]
  BY <1>1, <1>2
<1>4. /\ back \in Seq(S) /\ Len(back) = Len(s) - i
      /\ \A j \in 1 .. Len(s) - i : back[j] = s[i + j]
  BY <1>1, <1>2
<1>5. RemoveAt(s, i) = front \o back
  BY DEF RemoveAt
<1> HIDE DEF front, back
<1>6. /\ front \o back \in Seq(S) /\ Len(front \o back) = Len(front) + Len(back)
      /\ \A j \in 1 .. Len(front) + Len(back) :
           (front \o back)[j] = IF j <= Len(front) THEN front[j] ELSE back[j - Len(front)]
  BY <1>3, <1>4, ConcatProperties
<1>7. ASSUME NEW j \in 1 .. Len(s) - 1
      PROVE  (front \o back)[j] = s[IF j < i THEN j ELSE j + 1]
  <2>1. CASE j < i
    BY <1>1, <1>3, <1>4, <1>6, <2>1
  <2>2. CASE ~ j < i
    <3>1. j \in 1 .. Len(front) + Len(back) /\ ~ j <= Len(front)
      BY <1>1, <1>3, <1>4, <2>2
    <3>2. (front \o back)[j] = back[j - (i - 1)]
      BY <1>3, <1>6, <3>1
    <3>3. j - (i - 1) \in 1 .. Len(s) - i /\ i + (j - (i - 1)) = j + 1
      BY <1>1, <2>2
    <3> QED BY <1>4, <2>2, <3>3, <3>2
  <2> QED BY <2>1, <2>2
<1>8. Len(front \o back) = Len(s) - 1
  BY <1>1, <1>3, <1>4, <1>6
<1> QED BY <1>5, <1>6, <1>7, <1>8

\* What the sequence t has at position i in addition to what s has.
IsInsertion(t, s, i, e) ==
  /\ Len(t) = Len(s) + 1
  /\ \A j \in 1 .. Len(s) + 1 :
       t[j] = IF j < i THEN s[j] ELSE IF j = i THEN e ELSE s[j - 1]

LEMMA InsertFacts ==
  ASSUME NEW S, NEW s \in Seq(S), NEW i \in 1 .. Len(s) + 1, NEW e \in S
  PROVE  InsertAt(s, i, e) \in Seq(S) /\ IsInsertion(InsertAt(s, i, e), s, i, e)
<1> DEFINE front == SubSeq(s, 1, i - 1)
           back  == SubSeq(s, i, Len(s))
           first == front \o <<e>>
<1>1. Len(s) \in Nat /\ i \in Nat
  BY LenProperties
<1>2. /\ front \in Seq(S) /\ Len(front) = i - 1
      /\ \A j \in 1 .. i - 1 : front[j] = s[j]
  <2>1. \A j \in 1 .. i - 1 : s[j] \in S
    BY <1>1, ElementOfSeq
  <2> HIDE DEF front
  <2>2. /\ front \in Seq(S) /\ Len(front) = IF 1 <= i - 1 THEN (i - 1) - 1 + 1 ELSE 0
        /\ \A j \in 1 .. (i - 1) - 1 + 1 : front[j] = s[1 + j - 1]
    BY <1>1, <2>1, SubSeqProperties DEF front
  <2> QED BY <1>1, <2>2
<1>3. /\ back \in Seq(S) /\ Len(back) = Len(s) - i + 1
      /\ \A j \in 1 .. Len(s) - i + 1 : back[j] = s[i + j - 1]
  <2>1. \A j \in i .. Len(s) : s[j] \in S
    BY <1>1, ElementOfSeq
  <2> HIDE DEF back
  <2>2. /\ back \in Seq(S) /\ Len(back) = IF i <= Len(s) THEN Len(s) - i + 1 ELSE 0
        /\ \A j \in 1 .. Len(s) - i + 1 : back[j] = s[i + j - 1]
    BY <1>1, <2>1, SubSeqProperties DEF back
  <2> QED BY <1>1, <2>2
<1> HIDE DEF front, back
<1>4. <<e>> \in Seq(S) /\ Len(<<e>>) = 1 /\ <<e>>[1] = e
  OBVIOUS
<1>5. /\ first \in Seq(S) /\ Len(first) = i
      /\ \A j \in 1 .. i : first[j] = IF j < i THEN s[j] ELSE e
  <2>1. /\ first \in Seq(S) /\ Len(first) = Len(front) + Len(<<e>>)
        /\ \A j \in 1 .. Len(front) + Len(<<e>>) :
             first[j] = IF j <= Len(front) THEN front[j] ELSE <<e>>[j - Len(front)]
    BY <1>2, <1>4, ConcatProperties
  <2> HIDE DEF first
  <2>2. ASSUME NEW j \in 1 .. i PROVE first[j] = IF j < i THEN s[j] ELSE e
    <3>1. CASE j < i
      BY <1>1, <1>2, <1>4, <2>1, <3>1
    <3>2. CASE j = i
      <4>1. i - (i - 1) = 1
        BY <1>1
      <4> QED BY <1>1, <1>2, <1>4, <2>1, <3>2, <4>1
    <3> QED BY <1>1, <3>1, <3>2
  <2> QED BY <1>1, <1>2, <1>4, <2>1, <2>2
<1> HIDE DEF first
<1>6. /\ first \o back \in Seq(S) /\ Len(first \o back) = Len(first) + Len(back)
      /\ \A j \in 1 .. Len(first) + Len(back) :
           (first \o back)[j] = IF j <= Len(first) THEN first[j] ELSE back[j - Len(first)]
  BY <1>3, <1>5, ConcatProperties
<1>7. InsertAt(s, i, e) = first \o back
  BY DEF InsertAt, first, front, back
<1>8. ASSUME NEW j \in 1 .. Len(s) + 1
      PROVE  (first \o back)[j] = IF j < i THEN s[j] ELSE IF j = i THEN e ELSE s[j - 1]
  <2>1. CASE j <= i
    BY <1>1, <1>3, <1>5, <1>6, <2>1
  <2>2. CASE j > i
    <3>1. j - i \in 1 .. Len(s) - i + 1 /\ i + (j - i) - 1 = j - 1
      BY <1>1, <2>2
    <3>2. back[j - i] = s[j - 1]
      BY <1>3, <3>1
    <3>3. j \in 1 .. Len(first) + Len(back) /\ ~ j <= Len(first)
      BY <1>1, <1>3, <1>5, <2>2
    <3>4. (first \o back)[j] = back[j - i]
      BY <1>5, <1>6, <3>3
    <3>5. ~ j < i /\ j # i
      BY <1>1, <2>2
    <3> QED BY <3>2, <3>4, <3>5
  <2>3. j <= i \/ j > i
    BY <1>1
  <2> QED BY <2>1, <2>2, <2>3
<1>9. Len(first \o back) = Len(s) + 1
  BY <1>1, <1>3, <1>5, <1>6
<1> QED BY <1>6, <1>7, <1>8, <1>9 DEF IsInsertion

\* Taking out what was put in gives the old sequence back.
LEMMA InsertRemove ==
  ASSUME NEW S, NEW s \in Seq(S), NEW i \in 1 .. Len(s) + 1, NEW e \in S,
         NEW t \in Seq(S), IsInsertion(t, s, i, e)
  PROVE  i \in DOMAIN t /\ s = RemoveAt(t, i)
<1> USE DEF IsInsertion
<1>1. Len(s) \in Nat /\ DOMAIN t = 1 .. Len(t)
  BY LenProperties
<1>2. i \in DOMAIN t
  BY <1>1
<1>3. /\ RemoveAt(t, i) \in Seq(S) /\ Len(RemoveAt(t, i)) = Len(s)
      /\ \A j \in 1 .. Len(s) : RemoveAt(t, i)[j] = t[IF j < i THEN j ELSE j + 1]
  <2>1. /\ RemoveAt(t, i) \in Seq(S) /\ Len(RemoveAt(t, i)) = Len(t) - 1
        /\ \A j \in 1 .. Len(t) - 1 : RemoveAt(t, i)[j] = t[IF j < i THEN j ELSE j + 1]
    BY <1>2, RemoveFacts
  <2>2. Len(t) - 1 = Len(s)
    BY <1>1
  <2> QED BY <2>1, <2>2
<1>4. ASSUME NEW j \in 1 .. Len(s) PROVE s[j] = RemoveAt(t, i)[j]
  <2>1. CASE j < i
    BY <1>1, <1>3, <2>1
  <2>2. CASE ~ j < i
    <3>1. t[j + 1] = s[(j + 1) - 1] /\ (j + 1) - 1 = j
      BY <1>1, <2>2
    <3> QED BY <1>3, <2>2, <3>1
  <2> QED BY <2>1, <2>2
<1> DEFINE r == RemoveAt(t, i)
<1>5. r \in Seq(S) /\ Len(s) = Len(r) /\ \A j \in 1 .. Len(s) : s[j] = r[j]
  BY <1>3, <1>4
<1> HIDE DEF r
<1>6. s = r
  BY <1>5, SeqEqual
<1> QED BY <1>2, <1>6 DEF r

\* The layers a lookup goes through that hold what it looks for.
Sought(c)  == {l \in Layers : l[1] \in ToSet(Passes(call[c].operation))}
Holding(c) == Holders(call[c].identity) \cap Sought(c)

\* The layers of a kind are known not to hold the file all along.
Passed(c, kind, from) ==
  IF kind = "user" THEN User \notin steady[c]
  ELSE \A i \in DOMAIN dataland : i > from => <<kind, dataland[i]>> \notin steady[c]

\* What is known of a running lookup.
Sound(c) ==
  /\ Holding(c) \subseteq held[c]
  /\ steady[c] \subseteq Holding(c)
  /\ \A p \in 1 .. call[c].pass - 1 : Passed(c, Passes(call[c].operation)[p], 0)
  /\ Pass(c) # "user" => Passed(c, Pass(c), call[c].left)

LookupSound == \A c \in Callers : ~ Idle(c) => Sound(c)

IInv == TypeOK /\ LookupSound

-----------------------------------------------------------------------------
(* The history variables, and what lookups go through                       *)

LEMMA PassesFacts ==
  ASSUME NEW operation \in Operations
  PROVE  LET passes == Passes(operation)
         IN  /\ DOMAIN passes = 1 .. Len(passes) /\ Len(passes) \in 1 .. 4
             /\ \A p \in 1 .. Len(passes) : passes[p] \in {"user", "named", "hashed"}
             /\ \A p \in 1 .. Len(passes) : passes[p] = "user" => p = 1
             /\ \A p, q \in 1 .. Len(passes) : passes[p] = "named" /\ passes[q] = "hashed" => p < q
             /\ \A p \in 1 .. Len(passes) :
                  passes[p] \in {"user", "named"} => operation \notin HashedLookups
             /\ \A p \in 1 .. Len(passes) :
                  passes[p] = "hashed" => operation \in HashedLookups \/ hash_function # NoHashFunction
<1>1. operation \in NamedLookups \cup HashedLookups
  BY OperationAssumption
<1>2. CASE operation = "get_userland_file"
  <2>1. Passes(operation) = <<"user">>
    BY <1>2 DEF Passes, HashedLookups
  <2> QED BY <1>2, <2>1 DEF HashedLookups
<1>3. CASE operation = "get_dataland_file"
  <2>1. CASE hash_function # NoHashFunction
    <3>1. Passes(operation) = <<"named", "hashed">>
      BY <1>3, <2>1 DEF Passes, HashedLookups
    <3> QED BY <1>3, <2>1, <3>1 DEF HashedLookups
  <2>2. CASE hash_function = NoHashFunction
    <3>1. Passes(operation) = <<"named">>
      BY <1>3, <2>2 DEF Passes, HashedLookups
    <3> QED BY <1>3, <3>1 DEF HashedLookups
  <2> QED BY <2>1, <2>2
<1>4. CASE operation = "get_file"
  <2>1. CASE hash_function # NoHashFunction
    <3>1. Passes(operation) = <<"user", "named", "hashed", "hashed">>
      BY <1>4, <2>1 DEF Passes, HashedLookups
    <3> QED BY <1>4, <2>1, <3>1 DEF HashedLookups
  <2>2. CASE hash_function = NoHashFunction
    <3>1. Passes(operation) = <<"user", "named">>
      BY <1>4, <2>2 DEF Passes, HashedLookups
    <3> QED BY <1>4, <3>1 DEF HashedLookups
  <2> QED BY <2>1, <2>2
<1>5. CASE operation \in HashedLookups
  <2>1. Passes(operation) = <<"hashed">>
    BY <1>5 DEF Passes, HashedLookups
  <2> QED BY <1>5, <2>1
<1> QED BY <1>1, <1>2, <1>3, <1>4, <1>5 DEF NamedLookups

LEMMA CallFacts ==
  ASSUME TypeOK, NEW c \in Callers, ~ Idle(c)
  PROVE  /\ call[c] \in Calls
         /\ call[c].operation \in Operations
         /\ call[c].identity \in Identities
         /\ call[c].pass \in 1 .. Len(Passes(call[c].operation))
         /\ call[c].left \in 0 .. Len(dataland)
BY DEF TypeOK, Idle, Calls

\* What an Overlay calls searching and holding.
Tracking ==
  TypeOK => \A c \in Callers : /\ Server!Searching(c) <=> ~ Idle(c)
                               /\ ~ Idle(c) => Server!Holding(c) = Holding(c)

LEMMA HoldingTracked == Tracking
<1> SUFFICES ASSUME TypeOK, NEW c \in Callers
             PROVE  /\ Server!Searching(c) <=> ~ Idle(c)
                    /\ ~ Idle(c) => Server!Holding(c) = Holding(c)
  BY DEF Tracking
<1>1. Search(c) = [c0 \in Callers |-> Search(c0)][c]
  OBVIOUS
<1>2. CASE Idle(c)
  BY <1>1, <1>2 DEF Server!Searching, Search
<1>3. CASE ~ Idle(c)
  <2>1. /\ Search(c) \in [key : Identities, among : SUBSET Layers, creates : BOOLEAN]
        /\ Search(c).key = call[c].identity
        /\ Search(c).among = Sought(c)
    BY <1>3, CallFacts DEF Search, Sought
  <2>2. Server!Searching(c)
    BY <1>1, <2>1, NoneAssumption DEF Server!Searching
  <2>3. [identity \in Identities |-> Holders(identity)][call[c].identity]
          = Holders(call[c].identity)
    BY <1>3, CallFacts
  <2>4. Server!Holding(c) = Holding(c)
    BY <1>1, <2>1, <2>3 DEF Server!Holding, Holding
  <2> QED BY <1>3, <2>2, <2>4
<1> QED BY <1>2, <1>3

LEMMA Tracked ==
  ASSUME TypeOK, TypeOK', Server!Track, NEW c \in Callers, ~ Idle(c)'
  PROVE  /\ Idle(c) => held'[c] = Holding(c)' /\ steady'[c] = Holding(c)'
         /\ ~ Idle(c) => held'[c] = held[c] \cup Holding(c)'
                         /\ steady'[c] = steady[c] \cap Holding(c)'
<1>1. Server!Searching(c) <=> ~ Idle(c)
  BY HoldingTracked DEF Tracking
<1>2. Tracking'
  BY HoldingTracked, PTL
<1> QED BY <1>1, <1>2 DEF Tracking, Server!Track

-----------------------------------------------------------------------------
(* Types                                                                    *)

\* The step of a caller, except for what it does to files.
Moves(c) ==
  \/ \E answer \in Layers \cup {None} : Return(c, answer)
  \/ /\ call[c].pass < Len(Passes(call[c].operation))
     /\ call' = [call EXCEPT ![c].pass = @ + 1, ![c].left = Len(dataland)]
     /\ UNCHANGED found
  \/ /\ call[c].left > 0
     /\ call' = [call EXCEPT ![c].left = @ - 1]
     /\ UNCHANGED found

LEMMA LayerFacts ==
  /\ User \in Layers
  /\ \A m \in Mountables : <<"named", m>> \in Layers /\ <<"hashed", m>> \in Layers
BY DEF Layers, User

LEMMA EndPassMoves ==
  ASSUME TypeOK, NEW c \in Callers, ~ Idle(c), EndPass(c)
  PROVE  Moves(c)
<1>1. call[c].pass \in 1 .. Len(Passes(call[c].operation))
      /\ Len(Passes(call[c].operation)) \in Nat
  BY CallFacts, PassesFacts
<1> QED BY <1>1 DEF EndPass, Moves

LEMMA StepMoves ==
  ASSUME TypeOK, NEW c \in Callers, Step(c)
  PROVE  ~ Idle(c) /\ Moves(c) /\ UNCHANGED <<dataland, entries>>
         /\ userland' \in [Names -> {"none", "file", "dir"}]
<1>1. CASE AskUserland(c)
  <2>1. ~ Idle(c) /\ UNCHANGED <<dataland, entries>> /\ (Return(c, User) \/ EndPass(c))
    BY <1>1 DEF AskUserland
  <2>2. userland' \in [Names -> {"none", "file", "dir"}]
    BY <1>1 DEF AskUserland, TypeOK
  <2> QED BY <2>1, <2>2, LayerFacts, EndPassMoves DEF Moves
<1>2. CASE AskMount(c)
  <2>1. /\ ~ Idle(c) /\ Pass(c) # "user" /\ call[c].left > 0
        /\ UNCHANGED <<dataland, entries, userland>>
    BY <1>2 DEF AskMount
  <2>2. Asked(c) \in Mountables
    BY <2>1, CallFacts, ElementOfSeq DEF TypeOK, Asked
  <2>3. Pass(c) \in {"named", "hashed"}
    BY <2>1, CallFacts, PassesFacts DEF Pass
  <2>4. <<Pass(c), Asked(c)>> \in Layers
    BY <2>2, <2>3, LayerFacts
  <2> QED BY <1>2, <2>1, <2>4 DEF AskMount, Moves, TypeOK
<1>3. CASE LeaveMounts(c)
  BY <1>3, EndPassMoves DEF LeaveMounts, TypeOK
<1> QED BY <1>1, <1>2, <1>3 DEF Step

\* What a caller that goes on knows of its lookup.
LEMMA MoveFacts ==
  ASSUME TypeOK, NEW c \in Callers, ~ Idle(c), Moves(c), ~ Idle(c)'
  PROVE  /\ call'[c] \in Calls
         /\ call'[c].operation = call[c].operation /\ call'[c].identity = call[c].identity
         /\ call'[c].access = call[c].access
         /\ call'[c].pass \in 1 .. Len(Passes(call[c].operation))
         /\ call'[c].left \in 0 .. Len(dataland)
         /\ \/ call'[c].pass = call[c].pass + 1 /\ call'[c].left = Len(dataland)
            \/ call'[c].pass = call[c].pass /\ call'[c].left = call[c].left - 1
         /\ UNCHANGED found
         /\ \A d \in Callers \ {c} : call'[d] = call[d]
<1>1. /\ call[c] \in Calls /\ call[c].pass \in 1 .. Len(Passes(call[c].operation))
      /\ call[c].left \in 0 .. Len(dataland)
      /\ Len(dataland) \in Nat /\ Len(Passes(call[c].operation)) \in Nat
  BY CallFacts, PassesFacts, LenProperties DEF TypeOK
<1>2. call \in [Callers -> {NoCall} \cup Calls]
  BY DEF TypeOK
<1>3. ~ \E answer \in Layers \cup {None} : Return(c, answer)
  BY <1>2 DEF Return, Idle
<1>4. CASE /\ call[c].pass < Len(Passes(call[c].operation))
           /\ call' = [call EXCEPT ![c].pass = @ + 1, ![c].left = Len(dataland)]
           /\ UNCHANGED found
  <2>1. /\ call'[c] = [call[c] EXCEPT !.pass = call[c].pass + 1, !.left = Len(dataland)]
        /\ \A d \in Callers \ {c} : call'[d] = call[d]
    BY <1>2, <1>4
  <2>2. /\ call'[c].operation = call[c].operation /\ call'[c].identity = call[c].identity
        /\ call'[c].access = call[c].access
        /\ call'[c].pass = call[c].pass + 1 /\ call'[c].left = Len(dataland)
    BY <1>1, <2>1 DEF Calls
  <2>3. /\ call[c].pass + 1 \in 1 .. Len(Passes(call[c].operation))
        /\ call[c].pass + 1 \in Nat /\ Len(dataland) \in 0 .. Len(dataland)
    BY <1>1, <1>4
  <2>4. call'[c] = [operation |-> call[c].operation, identity |-> call[c].identity,
                    access |-> call[c].access, pass |-> call[c].pass + 1,
                    left |-> Len(dataland)]
    BY <1>1, <2>1 DEF Calls
  <2>5. call'[c] \in Calls
    BY <1>1, <2>3, <2>4 DEF Calls
  <2>6. /\ call'[c].pass \in 1 .. Len(Passes(call[c].operation))
        /\ call'[c].left \in 0 .. Len(dataland)
    BY <2>2, <2>3
  <2> QED BY <1>4, <2>1, <2>2, <2>5, <2>6
<1>5. CASE /\ call[c].left > 0
           /\ call' = [call EXCEPT ![c].left = @ - 1]
           /\ UNCHANGED found
  <2>1. /\ call'[c] = [call[c] EXCEPT !.left = call[c].left - 1]
        /\ \A d \in Callers \ {c} : call'[d] = call[d]
    BY <1>2, <1>5
  <2> QED BY <1>1, <1>5, <2>1 DEF Calls
<1> QED BY <1>3, <1>4, <1>5 DEF Moves

LEMMA MovesKeepsTypes ==
  ASSUME TypeOK, NEW c \in Callers, ~ Idle(c), Moves(c), UNCHANGED <<dataland, entries>>,
         userland' \in [Names -> {"none", "file", "dir"}]
  PROVE  TypeOK'
<1>1. CASE Idle(c)'
  <2>1. PICK answer \in Layers \cup {None} : Return(c, answer)
    <3>1. ASSUME call'[c] \in Calls PROVE FALSE
      BY <1>1, <3>1, NoCallAssumption DEF Idle
    <3>2. call[c] \in Calls /\ call \in [Callers -> {NoCall} \cup Calls]
      BY CallFacts DEF TypeOK
    <3>3. ~ /\ call[c].pass < Len(Passes(call[c].operation))
            /\ call' = [call EXCEPT ![c].pass = @ + 1, ![c].left = Len(dataland)]
      <4>1. call[c].pass \in Nat /\ Len(dataland) \in Nat
        BY <3>2, LenProperties DEF Calls, TypeOK
      <4> QED BY <3>1, <3>2, <4>1 DEF Calls
    <3>4. ~ (call[c].left > 0 /\ call' = [call EXCEPT ![c].left = @ - 1])
      <4>1. call[c].left \in Nat
        BY <3>2 DEF Calls
      <4> QED BY <3>1, <3>2, <4>1 DEF Calls
    <3> QED BY <3>3, <3>4 DEF Moves
  <2>2. /\ call' = [call EXCEPT ![c] = NoCall] /\ found' = [found EXCEPT ![c] = answer]
    BY <2>1 DEF Return
  <2>3. \A d \in Callers : ~ Idle(d)' => ~ Idle(d) /\ call'[d] = call[d]
    BY <1>1, <2>2 DEF Idle, TypeOK
  <2> QED BY <2>2, <2>3 DEF TypeOK
<1>2. CASE ~ Idle(c)'
  <2>1. /\ call'[c] \in Calls
        /\ call'[c].operation = call[c].operation /\ call'[c].identity = call[c].identity
        /\ call'[c].pass \in 1 .. Len(Passes(call[c].operation))
        /\ call'[c].left \in 0 .. Len(dataland)
        /\ UNCHANGED found
        /\ \A d \in Callers \ {c} : call'[d] = call[d]
    BY <1>2, MoveFacts
  <2>2. call' \in [Callers -> {NoCall} \cup Calls]
    <3>1. \E g : call' = [call EXCEPT ![c] = g]
      BY DEF Moves, Return
    <3> QED BY <2>1, <3>1 DEF TypeOK
  <2>3. ASSUME NEW d \in Callers, ~ Idle(d)'
        PROVE  /\ call'[d].identity \in
                    IF call'[d].operation \in HashedLookups THEN Hashes ELSE Names
               /\ call'[d].pass \in 1 .. Len(Passes(call'[d].operation))
               /\ call'[d].left \in 0 .. Len(dataland)
    <3>1. CASE d = c
      BY <2>1, <3>1 DEF TypeOK
    <3>2. CASE d # c
      BY <2>1, <2>3, <3>2 DEF TypeOK, Idle
    <3> QED BY <3>1, <3>2
  <2> QED BY <2>1, <2>2, <2>3 DEF TypeOK
<1> QED BY <1>1, <1>2

-----------------------------------------------------------------------------
(* The inductive invariant                                                  *)

LEMMA InitInv == Init => IInv
<1> SUFFICES ASSUME Init PROVE IInv
  OBVIOUS
<1>1. dataland \in Seq(Mountables)
  BY EmptySeq DEF Init
<1>2. \A c \in Callers : Idle(c)
  BY DEF Init, Idle
<1>3. entries \in [Mountables -> SUBSET Identities]
  BY DEF Init
<1>4. /\ userland \in [Names -> {"none", "file", "dir"}]
      /\ call \in [Callers -> {NoCall} \cup Calls]
      /\ found \in [Callers -> Layers \cup {None}]
  BY DEF Init
<1> QED BY <1>1, <1>2, <1>3, <1>4 DEF IInv, TypeOK, LookupSound

LEMMA NextTypes ==
  ASSUME TypeOK, Next
  PROVE  TypeOK'
<1>1. ASSUME NEW m \in Changing, Change(m) PROVE TypeOK'
  <2>1. PICK has \in SUBSET Offers[m] : entries' = [entries EXCEPT ![m] = has]
    BY <1>1 DEF Change
  <2>2. m \in Mountables /\ Offers[m] \subseteq Identities
    BY MountAssumption
  <2>3. entries' \in [Mountables -> SUBSET Identities]
    BY <2>1, <2>2 DEF TypeOK
  <2> QED BY <1>1, <2>3 DEF Change, TypeOK, Idle
<1>2. ASSUME NEW name \in Names, ChangeUserland(name) PROVE TypeOK'
  <2>1. userland' \in [Names -> {"none", "file", "dir"}]
    BY <1>2 DEF ChangeUserland, TypeOK
  <2> QED BY <1>2, <2>1 DEF ChangeUserland, TypeOK, Idle
<1>3. ASSUME NEW m \in Mountables, NEW position \in Positions, Mount(m, position) PROVE TypeOK'
  <2>1. position \in Nat /\ Len(dataland) \in Nat
    BY OperationAssumption, LenProperties DEF TypeOK
  <2>2. dataland' \in Seq(Mountables)
    <3>1. CASE position > Len(dataland)
      BY <1>3, <3>1, AppendProperties DEF Mount, TypeOK
    <3>2. CASE ~ position > Len(dataland)
      <4>1. position + 1 \in 1 .. Len(dataland) + 1
        BY <2>1, <3>2
      <4>2. dataland' = InsertAt(dataland, position + 1, m)
        BY <1>3, <3>2 DEF Mount
      <4> QED BY <4>1, <4>2, InsertFacts DEF TypeOK
    <3> QED BY <3>1, <3>2
  <2> QED BY <1>3, <2>2 DEF Mount, NobodySearches, TypeOK, Idle
<1>4. ASSUME NEW m \in Mountables, Unmount(PathOf[m]) PROVE TypeOK'
  <2>1. dataland' \in Seq(Mountables)
    BY <1>4, RemoveFacts DEF Unmount, TypeOK
  <2> QED BY <1>4, <2>1 DEF Unmount, NobodySearches, TypeOK, Idle
<1>5. ASSUME NEW c \in Callers, Invoke(c) PROVE TypeOK'
  <2>1. PICK operation \in Operations, identity \in Identities, access \in AccessModes :
          Begin(c, operation, identity, access)
    BY <1>5 DEF Invoke
  <2>2. /\ identity \in IF operation \in HashedLookups THEN Hashes ELSE Names
        /\ call' = [call EXCEPT ![c] = [operation |-> operation, identity |-> identity,
                                        access |-> access, pass |-> 1, left |-> Len(dataland)]]
        /\ found' = [found EXCEPT ![c] = None]
        /\ UNCHANGED <<dataland, entries, userland>>
    BY <2>1 DEF Begin
  <2>3. Len(dataland) \in Nat
    BY LenProperties DEF TypeOK
  <2>4. [operation |-> operation, identity |-> identity,
         access |-> access, pass |-> 1, left |-> Len(dataland)] \in Calls
    BY <2>3 DEF Calls
  <2>5. call' \in [Callers -> {NoCall} \cup Calls] /\ found' \in [Callers -> Layers \cup {None}]
    BY <2>2, <2>4 DEF TypeOK
  <2>6. 1 \in 1 .. Len(Passes(operation)) /\ Len(dataland) \in 0 .. Len(dataland)
    BY <2>3, PassesFacts
  <2>7. \A d \in Callers : ~ Idle(d)' =>
          /\ call'[d].identity \in
               IF call'[d].operation \in HashedLookups THEN Hashes ELSE Names
          /\ call'[d].pass \in 1 .. Len(Passes(call'[d].operation))
          /\ call'[d].left \in 0 .. Len(dataland)
    BY <2>2, <2>6 DEF TypeOK, Idle
  <2> QED BY <2>2, <2>5, <2>7 DEF TypeOK
<1>6. ASSUME NEW c \in Callers, Step(c) PROVE TypeOK'
  BY <1>6, StepMoves, MovesKeepsTypes
<1> QED BY <1>1, <1>2, <1>3, <1>4, <1>5, <1>6 DEF Next, Others, Remount

\* A lookup that does not move stays sound: what lacked the file does not get
\* to hold it all along.
LEMMA SoundStays ==
  ASSUME IInv, TypeOK', Server!Track, NEW c \in Callers, ~ Idle(c),
         call'[c] = call[c], dataland' = dataland
  PROVE  Sound(c)'
<1>1. ~ Idle(c)'
  BY DEF Idle
<1>2. held'[c] = held[c] \cup Holding(c)' /\ steady'[c] = steady[c] \cap Holding(c)'
  BY <1>1, Tracked DEF IInv
<1>3. Pass(c)' = Pass(c)
  BY DEF Pass
<1> QED BY <1>2, <1>3 DEF IInv, LookupSound, Sound, Passed

\* A lookup that goes on to the next mount or the next pass has found nothing
\* where it was.
LEMMA SoundMoves ==
  ASSUME IInv, TypeOK', Server!Track, NEW c \in Callers, Step(c), ~ Idle(c)'
  PROVE  Sound(c)'
<1> DEFINE passes == Passes(call[c].operation)
           pass   == call[c].pass
<1>0. PICK kinds, kind, left :
        kinds = passes /\ kind = passes[pass] /\ left = call[c].left
  OBVIOUS
<1>1. TypeOK /\ Sound(c) /\ ~ Idle(c) /\ Moves(c) /\ UNCHANGED <<dataland, entries>>
  BY StepMoves DEF IInv, LookupSound
<1>2. /\ call'[c].operation = call[c].operation /\ call'[c].identity = call[c].identity
      /\ \/ call'[c].pass = pass + 1 /\ call'[c].left = Len(dataland)
         \/ call'[c].pass = pass /\ call'[c].left = left - 1
  BY <1>0, <1>1, MoveFacts
<1>3. held'[c] = held[c] \cup Holding(c)' /\ steady'[c] = steady[c] \cap Holding(c)'
  BY <1>1, Tracked
<1>4. /\ pass \in 1 .. Len(passes) /\ left \in 0 .. Len(dataland) /\ Len(dataland) \in Nat
      /\ DOMAIN dataland = 1 .. Len(dataland) /\ Len(passes) \in Nat
      /\ \A p \in 1 .. Len(passes) : passes[p] \in {"user", "named", "hashed"}
  BY <1>0, <1>1, CallFacts, PassesFacts, LenProperties DEF TypeOK
<1>5. \A k, from : Passed(c, k, from) => Passed(c, k, from)'
  BY <1>1, <1>3 DEF Passed
<1>6. Passed(c, kind, 0)' /\ call'[c].pass = pass + 1 => Sound(c)'
  <2> SUFFICES ASSUME Passed(c, kind, 0)', call'[c].pass = pass + 1 PROVE Sound(c)'
    OBVIOUS
  <2>1. call'[c].left = Len(dataland)
    BY <1>2, <1>4
  <2>2. Passed(c, Pass(c), call[c].left)' \/ Pass(c)' = "user"
    BY <1>1, <1>4, <2>1 DEF Passed
  <2>3. ASSUME NEW p \in 1 .. pass PROVE Passed(c, kinds[p], 0)'
    <3>1. CASE p = pass
      BY <1>0, <3>1
    <3>2. CASE p \in 1 .. pass - 1
      BY <1>0, <1>1, <1>5, <3>2 DEF Sound
    <3> QED BY <1>4, <3>1, <3>2
  <2>4. call'[c].pass - 1 = pass
    BY <1>4
  <2> QED BY <1>0, <1>2, <1>3, <2>2, <2>3, <2>4 DEF Sound
<1>7. call'[c].pass # pass + 1 => call'[c].pass = pass /\ call'[c].left = left - 1
  BY <1>2
<1>8. CASE AskUserland(c)
  <2>1. passes[pass] = "user" /\ call[c].identity \in Names
    <3>1. passes[pass] = "user"
      BY <1>8 DEF AskUserland, Pass
    <3>2. call[c].operation \notin HashedLookups
      BY <1>1, <1>4, <3>1, CallFacts, PassesFacts
    <3> QED BY <1>1, <3>1, <3>2 DEF TypeOK
  <2>2. ~ Return(c, User)
    BY <1>1 DEF Return, Idle, TypeOK
  <2>3. userland[call[c].identity] # "file" /\ userland' = userland /\ EndPass(c)
    BY <1>8, <2>2 DEF AskUserland
  <2>4. call'[c].pass = pass + 1
    <3>1. ~ Return(c, None)
      BY <1>1 DEF Return, Idle, TypeOK
    <3>2. call' = [call EXCEPT ![c].pass = @ + 1, ![c].left = Len(dataland)]
      BY <2>3, <3>1 DEF EndPass
    <3> QED BY <1>1, <3>2, CallFacts DEF TypeOK, Calls
  <2>5. User \notin Holding(c)'
    BY <1>2, <2>3 DEF Holding, Holders, User
  <2>6. Passed(c, kind, 0)'
    BY <1>0, <1>3, <2>1, <2>5 DEF Passed
  <2> QED BY <1>6, <2>4, <2>6
<1>9. CASE AskMount(c)
  <2>0. PICK layer : layer = <<kind, dataland[left]>>
    OBVIOUS
  <2>1. /\ kind \in {"named", "hashed"} /\ left > 0
        /\ AskedFor(call[c].identity, kind) \notin entries[dataland[left]]
        /\ call' = [call EXCEPT ![c].left = @ - 1]
    <3>1. ~ Return(c, <<Pass(c), Asked(c)>>)
      BY <1>1 DEF Return, Idle, TypeOK
    <3> QED BY <1>0, <1>4, <1>9, <3>1 DEF AskMount, Pass, Asked
  <2>2. call'[c].pass = pass /\ call'[c].left = left - 1
    BY <1>0, <1>1, <2>1, CallFacts DEF TypeOK, Calls
  <2>3. layer \notin Holding(c)'
    <3>1. AskedFor(call[c].identity, "named") = call[c].identity
      BY DEF AskedFor
    <3>2. layer[1] = kind /\ layer[2] = dataland[left] /\ layer # User
      BY <2>0, <2>1 DEF User
    <3> QED BY <1>1, <1>2, <2>1, <3>1, <3>2 DEF Holding, Holders
  <2>4. Pass(c)' = kind /\ Pass(c) = kind
    BY <1>0, <1>2, <2>2 DEF Pass
  <2>5. Passed(c, Pass(c), call[c].left)'
    <3>1. Passed(c, kind, left)'
      BY <1>0, <1>1, <1>5, <2>1, <2>4 DEF Sound
    <3>2. layer \notin steady'[c]
      BY <1>3, <2>3
    <3>3. \A i \in DOMAIN dataland : i > left - 1 => i = left \/ i > left
      BY <1>4
    <3> QED BY <1>1, <2>0, <2>1, <2>2, <2>4, <3>1, <3>2, <3>3 DEF Passed
  <2>6. \A p \in 1 .. pass - 1 : Passed(c, kinds[p], 0)'
    BY <1>0, <1>1, <1>5 DEF Sound
  <2> QED BY <1>0, <1>2, <1>3, <2>2, <2>5, <2>6 DEF Sound
<1>10. CASE LeaveMounts(c)
  <2>1. Pass(c) # "user" /\ left = 0 /\ EndPass(c)
    BY <1>0, <1>10 DEF LeaveMounts
  <2>2. call'[c].pass = pass + 1
    <3>1. ~ Return(c, None)
      BY <1>1 DEF Return, Idle, TypeOK
    <3>2. call' = [call EXCEPT ![c].pass = @ + 1, ![c].left = Len(dataland)]
      BY <2>1, <3>1 DEF EndPass
    <3> QED BY <1>1, <3>2, CallFacts DEF TypeOK, Calls
  <2>3. Passed(c, kind, 0)
    BY <1>0, <1>1, <2>1 DEF Sound, Pass
  <2> QED BY <1>5, <1>6, <2>2, <2>3
<1> QED BY <1>8, <1>9, <1>10 DEF Step

LEMMA StepInv == IInv /\ [Next]_vars => IInv'
<1> SUFFICES ASSUME IInv, [Next]_vars PROVE IInv'
  OBVIOUS
<1>1. CASE UNCHANGED vars
  <2>1. UNCHANGED <<dataland, entries, userland, call, found, held, steady>>
    BY <1>1 DEF vars
  <2>2. TypeOK'
    BY <2>1 DEF IInv, TypeOK, Idle
  <2>3. LookupSound'
    BY <2>1 DEF IInv, LookupSound, Sound, Holding, Sought, Holders, Passed, Pass, Idle
  <2> QED BY <2>2, <2>3 DEF IInv
<1>2. CASE Next
  <2>1. TypeOK'
    BY <1>2, NextTypes DEF IInv
  <2>2. Server!Track
    BY <1>2 DEF Next
  <2>3. ASSUME NEW c \in Callers, ~ Idle(c)' PROVE Sound(c)'
    <3>1. CASE Others
      <4>1. UNCHANGED <<dataland, call>>
        BY <3>1 DEF Others, Change, ChangeUserland
      <4> QED BY <2>1, <2>2, <2>3, <4>1, SoundStays DEF Idle
    <3>2. CASE Remount
      BY <2>3, <3>2 DEF Remount, Mount, Unmount, NobodySearches, Idle
    <3>3. ASSUME NEW d \in Callers, Invoke(d) PROVE Sound(c)'
      <4>1. PICK operation \in Operations, identity \in Identities, access \in AccessModes :
              Begin(d, operation, identity, access)
        BY <3>3 DEF Invoke
      <4>2. /\ Idle(d) /\ UNCHANGED dataland
            /\ call' = [call EXCEPT ![d] = [operation |-> operation, identity |-> identity,
                                            access |-> access, pass |-> 1,
                                            left |-> Len(dataland)]]
        BY <4>1 DEF Begin
      <4>3. CASE c = d
        <5>1. call'[c].pass = 1 /\ call'[c].left = Len(dataland)
          BY <4>2, <4>3 DEF IInv, TypeOK
        <5>2. held'[c] = Holding(c)' /\ steady'[c] = Holding(c)'
          BY <2>1, <2>2, <2>3, <4>2, <4>3, Tracked DEF IInv
        <5>3. Pass(c)' = "user" \/ Passed(c, Pass(c), call[c].left)'
          <6>1. \A i \in DOMAIN dataland : ~ i > Len(dataland)
            BY LenProperties DEF IInv, TypeOK
          <6> QED BY <4>2, <5>1, <6>1 DEF Passed
        <5>4. 1 .. call'[c].pass - 1 = {}
          BY <5>1
        <5> QED BY <5>2, <5>3, <5>4 DEF Sound
      <4>4. CASE c # d
        <5>1. call'[c] = call[c] /\ ~ Idle(c)
          BY <2>3, <4>2, <4>4 DEF IInv, TypeOK, Idle
        <5> QED BY <2>1, <2>2, <4>2, <5>1, SoundStays
      <4> QED BY <4>3, <4>4
    <3>4. ASSUME NEW d \in Callers, Step(d) PROVE Sound(c)'
      <4>1. CASE c = d
        BY <2>1, <2>2, <2>3, <3>4, <4>1, SoundMoves
      <4>2. CASE c # d
        <5>1. Moves(d) /\ UNCHANGED dataland
          BY <3>4, StepMoves DEF IInv
        <5>2. call'[c] = call[c]
          BY <4>2, <5>1 DEF Moves, Return, IInv, TypeOK
        <5> QED BY <2>1, <2>2, <2>3, <5>1, <5>2, SoundStays DEF Idle
      <4> QED BY <4>1, <4>2
    <3> QED BY <1>2, <3>1, <3>2, <3>3, <3>4 DEF Next
  <2> QED BY <2>1, <2>3 DEF IInv, LookupSound
<1> QED BY <1>1, <1>2

LEMMA Inductive == Spec => []IInv
<1> QED BY InitInv, StepInv, PTL DEF Spec

-----------------------------------------------------------------------------
(* Every step is one of the Overlay                                         *)

\* A lookup that does not return is, for the Overlay, the same search.
LEMMA SameSearch ==
  ASSUME TypeOK, NEW c \in Callers,
         call'[c] = call[c]
         \/ /\ ~ Idle(c) /\ ~ Idle(c)'
            /\ call'[c].operation = call[c].operation /\ call'[c].identity = call[c].identity
            /\ call'[c].access = call[c].access
  PROVE  Search(c)' = Search(c)
<1>1. CASE call'[c] = call[c]
  BY <1>1 DEF Search, Idle
<1>2. CASE ~ call'[c] = call[c]
  BY <1>2 DEF Search
<1> QED BY <1>1, <1>2

LEMMA OverlayInit == Init => Server!Init
<1> SUFFICES ASSUME Init PROVE Server!Init
  OBVIOUS
<1>1. Stack \in Seq(Layers)
  <2>1. Len(dataland) = 0
    BY DEF Init
  <2>2. Stack = [i \in 1 .. 1 |-> User]
    BY <2>1 DEF Stack
  <2> QED BY <2>2, LayerFacts
<1>2. [identity \in Identities |-> Holders(identity)] \in [Identities -> SUBSET Layers]
  BY DEF Holders
<1>3. [c \in Callers |-> Search(c)] = [c \in Callers |-> None]
  BY DEF Init, Search, Idle
<1> QED BY <1>1, <1>2, <1>3 DEF Init, Server!Init

LEMMA StackFacts ==
  ASSUME TypeOK
  PROVE  /\ Stack \in Seq(Layers)
         /\ Len(dataland) \in Nat /\ DOMAIN dataland = 1 .. Len(dataland)
         /\ DOMAIN Stack = 1 .. 2 * Len(dataland) + 1
         /\ Stack[1] = User
         /\ \A i \in DOMAIN dataland :
              Stack[Len(dataland) + 2 - i] = <<"named", dataland[i]>>
              /\ Stack[2 * Len(dataland) + 2 - i] = <<"hashed", dataland[i]>>
<1> DEFINE n == Len(dataland)
<1>1. n \in Nat /\ DOMAIN dataland = 1 .. n /\ \A i \in 1 .. n : dataland[i] \in Mountables
  BY LenProperties, ElementOfSeq DEF TypeOK
<1> HIDE DEF n
<1>2. Stack = [i \in 1 .. 2 * n + 1 |->
                 IF i = 1 THEN User
                 ELSE IF i <= n + 1 THEN <<"named", dataland[n + 2 - i]>>
                 ELSE <<"hashed", dataland[2 * n + 2 - i]>>]
  BY DEF Stack, n
<1>3. ASSUME NEW i \in 1 .. 2 * n + 1 PROVE Stack[i] \in Layers
  <2>1. CASE i = 1
    BY <1>1, <1>2, <2>1, LayerFacts
  <2>2. CASE i # 1 /\ i <= n + 1
    <3>1. n + 2 - i \in 1 .. n
      BY <1>1, <2>2
    <3>2. Stack[i] = <<"named", dataland[n + 2 - i]>>
      BY <1>2, <2>2
    <3> QED BY <1>1, <3>1, <3>2, LayerFacts
  <2>3. CASE i > n + 1
    <3>1. 2 * n + 2 - i \in 1 .. n /\ i # 1 /\ ~ i <= n + 1
      BY <1>1, <2>3
    <3>2. Stack[i] = <<"hashed", dataland[2 * n + 2 - i]>>
      BY <1>2, <3>1
    <3> QED BY <1>1, <3>1, <3>2, LayerFacts
  <2> QED BY <1>1, <2>1, <2>2, <2>3
<1>4. Stack \in Seq(Layers) /\ DOMAIN Stack = 1 .. 2 * n + 1
  <2>1. 2 * n + 1 \in Nat
    BY <1>1
  <2>2. DOMAIN Stack = 1 .. 2 * n + 1 /\ Stack = [i \in 1 .. 2 * n + 1 |-> Stack[i]]
    BY <1>2
  <2>3. Stack \in [1 .. 2 * n + 1 -> Layers]
    BY <1>3, <2>2
  <2> QED BY <2>1, <2>2, <2>3, SeqDef
<1>5. ASSUME NEW i \in 1 .. n
      PROVE  Stack[n + 2 - i] = <<"named", dataland[i]>>
             /\ Stack[2 * n + 2 - i] = <<"hashed", dataland[i]>>
  <2>1. /\ n + 2 - i \in 1 .. 2 * n + 1 /\ n + 2 - i # 1 /\ n + 2 - i <= n + 1
        /\ n + 2 - (n + 2 - i) = i
        /\ 2 * n + 2 - i \in 1 .. 2 * n + 1 /\ 2 * n + 2 - i # 1
        /\ ~ 2 * n + 2 - i <= n + 1 /\ 2 * n + 2 - (2 * n + 2 - i) = i
    BY <1>1
  <2> QED BY <1>2, <2>1
<1>6. Stack[1] = User
  BY <1>1, <1>2
<1> QED BY <1>1, <1>4, <1>5, <1>6 DEF n

\* What a caller searches for, in the terms of the Overlay.
LEMMA SearchFacts ==
  ASSUME TypeOK, NEW c \in Callers, ~ Idle(c)
  PROVE  /\ Server!Searching(c)
         /\ Server!Holding(c) = Holding(c)
         /\ Server!Considered(c) = {i \in DOMAIN Stack : Stack[i] \in Sought(c)}
         /\ [d \in Callers |-> Search(d)][c].key = call[c].identity
         /\ [d \in Callers |-> Search(d)][c].creates =
              ("user" \in ToSet(Passes(call[c].operation)) /\ CanWrite(call[c].access))
<1>1. Search(c) = [d \in Callers |-> Search(d)][c]
  OBVIOUS
<1>2. /\ Search(c).key = call[c].identity
      /\ Search(c).among = Sought(c)
      /\ Search(c).creates =
           ("user" \in ToSet(Passes(call[c].operation)) /\ CanWrite(call[c].access))
  BY DEF Search, Sought
<1>3. Server!Considered(c) = {i \in DOMAIN Stack : Stack[i] \in Sought(c)}
  BY <1>1, <1>2 DEF Server!Considered
<1>4. Server!Searching(c) /\ Server!Holding(c) = Holding(c)
  BY HoldingTracked DEF Tracking
<1> QED BY <1>1, <1>2, <1>3, <1>4

\* A caller that gets an answer gets it as a search of the Overlay does.
LEMMA Answers ==
  ASSUME TypeOK, NEW c \in Callers, NEW answer, Return(c, answer)
  PROVE  Server!Answer(c, answer)
<1>1. call' = [call EXCEPT ![c] = NoCall] /\ found' = [found EXCEPT ![c] = answer]
  BY DEF Return
<1>2. Search(c)' = None
  BY <1>1 DEF Search, Idle, TypeOK
<1>3. \A d \in Callers \ {c} : Search(d)' = Search(d)
  BY <1>1, SameSearch DEF TypeOK
<1>4. [d \in Callers |-> Search(d)]' = [[d \in Callers |-> Search(d)] EXCEPT ![c] = None]
  BY <1>2, <1>3
<1> QED BY <1>1, <1>4 DEF Server!Answer

\* A lookup that has been through all its passes may miss.
LEMMA MissRefines ==
  ASSUME IInv, NEW c \in Callers, ~ Idle(c), Return(c, None),
         UNCHANGED <<dataland, entries, userland>>,
         \A p \in 1 .. Len(Passes(call[c].operation)) : Passed(c, Passes(call[c].operation)[p], 0)
  PROVE  Server!Miss(c)
<1>1. TypeOK
  BY DEF IInv
<1>2. UNCHANGED <<Stack, [identity \in Identities |-> Holders(identity)]>>
  BY DEF Stack, Holders
<1>3. ASSUME NEW i \in DOMAIN Stack, Stack[i] \in Sought(c) PROVE Stack[i] \notin steady[c]
  <2>1. PICK p \in 1 .. Len(Passes(call[c].operation)) :
          Stack[i][1] = Passes(call[c].operation)[p]
    BY <1>1, <1>3, CallFacts, PassesFacts DEF Sought, ToSet
  <2>2. Passed(c, Stack[i][1], 0)
    BY <2>1
  <2>3. CASE i = 1
    BY <1>1, <2>2, <2>3, StackFacts DEF Passed, User
  <2>4. CASE i # 1
    <3>1. PICK k \in DOMAIN dataland :
            Stack[i] = <<"named", dataland[k]>> \/ Stack[i] = <<"hashed", dataland[k]>>
      <4> DEFINE n == Len(dataland)
      <4>1. /\ n \in Nat /\ i \in 1 .. 2 * n + 1 /\ DOMAIN dataland = 1 .. n
            /\ \A k \in 1 .. n : Stack[n + 2 - k] = <<"named", dataland[k]>>
                                 /\ Stack[2 * n + 2 - k] = <<"hashed", dataland[k]>>
        BY <1>1, StackFacts
      <4> HIDE DEF n
      <4>2. CASE i <= n + 1
        <5>1. n + 2 - i \in 1 .. n /\ n + 2 - (n + 2 - i) = i
          BY <2>4, <4>1, <4>2
        <5>2. Stack[i] = <<"named", dataland[n + 2 - i]>>
          BY <4>1, <5>1
        <5> QED BY <4>1, <5>1, <5>2
      <4>3. CASE i > n + 1
        <5>1. 2 * n + 2 - i \in 1 .. n /\ 2 * n + 2 - (2 * n + 2 - i) = i
          BY <4>1, <4>3
        <5>2. Stack[i] = <<"hashed", dataland[2 * n + 2 - i]>>
          BY <4>1, <5>1
        <5> QED BY <4>1, <5>1, <5>2
      <4> QED BY <4>1, <4>2, <4>3
    <3>2. k > 0
      BY <1>1, StackFacts
    <3>3. PICK kind \in {"named", "hashed"} : Stack[i] = <<kind, dataland[k]>>
      BY <3>1
    <3>4. Stack[i][1] = kind
      BY <3>3
    <3> QED BY <2>2, <3>2, <3>3, <3>4 DEF Passed
  <2> QED BY <2>3, <2>4
<1>4. Server!Answer(c, None)
  BY <1>1, Answers
<1> QED BY <1>1, <1>2, <1>3, <1>4, SearchFacts DEF Server!Miss

\* A lookup whose last pass finds nothing has been through all of them.
LEMMA EndPassRefines ==
  ASSUME IInv, NEW c \in Callers, ~ Idle(c), EndPass(c), Idle(c)',
         UNCHANGED <<dataland, entries, userland>>, Passed(c, Pass(c), 0)
  PROVE  Server!Miss(c)
<1> DEFINE passes == Passes(call[c].operation)
           pass   == call[c].pass
<1>1. TypeOK /\ Sound(c) /\ pass \in 1 .. Len(passes) /\ Len(passes) \in Nat
  BY CallFacts, PassesFacts DEF IInv, LookupSound
<1>2. pass = Len(passes) /\ Return(c, None)
  <2>1. ASSUME call' = [call EXCEPT ![c].pass = @ + 1, ![c].left = Len(dataland)] PROVE FALSE
    <3>1. pass + 1 \in Nat /\ Len(dataland) \in Nat
      BY <1>1, LenProperties DEF TypeOK
    <3>2. call'[c] \in Calls
      BY <1>1, <2>1, <3>1, CallFacts DEF TypeOK, Calls
    <3> QED BY <3>2, NoCallAssumption DEF Idle
  <2> QED BY <2>1 DEF EndPass
<1>3. \A p \in 1 .. Len(passes) : p = pass \/ p \in 1 .. pass - 1
  BY <1>1, <1>2
<1>4. \A p \in 1 .. Len(passes) : Passed(c, passes[p], 0)
  BY <1>1, <1>3 DEF Sound, Pass
<1> QED BY <1>2, <1>4, MissRefines

\* Steps in which a lookup goes on, and steps of others, are changes of the
\* layers.
LEMMA ChangeRefines ==
  ASSUME TypeOK, UNCHANGED <<dataland, found>>,
         \A c \in Callers :
           call'[c] = call[c]
           \/ /\ ~ Idle(c) /\ ~ Idle(c)'
              /\ call'[c].operation = call[c].operation /\ call'[c].identity = call[c].identity
              /\ call'[c].access = call[c].access
  PROVE  Server!Change
<1>1. UNCHANGED Stack
  BY DEF Stack
<1>2. \A c \in Callers : Search(c)' = Search(c)
  BY SameSearch
<1>3. [identity \in Identities |-> Holders(identity)]' \in [Identities -> SUBSET Layers]
  BY DEF Holders
<1> QED BY <1>1, <1>2, <1>3 DEF Server!Change

LEMMA RestackRefines ==
  ASSUME TypeOK, TypeOK', Remount
  PROVE  Server!Restack
<1>1. NobodySearches /\ UNCHANGED <<entries, userland, call, found>>
  BY DEF Remount, Mount, Unmount
<1>2. \A c \in Callers : ~ Server!Searching(c)
  BY <1>1, HoldingTracked DEF Tracking, NobodySearches
<1>3. Stack' \in Seq(Layers)
  <2> DEFINE n == Len(dataland')
  <2>1. n \in Nat /\ \A i \in 1 .. n : dataland'[i] \in Mountables
    BY LenProperties, ElementOfSeq DEF TypeOK
  <2> HIDE DEF n
  <2>2. Stack' = [i \in 1 .. 2 * n + 1 |->
                    IF i = 1 THEN User
                    ELSE IF i <= n + 1 THEN <<"named", dataland'[n + 2 - i]>>
                    ELSE <<"hashed", dataland'[2 * n + 2 - i]>>]
    BY DEF Stack, User, n
  <2>3. ASSUME NEW i \in 1 .. 2 * n + 1 PROVE Stack'[i] \in Layers
    <3>1. CASE i = 1
      BY <2>2, <3>1, LayerFacts
    <3>2. CASE i # 1 /\ i <= n + 1
      <4>1. n + 2 - i \in 1 .. n /\ Stack'[i] = <<"named", dataland'[n + 2 - i]>>
        BY <2>1, <2>2, <3>2
      <4> QED BY <2>1, <4>1, LayerFacts
    <3>3. CASE i > n + 1
      <4>1. 2 * n + 2 - i \in 1 .. n /\ i # 1 /\ ~ i <= n + 1
        BY <2>1, <3>3
      <4>2. Stack'[i] = <<"hashed", dataland'[2 * n + 2 - i]>>
        BY <2>2, <4>1
      <4> QED BY <2>1, <4>1, <4>2, LayerFacts
    <3> QED BY <2>1, <3>1, <3>2, <3>3
  <2>4. 2 * n + 1 \in Nat /\ Stack' = [i \in 1 .. 2 * n + 1 |-> Stack'[i]]
    BY <2>1, <2>2
  <2>5. Stack' \in [1 .. 2 * n + 1 -> Layers]
    BY <2>3, <2>4
  <2> QED BY <2>4, <2>5, SeqDef
<1>4. \A c \in Callers : Search(c)' = Search(c)
  BY <1>1 DEF Search, Idle
<1>5. UNCHANGED [identity \in Identities |-> Holders(identity)]
  BY <1>1 DEF Holders
<1> QED BY <1>1, <1>2, <1>3, <1>4, <1>5 DEF Server!Restack

LEMMA BeginRefines ==
  ASSUME TypeOK, TypeOK', NEW c \in Callers, Invoke(c)
  PROVE  Server!Start(c)
<1>1. PICK operation \in Operations, identity \in Identities, access \in AccessModes :
        Begin(c, operation, identity, access)
  BY DEF Invoke
<1>2. /\ Idle(c) /\ UNCHANGED <<dataland, entries, userland>>
      /\ call' = [call EXCEPT ![c] = [operation |-> operation, identity |-> identity,
                                      access |-> access, pass |-> 1, left |-> Len(dataland)]]
      /\ found' = [found EXCEPT ![c] = None]
  BY <1>1 DEF Begin
<1>3. ~ Server!Searching(c)
  BY <1>2, HoldingTracked DEF Tracking
<1>4. ~ Idle(c)'
  <2>1. call'[c] \in Calls
    <3>1. Len(dataland) \in Nat
      BY LenProperties DEF TypeOK
    <3> QED BY <1>2, <3>1 DEF TypeOK, Calls
  <2> QED BY <2>1, NoCallAssumption DEF Idle
<1>5. Search(c)' \in [key : Identities, among : SUBSET Layers, creates : BOOLEAN]
  <2>1. call'[c].identity \in Identities
    BY <1>2 DEF TypeOK
  <2> QED BY <1>4, <2>1 DEF Search
<1>6. \A d \in Callers \ {c} : Search(d)' = Search(d)
  BY <1>2, SameSearch DEF TypeOK
<1>7. [d \in Callers |-> Search(d)]' = [[d \in Callers |-> Search(d)] EXCEPT ![c] = Search(c)']
  BY <1>6
<1>8. UNCHANGED <<Stack, [i \in Identities |-> Holders(i)]>>
  BY <1>2 DEF Stack, Holders
<1> QED BY <1>2, <1>3, <1>5, <1>7, <1>8 DEF Server!Start

LEMMA StepRefines ==
  ASSUME IInv, IInv', NEW c \in Callers, Step(c)
  PROVE  \/ Server!Change \/ Server!Miss(c) \/ Server!Create(c)
         \/ \E i \in DOMAIN Stack : Server!Hit(c, i)
<1>1. /\ TypeOK /\ Sound(c) /\ ~ Idle(c) /\ Moves(c) /\ UNCHANGED <<dataland, entries>>
      /\ Pass(c) \in {"user", "named", "hashed"}
      /\ Pass(c) \in ToSet(Passes(call[c].operation))
  BY StepMoves, CallFacts, PassesFacts DEF IInv, LookupSound, Pass, ToSet
<1>2. CASE ~ Idle(c)'
  <2>1. /\ UNCHANGED found
        /\ call'[c].operation = call[c].operation /\ call'[c].identity = call[c].identity
        /\ call'[c].access = call[c].access
        /\ \A d \in Callers \ {c} : call'[d] = call[d]
    BY <1>1, <1>2, MoveFacts
  <2> QED BY <1>1, <1>2, <2>1, ChangeRefines
<1>3. CASE AskUserland(c) /\ Idle(c)'
  <2> DEFINE name == call[c].identity
  <2>1. Pass(c) = "user"
    BY <1>3 DEF AskUserland
  <2>2. name \in Names
    BY <1>1, <2>1, CallFacts, PassesFacts DEF TypeOK, Pass
  <2>3. /\ Server!Searching(c) /\ 1 \in Server!Considered(c) /\ Stack[1] = User
        /\ 1 \in DOMAIN Stack /\ DOMAIN Stack \subseteq Nat \ {0}
    <3>1. User \in Sought(c)
      BY <1>1, <2>1, LayerFacts DEF Sought, User
    <3>2. 1 \in DOMAIN Stack /\ DOMAIN Stack \subseteq Nat \ {0}
      BY <1>1, StackFacts
    <3> QED BY <1>1, <3>1, <3>2, SearchFacts, StackFacts
  <2>4. CASE /\ CanWrite(call[c].access) /\ userland[name] = "none"
             /\ Return(c, User) /\ userland' = [userland EXCEPT ![name] = "file"]
    <3>1. Return(c, User) /\ userland' = [userland EXCEPT ![name] = "file"]
      BY <2>4
    <3>2. \A i \in Identities :
            Holders(i)' = IF i = name THEN Holders(i) \cup {User} ELSE Holders(i)
      <4>1. \A i \in Names \ {name} : userland'[i] = userland[i]
        BY <2>2, <3>1 DEF TypeOK
      <4>2. userland'[name] = "file"
        BY <1>1, <2>2, <3>1 DEF TypeOK
      <4>3. \A i \in Identities, l \in Layers : l # User =>
              (l \in Holders(i)' <=> l \in Holders(i))
        BY <1>1 DEF Holders
      <4>4. \A i \in Identities : User \in Holders(i) <=> i \in Names /\ userland[i] = "file"
        BY LayerFacts DEF Holders, User
      <4>5. \A i \in Identities : User \in Holders(i)' <=> i \in Names /\ userland'[i] = "file"
        BY LayerFacts DEF Holders, User
      <4>6. \A i \in Identities : Holders(i) \subseteq Layers /\ Holders(i)' \subseteq Layers
        BY DEF Holders
      <4>7. ASSUME NEW i \in Identities, NEW l \in Layers
            PROVE  l \in Holders(i)' <=>
                     l \in IF i = name THEN Holders(i) \cup {User} ELSE Holders(i)
        BY <2>2, <4>1, <4>2, <4>3, <4>4, <4>5
      <4> QED BY <4>6, <4>7, LayerFacts
    <3>3. [i \in Identities |-> Holders(i)]' =
            [[i \in Identities |-> Holders(i)] EXCEPT ![name] = @ \cup {User}]
      BY <3>2
    <3>4. Server!Answer(c, User)
      BY <1>1, <3>1, Answers
    <3>5. UNCHANGED Stack
      BY <1>1 DEF Stack
    <3>6. Server!Create(c)
      BY <1>1, <2>1, <2>3, <2>4, <3>3, <3>4, <3>5, SearchFacts DEF Server!Create
    <3> QED BY <3>6
  <2>5. CASE /\ UNCHANGED userland
             /\ IF userland[name] = "file" THEN Return(c, User) ELSE EndPass(c)
    <3>1. /\ UNCHANGED userland
          /\ IF userland[name] = "file" THEN Return(c, User) ELSE EndPass(c)
      BY <2>5
    <3>2. UNCHANGED <<Stack, [i \in Identities |-> Holders(i)]>>
      BY <1>1, <3>1 DEF Stack, Holders
    <3>3. CASE userland[name] = "file"
      <4>1. User \in Holding(c)
        BY <1>1, <2>1, <2>2, <3>3, LayerFacts DEF Holding, Holders, Sought, User
      <4>2. User \in held[c]
        BY <1>1, <4>1 DEF Sound
      <4>3. Server!Answer(c, User)
        BY <1>1, <3>1, <3>3, Answers
      <4>4. \A j \in Server!Considered(c) : ~ j < 1
        BY <1>1, <2>3, SearchFacts
      <4> QED BY <2>3, <3>2, <4>2, <4>3, <4>4 DEF Server!Hit
    <3>4. CASE userland[name] # "file"
      <4>1. User \notin Holding(c)
        BY <3>4 DEF Holding, Holders, User
      <4>2. Passed(c, Pass(c), 0)
        BY <1>1, <2>1, <4>1 DEF Sound, Passed
      <4> QED BY <1>1, <1>3, <3>1, <3>4, <4>2, EndPassRefines
    <3> QED BY <3>3, <3>4
  <2>6. userland[name] = "file" => [userland EXCEPT ![name] = "file"] = userland
    BY <1>1, <2>2 DEF TypeOK
  <2> QED BY <1>3, <2>4, <2>5, <2>6 DEF AskUserland
<1>4. CASE AskMount(c) /\ Idle(c)'
  <2> DEFINE n    == Len(dataland)
             left == call[c].left
             layer == <<Pass(c), dataland[left]>>
             at == IF Pass(c) = "named" THEN n + 2 - left ELSE 2 * n + 2 - left
  <2>1. /\ Pass(c) \in {"named", "hashed"} /\ left > 0 /\ UNCHANGED userland
    BY <1>1, <1>4 DEF AskMount
  <2>2. /\ n \in Nat /\ left \in 1 .. n /\ DOMAIN dataland = 1 .. n
        /\ dataland[left] \in Mountables
    BY <1>1, <2>1, CallFacts, LenProperties, ElementOfSeq DEF TypeOK
  <2>3. /\ Return(c, layer)
        /\ AskedFor(call[c].identity, Pass(c)) \in entries[dataland[left]]
    <3>1. ASSUME call' = [call EXCEPT ![c].left = @ - 1] PROVE FALSE
      <4>1. left - 1 \in Nat
        BY <2>2
      <4>2. call'[c] \in Calls
        BY <1>1, <3>1, <4>1, CallFacts DEF TypeOK, Calls
      <4> QED BY <1>4, <4>2, NoCallAssumption DEF Idle
    <3> QED BY <1>4, <3>1 DEF AskMount, Asked
  <2>4. layer \in Holding(c)
    <3>1. layer \in Layers /\ layer[1] = Pass(c) /\ layer[2] = dataland[left]
      BY <2>1, <2>2, LayerFacts
    <3>2. layer \in Sought(c)
      BY <1>1, <3>1 DEF Sought
    <3>3. CASE Pass(c) = "named"
      <4>1. call[c].identity \in Names
        BY <1>1, <3>3, CallFacts, PassesFacts DEF TypeOK, Pass
      <4>2. AskedFor(call[c].identity, Pass(c)) = call[c].identity
        BY <3>3 DEF AskedFor
      <4> HIDE DEF layer
      <4> QED BY <2>3, <3>1, <3>2, <3>3, <4>1, <4>2 DEF Holding, Holders
    <3>4. CASE Pass(c) = "hashed"
      <4>1. call[c].identity \in Hashes \/ hash_function # NoHashFunction
        BY <1>1, <3>4, CallFacts, PassesFacts DEF TypeOK, Pass
      <4> HIDE DEF layer
      <4> QED BY <2>3, <3>1, <3>2, <3>4, <4>1 DEF Holding, Holders
    <3> QED BY <2>1, <3>3, <3>4
  <2>5. layer \in held[c] /\ layer \in Sought(c)
    BY <1>1, <2>4 DEF Sound, Holding
  <2>6. at \in DOMAIN Stack /\ Stack[at] = layer
    <3> HIDE DEF n
    <3>1. /\ DOMAIN Stack = 1 .. 2 * n + 1
          /\ Stack[n + 2 - left] = <<"named", dataland[left]>>
          /\ Stack[2 * n + 2 - left] = <<"hashed", dataland[left]>>
      BY <1>1, <2>2, StackFacts DEF n
    <3>2. n + 2 - left \in 1 .. 2 * n + 1 /\ 2 * n + 2 - left \in 1 .. 2 * n + 1
      BY <2>2
    <3> QED BY <2>1, <3>1, <3>2
  <2>7. ASSUME NEW j \in DOMAIN Stack, j < at, Stack[j] \in Sought(c)
        PROVE  Stack[j] \notin steady[c]
    <3> DEFINE passes == Passes(call[c].operation)
               pass   == call[c].pass
    <3>1. /\ pass \in 1 .. Len(passes) /\ Pass(c) = passes[pass] /\ Len(passes) \in Nat
          /\ \A p \in 1 .. pass - 1 : Passed(c, passes[p], 0)
          /\ Passed(c, Pass(c), left)
      BY <1>1, <2>1, CallFacts, PassesFacts DEF Sound, Pass
    <3>2. PICK q \in 1 .. Len(passes) : Stack[j][1] = passes[q]
      BY <1>1, <2>7, CallFacts, PassesFacts DEF Sought, ToSet
    <3>3. /\ \A p \in 1 .. Len(passes) : passes[p] = "user" => p = 1
          /\ \A p, r \in 1 .. Len(passes) : passes[p] = "named" /\ passes[r] = "hashed" => p < r
      BY <1>1, CallFacts, PassesFacts
    <3>4. /\ DOMAIN Stack = 1 .. 2 * n + 1 /\ Stack[1] = User
          /\ \A k \in 1 .. n : Stack[n + 2 - k] = <<"named", dataland[k]>>
                               /\ Stack[2 * n + 2 - k] = <<"hashed", dataland[k]>>
      BY <1>1, <2>2, StackFacts
    <3> HIDE DEF n, passes, pass, left
    <3>5. CASE j = 1
      <4>1. passes[q] = "user"
        BY <3>2, <3>4, <3>5 DEF User
      <4>2. q \in 1 .. pass - 1
        BY <2>1, <3>1, <3>3, <4>1
      <4> QED BY <3>1, <3>4, <3>5, <4>1, <4>2 DEF Passed
    <3>6. CASE j # 1 /\ j <= n + 1
      <4>1. n + 2 - j \in 1 .. n /\ n + 2 - (n + 2 - j) = j
        BY <2>2, <3>4, <3>6
      <4>2. Stack[j] = <<"named", dataland[n + 2 - j]>> /\ passes[q] = "named"
        BY <3>2, <3>4, <4>1
      <4>3. CASE Pass(c) = "named"
        <5>1. n + 2 - j > left
          BY <2>2, <2>7, <4>1, <4>3
        <5> QED BY <2>2, <3>1, <4>1, <4>2, <4>3, <5>1 DEF Passed
      <4>4. CASE Pass(c) = "hashed"
        <5>1. q \in 1 .. pass - 1
          <6>1. passes[pass] = "hashed"
            BY <3>1, <4>4
          <6>2. q < pass
            BY <3>1, <3>3, <4>2, <6>1
          <6> QED BY <3>1, <6>2
        <5>2. n + 2 - j > 0
          BY <4>1
        <5> QED BY <2>2, <3>1, <4>1, <4>2, <5>1, <5>2 DEF Passed
      <4> QED BY <2>1, <4>3, <4>4
    <3>7. CASE j > n + 1
      <4>1. 2 * n + 2 - j \in 1 .. n /\ 2 * n + 2 - (2 * n + 2 - j) = j
        BY <2>2, <3>4, <3>7
      <4>2. Stack[j] = <<"hashed", dataland[2 * n + 2 - j]>>
        BY <3>4, <4>1
      <4>3. Pass(c) = "hashed" /\ 2 * n + 2 - j > left
        BY <2>1, <2>2, <2>7, <3>4, <3>7
      <4> QED BY <2>2, <3>1, <4>1, <4>2, <4>3 DEF Passed
    <3> QED BY <2>2, <3>4, <3>5, <3>6, <3>7
  <2>8. UNCHANGED <<Stack, [i \in Identities |-> Holders(i)]>>
    BY <1>1, <2>1 DEF Stack, Holders
  <2>9. Server!Answer(c, layer)
    BY <1>1, <2>3, Answers
  <2> HIDE DEF at, layer
  <2> QED BY <1>1, <2>5, <2>6, <2>7, <2>8, <2>9, SearchFacts DEF Server!Hit
<1>5. CASE LeaveMounts(c) /\ Idle(c)'
  <2>1. /\ Pass(c) # "user" /\ call[c].left = 0 /\ EndPass(c)
        /\ UNCHANGED <<dataland, entries, userland>>
    BY <1>5 DEF LeaveMounts
  <2> QED BY <1>1, <1>5, <2>1, EndPassRefines DEF Sound
<1> QED BY <1>2, <1>3, <1>4, <1>5 DEF Step

LEMMA NextRefines == IInv /\ IInv' /\ [Next]_vars => [Server!Next]_(Server!vars)
<1> SUFFICES ASSUME IInv, IInv', [Next]_vars PROVE [Server!Next]_(Server!vars)
  OBVIOUS
<1>1. CASE UNCHANGED vars
  BY <1>1 DEF vars, Server!vars, Stack, Holders, Search, Idle
<1>2. CASE Next
  <2>1. TypeOK /\ TypeOK' /\ Server!Track
    BY <1>2 DEF IInv, Next
  <2>2. CASE Others
    <3>1. UNCHANGED <<dataland, call, found>>
      BY <2>2 DEF Others, Change, ChangeUserland
    <3>2. Server!Change
      BY <2>1, <3>1, ChangeRefines
    <3> QED BY <2>1, <3>2 DEF Server!Next
  <2>3. CASE Remount
    BY <2>1, <2>3, RestackRefines DEF Server!Next
  <2>4. ASSUME NEW c \in Callers, Invoke(c) PROVE Server!Next
    BY <2>1, <2>4, BeginRefines DEF Server!Next
  <2>5. ASSUME NEW c \in Callers, Step(c) PROVE Server!Next
    BY <2>1, <2>5, StepRefines DEF Server!Next
  <2> QED BY <1>2, <2>2, <2>3, <2>4, <2>5 DEF Next
<1> QED BY <1>1, <1>2

LEMMA MountKeepsPrecedence ==
  ASSUME TypeOK, Next, dataland' # dataland
  PROVE  \/ \E i \in DOMAIN dataland' : dataland = RemoveAt(dataland', i)
         \/ \E i \in DOMAIN dataland  : dataland' = RemoveAt(dataland, i)
<1>1. dataland \in Seq(Mountables) /\ Len(dataland) \in Nat
  BY LenProperties DEF TypeOK
<1>2. Remount
  BY StepMoves DEF Next, Others, Change, ChangeUserland, Invoke, Begin
<1>3. ASSUME NEW m \in Mountables, NEW position \in Positions, Mount(m, position)
      PROVE  \E i \in DOMAIN dataland' : dataland = RemoveAt(dataland', i)
  <2>1. PICK i \in 1 .. Len(dataland) + 1 :
          dataland' \in Seq(Mountables) /\ IsInsertion(dataland', dataland, i, m)
    <3>1. CASE position > Len(dataland)
      <4>1. dataland' = Append(dataland, m)
        BY <1>3, <3>1 DEF Mount
      <4>2. /\ Append(dataland, m) \in Seq(Mountables)
            /\ Len(Append(dataland, m)) = Len(dataland) + 1
            /\ \A j \in 1 .. Len(dataland) : Append(dataland, m)[j] = dataland[j]
            /\ Append(dataland, m)[Len(dataland) + 1] = m
        BY <1>1, AppendProperties
      <4>3. \A j \in 1 .. Len(dataland) + 1 :
              j \in 1 .. Len(dataland) \/ j = Len(dataland) + 1
        BY <1>1
      <4>4. /\ \A j \in 1 .. Len(dataland) : j < Len(dataland) + 1
            /\ ~ Len(dataland) + 1 < Len(dataland) + 1
            /\ Len(dataland) + 1 \in 1 .. Len(dataland) + 1
        BY <1>1
      <4>5. IsInsertion(dataland', dataland, Len(dataland) + 1, m)
        BY <4>1, <4>2, <4>3, <4>4 DEF IsInsertion
      <4> QED BY <4>1, <4>2, <4>4, <4>5
    <3>2. CASE ~ position > Len(dataland)
      <4>1. PICK i \in 1 .. Len(dataland) + 1 : i = position + 1
        BY <1>1, <3>2, OperationAssumption
      <4>2. dataland' = InsertAt(dataland, i, m)
        BY <1>3, <3>2, <4>1 DEF Mount
      <4> QED BY <1>1, <4>2, InsertFacts
    <3> QED BY <3>1, <3>2
  <2> QED BY <1>1, <2>1, InsertRemove
<1>4. ASSUME NEW m \in Mountables, Unmount(PathOf[m])
      PROVE  \E i \in DOMAIN dataland : dataland' = RemoveAt(dataland, i)
  BY <1>4 DEF Unmount
<1> QED BY <1>2, <1>3, <1>4 DEF Remount

-----------------------------------------------------------------------------
\* Positions, passes and answers stay within bounds, for any mounts, any
\* number of callers and any changes of the files.
THEOREM TypeCorrect == Spec => []TypeOK
<1>1. IInv => TypeOK
  BY DEF IInv
<1> QED BY Inductive, <1>1, PTL

\* Every lookup, of any caller among any number, answers like a search of the
\* user directory and the mounts in their order of precedence, whatever
\* happens to the files while it looks.
THEOREM LookupImplementsOverlay == Spec => ImplementsOverlay
<1>1. Init => Server!Init
  BY OverlayInit
<1> QED BY Inductive, <1>1, NextRefines, PTL DEF Spec, ImplementsOverlay, Server!Spec

\* mount and unmount put in or take out a single mount, at any position, and
\* leave the others in their order.
THEOREM MountingKeepsPrecedence == Spec => PrecedenceKept
<1>1. IInv /\ [Next]_vars =>
        [dataland' # dataland =>
           \/ \E i \in DOMAIN dataland' : dataland = RemoveAt(dataland', i)
           \/ \E i \in DOMAIN dataland  : dataland' = RemoveAt(dataland, i)]_vars
  BY MountKeepsPrecedence DEF IInv, vars
<1> QED BY Inductive, <1>1, PTL DEF Spec, PrecedenceKept

-----------------------------------------------------------------------------
(* What the Overlay promises, and that a lookup gets there                  *)

\* While a search goes on its caller is the only one to end it.
LEMMA OwnAnswer ==
  ASSUME NEW c \in Callers, Server!Searching(c), ~ Server!Searching(c)',
         NEW d \in Callers, NEW answer, Server!Answer(d, answer), TypeOK
  PROVE  d = c /\ found'[c] = answer
<1>1. found'[d] = answer
  BY DEF Server!Answer, TypeOK
<1>2. d # c => [b \in Callers |-> Search(b)]'[c] = [b \in Callers |-> Search(b)][c]
  BY DEF Server!Answer
<1> QED BY <1>1, <1>2 DEF Server!Searching

LEMMA QuietStep ==
  ASSUME IInv, Server!Next, NEW c \in Callers
  PROVE  Server!QuietAnswer(c)
<1> SUFFICES ASSUME Server!Searching(c), ~ Server!Searching(c)', held[c] = steady[c]
             PROVE  IF found'[c] = None
                    THEN \A i \in Server!Considered(c) : Stack[i] \notin Server!Holding(c)
                    ELSE \E i \in Server!Considered(c) :
                           /\ found'[c] = Stack[i]
                           /\ Stack[i] \in
                                [k \in Identities |-> Holders(k)]'[[d \in Callers |-> Search(d)][c].key]
                           /\ \A j \in Server!Considered(c) :
                                j < i => Stack[j] \notin Server!Holding(c)
  BY DEF Server!QuietAnswer
<1> DEFINE key == [d \in Callers |-> Search(d)][c].key
<1>1. TypeOK /\ ~ Idle(c) /\ Sound(c)
  BY HoldingTracked DEF IInv, LookupSound, Tracking
<1>2. /\ Server!Holding(c) = Holding(c) /\ Holding(c) = held[c] /\ Holding(c) = steady[c]
      /\ key = call[c].identity /\ key \in Identities
      /\ Holding(c) \subseteq Holders(key)
  BY <1>1, SearchFacts, CallFacts DEF Sound, Holding
<1>3. \A i \in Server!Considered(c) : i \in DOMAIN Stack /\ Stack[i] \in Layers /\ Stack[i] # None
  BY <1>1, StackFacts, ElementOfSeq, NoneAssumption DEF Server!Considered
<1>4. ASSUME Server!Change \/ Server!Restack \/ \E d \in Callers : Server!Start(d) PROVE FALSE
  <2>1. [d \in Callers |-> Search(d)]'[c] = [d \in Callers |-> Search(d)][c]
    BY <1>4 DEF Server!Change, Server!Restack, Server!Start
  <2> QED BY <2>1 DEF Server!Searching
<1>5. ASSUME NEW d \in Callers, Server!Miss(d)
      PROVE  found'[c] = None /\ \A i \in Server!Considered(c) : Stack[i] \notin Server!Holding(c)
  BY <1>1, <1>2, <1>5, OwnAnswer DEF Server!Miss
<1>6. ASSUME NEW d \in Callers, NEW i \in DOMAIN Stack, Server!Hit(d, i)
      PROVE  /\ i \in Server!Considered(c) /\ found'[c] = Stack[i]
             /\ Stack[i] \in [k \in Identities |-> Holders(k)]'[key]
             /\ \A j \in Server!Considered(c) : j < i => Stack[j] \notin Server!Holding(c)
  <2>1. /\ d = c /\ found'[c] = Stack[i]
        /\ [k \in Identities |-> Holders(k)]' = [k \in Identities |-> Holders(k)]
    BY <1>1, <1>6, OwnAnswer DEF Server!Hit
  <2>2. Stack[i] \in [k \in Identities |-> Holders(k)][key]
    BY <1>2, <1>6, <2>1 DEF Server!Hit
  <2> QED BY <1>2, <1>6, <2>1, <2>2 DEF Server!Hit
<1>7. ASSUME NEW d \in Callers, Server!Create(d)
      PROVE  /\ 1 \in Server!Considered(c) /\ found'[c] = Stack[1]
             /\ Stack[1] \in [k \in Identities |-> Holders(k)]'[key]
             /\ \A j \in Server!Considered(c) : ~ j < 1
  <2>1. d = c /\ found'[c] = Stack[1]
    BY <1>1, <1>7, OwnAnswer DEF Server!Create
  <2>2. Stack[1] \in [k \in Identities |-> Holders(k)]'[key]
    <3>1. [k \in Identities |-> Holders(k)]' =
            [[k \in Identities |-> Holders(k)] EXCEPT ![key] = @ \cup {Stack[1]}]
      BY <1>7, <2>1 DEF Server!Create
    <3> HIDE DEF key
    <3> QED BY <1>2, <3>1
  <2>3. \A j \in Server!Considered(c) : ~ j < 1
    BY <1>1, <1>3, StackFacts
  <2> QED BY <1>7, <2>1, <2>2, <2>3 DEF Server!Create
<1> HIDE DEF key
<1> QED BY <1>3, <1>4, <1>5, <1>6, <1>7 DEF Server!Next, key

\* A lookup during which no file it looks for comes or goes answers with the
\* first of the user directory and the mounts to have the file, or makes it
\* in the user directory, and with nullptr only when none has it.
THEOREM QuietLookupsAreExact == Spec => Server!QuietSearchesAreExact
<1>1. IInv /\ Server!Next => \A c \in Callers : Server!QuietAnswer(c)
  BY QuietStep
<1> QED BY <1>1, NextRefines, Inductive, PTL DEF Spec, Server!QuietSearchesAreExact

\* How many mounts a lookup may still have to look in, with a step for the end
\* of each pass.
Remaining(c) ==
  (Len(Passes(call[c].operation)) - call[c].pass) * (Len(dataland) + 1) + call[c].left

\* Every step of a lookup that does not end it brings it closer to its end, and
\* nothing that others do throws it back: with at most four passes it takes at
\* most four times the number of mounts and four steps more.
THEOREM LookupsDrawToAnEnd ==
  Spec => /\ [](\A c \in Callers : ~ Idle(c) => Remaining(c) \in 0 .. 4 * Len(dataland) + 3)
          /\ [][\A c \in Callers : ~ Idle(c) /\ ~ Idle(c)' =>
                  IF call'[c] = call[c] THEN Remaining(c)' = Remaining(c)
                  ELSE Remaining(c)' < Remaining(c)]_vars
<1>1. ASSUME IInv, NEW c \in Callers, ~ Idle(c)
      PROVE  Remaining(c) \in 0 .. 4 * Len(dataland) + 3
  <2> DEFINE n == Len(dataland)
             k == Len(Passes(call[c].operation))
  <2>1. /\ n \in Nat /\ k \in 1 .. 4
        /\ call[c].pass \in 1 .. k /\ call[c].left \in 0 .. n
    BY <1>1, CallFacts, PassesFacts, LenProperties DEF IInv, TypeOK
  <2>2. k - call[c].pass \in 0 .. 3
    <3>1. \A a \in 1 .. 4 : \A b \in 1 .. a : a - b \in 0 .. 3
      OBVIOUS
    <3> QED BY <2>1, <3>1
  <2>3. \A m \in 0 .. 3 : m * (n + 1) + call[c].left \in 0 .. 4 * n + 3
    <3>1. \A m \in 0 .. 3 : m = 0 \/ m = 1 \/ m = 2 \/ m = 3
      OBVIOUS
    <3> HIDE DEF n
    <3> QED BY <2>1, <3>1
  <2> QED BY <2>2, <2>3 DEF Remaining
<1>2. ASSUME IInv, [Next]_vars, NEW c \in Callers, ~ Idle(c), ~ Idle(c)'
      PROVE  IF call'[c] = call[c] THEN Remaining(c)' = Remaining(c)
             ELSE Remaining(c)' < Remaining(c)
  <2>1. ASSUME call'[c] = call[c], UNCHANGED dataland PROVE Remaining(c)' = Remaining(c)
    BY <2>1 DEF Remaining
  <2>2. ASSUME NEW d \in Callers, Step(d), d # c PROVE call'[c] = call[c] /\ UNCHANGED dataland
    <3>1. ~ Idle(d) /\ Moves(d) /\ UNCHANGED dataland
      BY <1>2, <2>2, StepMoves DEF IInv
    <3>2. \E g : call' = [call EXCEPT ![d] = g]
      BY <3>1 DEF Moves, Return
    <3> QED BY <2>2, <3>1, <3>2 DEF IInv, TypeOK
  <2>3. ASSUME Step(c) PROVE Remaining(c)' < Remaining(c) /\ call'[c] # call[c]
    <3> DEFINE n == Len(dataland)
               k == Len(Passes(call[c].operation))
               p == call[c].pass
               l == call[c].left
    <3>1. /\ UNCHANGED dataland /\ call'[c].operation = call[c].operation
          /\ \/ call'[c].pass = p + 1 /\ call'[c].left = n
             \/ call'[c].pass = p /\ call'[c].left = l - 1
      BY <1>2, <2>3, StepMoves, MoveFacts DEF IInv
    <3>2. n \in Nat /\ k \in 1 .. 4 /\ p \in 1 .. k /\ l \in 0 .. n
      BY <1>2, CallFacts, PassesFacts, LenProperties DEF IInv, TypeOK
    <3>3. Remaining(c) = (k - p) * (n + 1) + l
      BY DEF Remaining
    <3>4. CASE call'[c].pass = p + 1 /\ call'[c].left = n
      <4>1. Remaining(c)' = (k - (p + 1)) * (n + 1) + n
        BY <3>1, <3>4 DEF Remaining
      <4> HIDE DEF n, k, p, l
      <4>2. (k - p) * (n + 1) = (k - (p + 1)) * (n + 1) + (n + 1)
        BY <3>2
      <4>3. (k - (p + 1)) * (n + 1) \in Int
        BY <3>2
      <4> QED BY <3>2, <3>3, <3>4, <4>1, <4>2, <4>3 DEF p
    <3>5. CASE call'[c].pass = p /\ call'[c].left = l - 1
      <4>1. Remaining(c)' = (k - p) * (n + 1) + (l - 1)
        BY <3>1, <3>5 DEF Remaining
      <4> HIDE DEF n, k, p
      <4>2. (k - p) * (n + 1) \in Int
        BY <3>2
      <4> QED BY <3>2, <3>3, <3>5, <4>1, <4>2
    <3> QED BY <3>1, <3>4, <3>5
  <2>4. CASE UNCHANGED vars \/ Others \/ Remount
    BY <1>2, <2>1, <2>4
    DEF vars, Others, Change, ChangeUserland, Remount, Mount, Unmount, NobodySearches
  <2>5. ASSUME NEW d \in Callers, Invoke(d) PROVE call'[c] = call[c] /\ UNCHANGED dataland
    BY <1>2, <2>5 DEF Invoke, Begin, IInv, TypeOK
  <2> QED BY <1>2, <2>1, <2>2, <2>3, <2>4, <2>5 DEF Next
<1>3. IInv => \A c \in Callers : ~ Idle(c) => Remaining(c) \in 0 .. 4 * Len(dataland) + 3
  BY <1>1
<1>4. IInv /\ [Next]_vars =>
        [\A c \in Callers : ~ Idle(c) /\ ~ Idle(c)' =>
           IF call'[c] = call[c] THEN Remaining(c)' = Remaining(c)
           ELSE Remaining(c)' < Remaining(c)]_vars
  BY <1>2
<1> QED BY <1>3, <1>4, Inductive, PTL DEF Spec
=============================================================================
