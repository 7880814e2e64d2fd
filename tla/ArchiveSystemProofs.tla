------------------------- MODULE ArchiveSystemProofs --------------------------
(***************************************************************************)
(* Loading an archive, for any directories, links and loaders, any number  *)
(* of callers, and whatever other programs do to the files meanwhile.      *)
(*                                                                         *)
(* The file a load has opened need not be there any more when a loader     *)
(* takes it, so the invariant remembers what it says of the directory:     *)
(* that it held the archive at some moment if some loader takes the file,  *)
(* and that it did not hold it all along if none does.                     *)
(***************************************************************************)
EXTENDS ArchiveSystem, SequencesExt, SequenceTheorems, FiniteSetTheorems, TLAPS

\* What erase makes of the vector of directories, element by element.
LEMMA RemoveFacts ==
  ASSUME NEW S, NEW s \in Seq(S), NEW i \in DOMAIN s
  PROVE  /\ RemoveAt(s, i) \in Seq(S)
         /\ Len(RemoveAt(s, i)) = Len(s) - 1
         /\ \A j \in 1 .. Len(s) - 1 : RemoveAt(s, i)[j] = s[IF j < i THEN j ELSE j + 1]
<1> DEFINE front == SubSeq(s, 1, i - 1)
           back  == SubSeq(s, i + 1, Len(s))
<1>1. i \in 1 .. Len(s) /\ Len(s) \in Nat
  BY LenProperties
<1>2. \A j \in 1 .. Len(s) : s[j] \in S
  BY ElementOfSeq
<1>3. /\ front \in Seq(S) /\ Len(front) = i - 1
      /\ \A j \in 1 .. i - 1 : front[j] = s[j]
  BY <1>1, <1>2
<1>4. /\ back \in Seq(S) /\ Len(back) = Len(s) - i
      /\ \A j \in 1 .. Len(s) - i : back[j] = s[i + j]
  BY <1>1, <1>2
<1>5. RemoveAt(s, i) = front \o back
  BY DEF RemoveAt
<1> HIDE DEF front, back
<1>6. /\ front \o back \in Seq(S) /\ Len(front \o back) = Len(front) + Len(back)
      /\ \A j \in 1 .. Len(front) + Len(back) :
           (front \o back)[j] = IF j <= Len(front) THEN front[j] ELSE back[j - Len(front)]
  BY <1>3, <1>4, ConcatProperties
<1>7. ASSUME NEW j \in 1 .. Len(s) - 1
      PROVE  (front \o back)[j] = s[IF j < i THEN j ELSE j + 1]
  <2>1. CASE j < i
    BY <1>1, <1>3, <1>4, <1>6, <2>1
  <2>2. CASE ~ j < i
    <3>1. j \in 1 .. Len(front) + Len(back) /\ ~ j <= Len(front)
      BY <1>1, <1>3, <1>4, <2>2
    <3>2. (front \o back)[j] = back[j - (i - 1)]
      BY <1>3, <1>6, <3>1
    <3>3. j - (i - 1) \in 1 .. Len(s) - i /\ i + (j - (i - 1)) = j + 1
      BY <1>1, <2>2
    <3> QED BY <1>4, <2>2, <3>3, <3>2
  <2> QED BY <2>1, <2>2
<1>8. Len(front \o back) = Len(s) - 1
  BY <1>1, <1>3, <1>4, <1>6
<1> QED BY <1>5, <1>6, <1>7, <1>8

Holding(c) == Holders(load[c].name)

\* Where the archive would be in the current directory.
Start(c) == child_path[<<Directory(c), load[c].name>>]

\* The loaders that were tried do not take the file.
Refused(c) == \A i \in 1 .. load[c].tried : load[c].file \notin Accepts[loaders[i]]

Sound(c) ==
  /\ Holding(c) \subseteq held[c]
  /\ steady[c] \subseteq Holding(c)
  /\ \A i \in DOMAIN directories : i > load[c].left => directories[i] \notin steady[c]
  /\ load[c].stage \in {"resolve", "open"} => Target[load[c].at] = Target[Start(c)]
  /\ load[c].stage = "opened" =>
       /\ IF load[c].file \in Loadable THEN Directory(c) \in held[c]
          ELSE Directory(c) \notin steady[c]
       /\ Refused(c)

LoadSound == \A c \in Callers : ~ Idle(c) => Sound(c)

IInv == TypeOK /\ LoadSound /\ OncePerPath /\ FirstLoaderWins

-----------------------------------------------------------------------------
(* Links                                                                    *)

\* A place that is no link is where the chain ends.
LEMMA PlainTarget ==
  ASSUME NEW place \in Plain
  PROVE  Target[place] = place
<1>1. place \in Places /\ {place} \cap DOMAIN Link = {}
  BY DEF Plain
<1>2. Chain[place] = {place}
  BY <1>1 DEF Chain
<1> QED BY <1>1, <1>2 DEF Target

\* Following a link does not change where the chain ends.
LEMMA LinkTarget ==
  ASSUME NEW place \in DOMAIN Link
  PROVE  Link[place] \in Places /\ Target[Link[place]] = Target[place]
<1>1. place \in Places /\ Link[place] \in Places
  BY PlaceAssumption
<1>2. ASSUME NEW t \in Plain PROVE t \in Chain[place] <=> t \in Chain[Link[place]]
  <2>0. t \in Places /\ t # place
    BY <1>1 DEF Plain
  <2>1. ASSUME t \in Chain[Link[place]] PROVE t \in Chain[place]
    <3>1. ASSUME NEW S \in SUBSET Places, place \in S,
                 \A r \in S \cap DOMAIN Link : Link[r] \in S
          PROVE  t \in S
      <4>1. Link[place] \in S
        BY <3>1
      <4> QED BY <1>1, <2>1, <3>1, <4>1 DEF Chain
    <3> QED BY <1>1, <2>0, <3>1 DEF Chain
  <2>2. ASSUME t \in Chain[place] PROVE t \in Chain[Link[place]]
    <3>1. ASSUME NEW S \in SUBSET Places, Link[place] \in S,
                 \A r \in S \cap DOMAIN Link : Link[r] \in S
          PROVE  t \in S
      <4>1. /\ S \cup {place} \in SUBSET Places
            /\ \A r \in (S \cup {place}) \cap DOMAIN Link : Link[r] \in S \cup {place}
        BY <1>1, <3>1
      <4>2. t \in S \cup {place}
        BY <1>1, <2>2, <4>1 DEF Chain
      <4> QED BY <2>0, <4>2
    <3> QED BY <1>1, <2>0, <3>1 DEF Chain
  <2> QED BY <2>1, <2>2
<1> QED BY <1>1, <1>2 DEF Target

-----------------------------------------------------------------------------
(* The history variables                                                    *)

LEMMA LoadFacts ==
  ASSUME TypeOK, NEW c \in Callers, ~ Idle(c)
  PROVE  /\ load[c] \in Loads /\ load[c].name \in Names
         /\ load[c].left \in 0 .. Len(directories) /\ Len(directories) \in Nat
         /\ DOMAIN directories = 1 .. Len(directories)
         /\ load[c].tried \in 0 .. Len(loaders) /\ Len(loaders) \in Nat
         /\ DOMAIN loaders = 1 .. Len(loaders)
         /\ load[c].stage # "next" => load[c].left \in DOMAIN directories
         /\ load[c].left \in DOMAIN directories => Directory(c) \in Paths /\ Start(c) \in Places
<1>1. /\ load[c] \in Loads /\ load[c].name \in Names
      /\ load[c].left \in 0 .. Len(directories) /\ load[c].tried \in 0 .. Len(loaders)
      /\ load[c].stage # "next" => load[c].left > 0
  BY DEF TypeOK, Idle, Loads
<1>2. /\ Len(directories) \in Nat /\ DOMAIN directories = 1 .. Len(directories)
      /\ Len(loaders) \in Nat /\ DOMAIN loaders = 1 .. Len(loaders)
  BY LenProperties DEF TypeOK
<1>3. load[c].left \in DOMAIN directories => Directory(c) \in Paths
  BY <1>2, ElementOfSeq DEF TypeOK, Directory
<1>4. load[c].left \in DOMAIN directories => Start(c) \in Places
  BY <1>1, <1>3, PlaceAssumption DEF Start
<1> QED BY <1>1, <1>2, <1>3, <1>4

\* What an Overlay calls searching and holding.
Tracking ==
  TypeOK => \A c \in Callers : /\ System!Searching(c) <=> ~ Idle(c)
                               /\ ~ Idle(c) => System!Holding(c) = Holding(c)

LEMMA HoldingTracked == Tracking
<1> SUFFICES ASSUME TypeOK, NEW c \in Callers
             PROVE  /\ System!Searching(c) <=> ~ Idle(c)
                    /\ ~ Idle(c) => System!Holding(c) = Holding(c)
  BY DEF Tracking
<1>1. Search(c) = [d \in Callers |-> Search(d)][c]
  OBVIOUS
<1>2. CASE Idle(c)
  BY <1>1, <1>2 DEF System!Searching, Search
<1>3. CASE ~ Idle(c)
  <2>1. /\ Search(c) \in [key : Names, among : SUBSET Paths, creates : BOOLEAN]
        /\ Search(c).key = load[c].name /\ Search(c).among = Paths
    BY <1>3, LoadFacts DEF Search
  <2>2. System!Searching(c)
    BY <1>1, <2>1, NoneAssumption DEF System!Searching
  <2>3. [name \in Names |-> Holders(name)][load[c].name] = Holders(load[c].name)
    BY <1>3, LoadFacts
  <2>4. System!Holding(c) = Holding(c)
    BY <1>1, <2>1, <2>3 DEF System!Holding, Holding, Holders
  <2> QED BY <1>3, <2>2, <2>4
<1> QED BY <1>2, <1>3

LEMMA Tracked ==
  ASSUME TypeOK, TypeOK', System!Track, NEW c \in Callers, ~ Idle(c)'
  PROVE  /\ Idle(c) => held'[c] = Holding(c)' /\ steady'[c] = Holding(c)'
         /\ ~ Idle(c) => held'[c] = held[c] \cup Holding(c)'
                         /\ steady'[c] = steady[c] \cap Holding(c)'
<1>1. System!Searching(c) <=> ~ Idle(c)
  BY HoldingTracked DEF Tracking
<1>2. Tracking'
  BY HoldingTracked, PTL
<1> QED BY <1>1, <1>2 DEF Tracking, System!Track

-----------------------------------------------------------------------------
(* Steps                                                                    *)

\* There is nothing to load in the current directory.
NothingThere(c) ==
  \/ At(c, "resolve") /\ load[c].at \in Plain /\ content[load[c].at] \in {"none", "dir"}
  \/ At(c, "open") /\ content[load[c].at] \in {"none", "unreadable"}
  \/ At(c, "opened") /\ load[c].tried = Len(loaders)

\* What a load becomes that goes on.
Goes(c, r) ==
  /\ r.name = load[c].name
  /\ IF NothingThere(c)
     THEN r.left = load[c].left - 1 /\ r.stage = "next" /\ r.tried = load[c].tried
     ELSE /\ r.left = load[c].left
          /\ \/ /\ At(c, "next") /\ load[c].left > 0
                /\ r.stage = "resolve" /\ r.at = Start(c) /\ r.tried = load[c].tried
             \/ /\ At(c, "resolve") /\ load[c].at \in DOMAIN Link
                /\ r.stage = "resolve" /\ r.at = Link[load[c].at] /\ r.tried = load[c].tried
             \/ /\ At(c, "resolve") /\ load[c].at \in Plain
                /\ r.stage = "open" /\ r.at = load[c].at /\ r.tried = load[c].tried
             \/ /\ At(c, "open")
                /\ r.stage = "opened" /\ r.file = content[load[c].at] /\ r.tried = 0
             \/ /\ At(c, "opened") /\ load[c].tried < Len(loaders)
                /\ load[c].file \notin Accepts[NextLoader(c)]
                /\ r.stage = "opened" /\ r.file = load[c].file /\ r.tried = load[c].tried + 1

GoesOn(c) ==
  \E r \in Loads : load' = [load EXCEPT ![c] = r] /\ UNCHANGED found /\ Goes(c, r)

GetsArchive(c) ==
  /\ At(c, "opened") /\ load[c].tried < Len(loaders)
  /\ load[c].file \in Accepts[NextLoader(c)]
  /\ Return(c, [path |-> Directory(c), loader |-> NextLoader(c), file |-> load[c].file])

GetsNothing(c) == At(c, "next") /\ load[c].left = 0 /\ Return(c, None)

\* Records of which two or three fields are replaced.
LEMMA LeftAndStage ==
  ASSUME NEW l \in Loads, NEW x, NEW y
  PROVE  [l EXCEPT !.left = x, !.stage = y]
           = [name |-> l.name, left |-> x, stage |-> y,
                  at |-> l.at, file |-> l.file, tried |-> l.tried]
<1> DEFINE m == [name |-> l.name, left |-> x, stage |-> l.stage,
                  at |-> l.at, file |-> l.file, tried |-> l.tried]
<1>1. [l EXCEPT !.left = x] = m
  BY DEF Loads
<1>2. [l EXCEPT !.left = x, !.stage = y] = [[l EXCEPT !.left = x] EXCEPT !.stage = y]
  BY DEF Loads
<1>3. [m EXCEPT !.stage = y]
        = [name |-> l.name, left |-> x, stage |-> y,
                  at |-> l.at, file |-> l.file, tried |-> l.tried]
  OBVIOUS
<1> QED BY <1>1, <1>2, <1>3

LEMMA StageAndAt ==
  ASSUME NEW l \in Loads, NEW x, NEW y
  PROVE  [l EXCEPT !.stage = x, !.at = y]
           = [name |-> l.name, left |-> l.left, stage |-> x,
                  at |-> y, file |-> l.file, tried |-> l.tried]
<1> DEFINE m == [name |-> l.name, left |-> l.left, stage |-> x,
                  at |-> l.at, file |-> l.file, tried |-> l.tried]
<1>1. [l EXCEPT !.stage = x] = m
  BY DEF Loads
<1>2. [l EXCEPT !.stage = x, !.at = y] = [[l EXCEPT !.stage = x] EXCEPT !.at = y]
  BY DEF Loads
<1>3. [m EXCEPT !.at = y]
        = [name |-> l.name, left |-> l.left, stage |-> x,
                  at |-> y, file |-> l.file, tried |-> l.tried]
  OBVIOUS
<1> QED BY <1>1, <1>2, <1>3

LEMMA StageFileAndTried ==
  ASSUME NEW l \in Loads, NEW x, NEW y
  PROVE  [l EXCEPT !.stage = x, !.file = y, !.tried = 0]
           = [name |-> l.name, left |-> l.left, stage |-> x,
                  at |-> l.at, file |-> y, tried |-> 0]
<1> DEFINE m == [name |-> l.name, left |-> l.left, stage |-> x,
                  at |-> l.at, file |-> l.file, tried |-> l.tried]
           n == [name |-> l.name, left |-> l.left, stage |-> x,
                  at |-> l.at, file |-> y, tried |-> l.tried]
<1>1. [l EXCEPT !.stage = x] = m
  BY DEF Loads
<1>2. [m EXCEPT !.file = y] = n
  OBVIOUS
<1>3. [n EXCEPT !.tried = 0]
        = [name |-> l.name, left |-> l.left, stage |-> x,
                  at |-> l.at, file |-> y, tried |-> 0]
  OBVIOUS
<1>4. [l EXCEPT !.stage = x, !.file = y, !.tried = 0]
        = [[[l EXCEPT !.stage = x] EXCEPT !.file = y] EXCEPT !.tried = 0]
  BY DEF Loads
<1> HIDE DEF m, n
<1> QED BY <1>1, <1>2, <1>3, <1>4

LEMMA ContinueGoes ==
  ASSUME TypeOK, NEW c \in Callers, NothingThere(c), Continue(c)
  PROVE  GoesOn(c)
<1>1. /\ ~ Idle(c) /\ load[c].stage # "next"
  BY DEF NothingThere, At
<1>2. load[c] \in Loads /\ load[c].left - 1 \in Nat
  BY <1>1, LoadFacts
<1> DEFINE r == [load[c] EXCEPT !.left = load[c].left - 1, !.stage = "next"]
<1>3. load' = [load EXCEPT ![c] = r] /\ UNCHANGED found
  BY DEF Continue
<1>4. r = [name |-> load[c].name, left |-> load[c].left - 1, stage |-> "next",
           at |-> load[c].at, file |-> load[c].file, tried |-> load[c].tried]
  BY <1>2, LeftAndStage
<1> HIDE DEF r
<1>5. r \in Loads /\ Goes(c, r)
  BY <1>2, <1>4 DEF Loads, Goes
<1> QED BY <1>3, <1>5 DEF GoesOn

LEMMA StepGoes ==
  ASSUME TypeOK, NEW c \in Callers, Step(c)
  PROVE  /\ ~ Idle(c) /\ UNCHANGED <<directories, loaders, content>>
         /\ GoesOn(c) \/ GetsArchive(c) \/ GetsNothing(c)
<1>1. ~ Idle(c) /\ UNCHANGED <<directories, loaders, content>>
  BY DEF Step, NextDirectory, GiveUp, ReadSymlink, Check, Open, TryLoader, NoLoader, At
<1>2. /\ load[c] \in Loads /\ load[c].tried \in 0 .. Len(loaders) /\ Len(loaders) \in Nat
      /\ load[c].left \in 0 .. Len(directories) /\ Len(directories) \in Nat
      /\ DOMAIN directories = 1 .. Len(directories)
      /\ load[c].left \in DOMAIN directories => Directory(c) \in Paths /\ Start(c) \in Places
      /\ load[c].stage = "open" => load[c].at \in Plain
      /\ load[c].stage # "next" => load[c].left \in DOMAIN directories
      /\ content \in [Plain -> Contents]
  BY <1>1, LoadFacts DEF TypeOK
<1>3. CASE NextDirectory(c)
  <2> DEFINE r == [load[c] EXCEPT !.stage = "resolve", !.at = Start(c)]
  <2>1. load' = [load EXCEPT ![c] = r] /\ UNCHANGED found
    BY <1>3 DEF NextDirectory, Start
  <2>2. At(c, "next") /\ load[c].left > 0 /\ ~ NothingThere(c)
    BY <1>3 DEF NextDirectory, NothingThere, At
  <2>3. Start(c) \in Places
    BY <1>2, <2>2
  <2>4. r = [name |-> load[c].name, left |-> load[c].left, stage |-> "resolve",
             at |-> Start(c), file |-> load[c].file, tried |-> load[c].tried]
    BY <1>2, StageAndAt
  <2> HIDE DEF r
  <2>5. r \in Loads /\ Goes(c, r)
    BY <1>2, <2>2, <2>3, <2>4 DEF Loads, Goes
  <2> QED BY <1>1, <2>1, <2>5 DEF GoesOn
<1>4. CASE GiveUp(c)
  BY <1>1, <1>4 DEF GiveUp, GetsNothing
<1>5. CASE ReadSymlink(c)
  <2> DEFINE r == [load[c] EXCEPT !.at = Link[load[c].at]]
  <2>1. /\ load' = [load EXCEPT ![c] = r] /\ UNCHANGED found
        /\ At(c, "resolve") /\ load[c].at \in DOMAIN Link /\ ~ NothingThere(c)
    BY <1>5 DEF ReadSymlink, NothingThere, At, Plain
  <2>2. Link[load[c].at] \in Places
    BY <2>1, LinkTarget
  <2>3. r = [name |-> load[c].name, left |-> load[c].left, stage |-> "resolve",
             at |-> Link[load[c].at], file |-> load[c].file, tried |-> load[c].tried]
    BY <1>2, <2>1 DEF Loads, At
  <2> HIDE DEF r
  <2>4. r \in Loads /\ Goes(c, r)
    BY <1>2, <2>1, <2>2, <2>3 DEF Loads, Goes
  <2> QED BY <1>1, <2>1, <2>4 DEF GoesOn
<1>6. CASE Check(c)
  <2>1. CASE content[load[c].at] \in {"none", "dir"}
    BY <1>1, <1>6, <2>1, ContinueGoes DEF Check, NothingThere
  <2>2. CASE content[load[c].at] \notin {"none", "dir"}
    <3> DEFINE r == [load[c] EXCEPT !.stage = "open"]
    <3>1. /\ load' = [load EXCEPT ![c] = r] /\ UNCHANGED found
          /\ At(c, "resolve") /\ load[c].at \in Plain /\ ~ NothingThere(c)
      BY <1>6, <2>2 DEF Check, NothingThere, At
    <3>2. r = [name |-> load[c].name, left |-> load[c].left, stage |-> "open",
               at |-> load[c].at, file |-> load[c].file, tried |-> load[c].tried]
      BY <1>2 DEF Loads
    <3> HIDE DEF r
    <3>3. r \in Loads /\ Goes(c, r)
      BY <1>2, <3>1, <3>2 DEF Loads, Goes
    <3> QED BY <1>1, <3>1, <3>3 DEF GoesOn
  <2> QED BY <2>1, <2>2
<1>7. CASE Open(c)
  <2>1. CASE content[load[c].at] \in {"none", "unreadable"}
    BY <1>1, <1>7, <2>1, ContinueGoes DEF Open, NothingThere
  <2>2. CASE content[load[c].at] \notin {"none", "unreadable"}
    <3>0. PICK file : file = content[load[c].at]
      OBVIOUS
    <3> DEFINE r == [load[c] EXCEPT !.stage = "opened", !.file = file, !.tried = 0]
    <3>1. /\ load' = [load EXCEPT ![c] = r] /\ UNCHANGED found
          /\ At(c, "open") /\ ~ NothingThere(c)
      BY <1>7, <2>2, <3>0 DEF Open, NothingThere, At
    <3>2. file \in Contents
      BY <1>2, <3>0, <3>1 DEF At
    <3>3. r = [name |-> load[c].name, left |-> load[c].left, stage |-> "opened",
               at |-> load[c].at, file |-> file, tried |-> 0]
      BY <1>2, StageFileAndTried
    <3> HIDE DEF r
    <3>4. r \in Loads /\ Goes(c, r)
      BY <1>2, <3>0, <3>1, <3>2, <3>3 DEF Loads, Goes
    <3> QED BY <1>1, <3>1, <3>4 DEF GoesOn
  <2> QED BY <2>1, <2>2
<1>8. CASE TryLoader(c)
  <2>1. At(c, "opened") /\ load[c].tried < Len(loaders)
    BY <1>8 DEF TryLoader
  <2>2. CASE load[c].file \in Accepts[NextLoader(c)]
    BY <1>1, <1>8, <2>1, <2>2 DEF TryLoader, GetsArchive
  <2>3. CASE load[c].file \notin Accepts[NextLoader(c)]
    <3> DEFINE r == [load[c] EXCEPT !.tried = load[c].tried + 1]
    <3>1. load' = [load EXCEPT ![c] = r] /\ UNCHANGED found /\ ~ NothingThere(c)
      BY <1>2, <1>8, <2>1, <2>3 DEF TryLoader, NothingThere, At
    <3>2. r = [name |-> load[c].name, left |-> load[c].left, stage |-> "opened",
               at |-> load[c].at, file |-> load[c].file, tried |-> load[c].tried + 1]
      BY <1>2, <2>1 DEF Loads, At
    <3> HIDE DEF r
    <3>3. r \in Loads /\ Goes(c, r)
      BY <1>2, <2>1, <2>3, <3>1, <3>2 DEF Loads, Goes
    <3> QED BY <1>1, <3>1, <3>3 DEF GoesOn
  <2> QED BY <2>2, <2>3
<1>9. CASE NoLoader(c)
  BY <1>1, <1>9, ContinueGoes DEF NoLoader, NothingThere
<1> QED BY <1>3, <1>4, <1>5, <1>6, <1>7, <1>8, <1>9 DEF Step

\* Going on keeps a load within its bounds.
LEMMA GoesFacts ==
  ASSUME TypeOK, NEW c \in Callers, ~ Idle(c), NEW r \in Loads, Goes(c, r)
  PROVE  /\ r.left \in 0 .. Len(directories)
         /\ r.stage # "next" => r.left > 0
         /\ r.tried \in 0 .. Len(loaders)
         /\ r.stage = "resolve" => r.at \in Places
         /\ r.stage = "open" => r.at \in Plain
<1>1. /\ load[c].left \in 0 .. Len(directories) /\ Len(directories) \in Nat
      /\ load[c].tried \in 0 .. Len(loaders) /\ Len(loaders) \in Nat
      /\ load[c].stage # "next" => load[c].left > 0
      /\ load[c].left > 0 => Start(c) \in Places
  BY LoadFacts DEF TypeOK
<1>2. CASE NothingThere(c)
  <2>1. load[c].left > 0
    BY <1>1, <1>2 DEF NothingThere, At
  <2> QED BY <1>1, <1>2, <2>1 DEF Goes
<1>3. CASE ~ NothingThere(c)
  <2>1. r.left = load[c].left /\ r.left > 0
    <3>1. r.left = load[c].left /\ (load[c].left > 0 \/ load[c].stage # "next")
      BY <1>3 DEF Goes, At
    <3> QED BY <1>1, <3>1
  <2>4. \/ r.tried \in {0, load[c].tried}
        \/ r.tried = load[c].tried + 1 /\ load[c].tried < Len(loaders)
    BY <1>3 DEF Goes
  <2>2. r.stage = "resolve" => r.at \in Places
    BY <1>1, <1>3, LinkTarget DEF Goes
  <2>3. r.stage = "open" => r.at \in Plain
    BY <1>3 DEF Goes
  <2> QED BY <1>1, <2>1, <2>2, <2>3, <2>4
<1> QED BY <1>2, <1>3

-----------------------------------------------------------------------------
(* Types                                                                    *)

LEMMA StepTypes ==
  ASSUME TypeOK, NEW c \in Callers, Step(c)
  PROVE  TypeOK'
<1>1. ~ Idle(c) /\ UNCHANGED <<directories, loaders, content>>
  BY StepGoes
<1>2. CASE GoesOn(c)
  <2>1. PICK r \in Loads : load' = [load EXCEPT ![c] = r] /\ UNCHANGED found /\ Goes(c, r)
    BY <1>2 DEF GoesOn
  <2>2. /\ load' \in [Callers -> {NoLoad} \cup Loads] /\ load'[c] = r
        /\ \A d \in Callers \ {c} : load'[d] = load[d]
    BY <2>1 DEF TypeOK
  <2>3. ASSUME NEW d \in Callers, ~ Idle(d)'
        PROVE  /\ load'[d].left \in 0 .. Len(directories)
               /\ load'[d].stage # "next" => load'[d].left > 0
               /\ load'[d].tried \in 0 .. Len(loaders)
               /\ load'[d].stage = "resolve" => load'[d].at \in Places
               /\ load'[d].stage = "open" => load'[d].at \in Plain
    <3>1. CASE d = c
      BY <1>1, <2>1, <2>2, <3>1, GoesFacts
    <3>2. CASE d # c
      BY <2>2, <2>3, <3>2 DEF TypeOK, Idle
    <3> QED BY <3>1, <3>2
  <2> QED BY <1>1, <2>1, <2>2, <2>3 DEF TypeOK
<1>3. ASSUME NEW answer \in {None} \cup Archives, Return(c, answer) PROVE TypeOK'
  <2>1. /\ load' \in [Callers -> {NoLoad} \cup Loads] /\ load'[c] = NoLoad
        /\ \A d \in Callers \ {c} : load'[d] = load[d]
        /\ found' \in [Callers -> {None} \cup Archives]
    BY <1>3 DEF Return, TypeOK
  <2>2. \A d \in Callers : ~ Idle(d)' => ~ Idle(d) /\ load'[d] = load[d]
    BY <2>1 DEF Idle
  <2> QED BY <1>1, <2>1, <2>2 DEF TypeOK
<1>4. CASE GetsNothing(c)
  BY <1>3, <1>4 DEF GetsNothing
<1>5. CASE GetsArchive(c)
  <2>1. /\ load[c].stage = "opened" /\ load[c].tried + 1 \in DOMAIN loaders
        /\ Directory(c) \in Paths
    BY <1>1, <1>5, LoadFacts DEF GetsArchive, At
  <2>2. NextLoader(c) \in Loaders
    BY <2>1, ElementOfSeq DEF TypeOK, NextLoader
  <2>3. load[c].file \in Formats
    BY <1>5, <2>2, LoaderAssumption DEF GetsArchive
  <2>4. [path |-> Directory(c), loader |-> NextLoader(c), file |-> load[c].file] \in Archives
    BY <2>1, <2>2, <2>3 DEF Archives
  <2> QED BY <1>3, <1>5, <2>4 DEF GetsArchive
<1> QED BY <1>2, <1>4, <1>5, StepGoes

\* Registering, by a caller or while nobody loads.
LEMMA RegisterTypes ==
  ASSUME TypeOK, Register
  PROVE  TypeOK'
<1>1. NobodyLoads /\ UNCHANGED <<content, load, found>>
  BY DEF Register, register_directory, unregister_directory, register_loader
<1>2. directories' \in Seq(Paths)
  <2>1. ASSUME NEW path \in Paths, register_directory(path) PROVE directories' \in Seq(Paths)
    BY <2>1, AppendProperties DEF register_directory, TypeOK
  <2>2. ASSUME NEW path \in Paths, unregister_directory(path) PROVE directories' \in Seq(Paths)
    BY <2>2, RemoveFacts DEF unregister_directory, TypeOK
  <2> QED BY <2>1, <2>2 DEF Register, register_loader, TypeOK
<1>3. loaders' \in Seq(Loaders)
  <2>1. ASSUME NEW loader \in Loaders, register_loader(loader) PROVE loaders' \in Seq(Loaders)
    BY <2>1, AppendProperties DEF register_loader, TypeOK
  <2> QED BY <2>1 DEF Register, register_directory, unregister_directory, TypeOK
<1> QED BY <1>1, <1>2, <1>3 DEF TypeOK, NobodyLoads, Idle

LEMMA BeginTypes ==
  ASSUME TypeOK, NEW c \in Callers, NEW name \in Names, Begin(c, name)
  PROVE  TypeOK' /\ ~ Idle(c)'
<1> DEFINE r == [name |-> name, left |-> Len(directories), stage |-> "next",
                 at |-> None, file |-> "none", tried |-> 0]
<1>1. Len(directories) \in Nat /\ Len(loaders) \in Nat
  BY LenProperties DEF TypeOK
<1>2. r \in Loads
  BY <1>1 DEF Loads, Contents
<1>3. /\ load' = [load EXCEPT ![c] = r] /\ found' = [found EXCEPT ![c] = None]
      /\ UNCHANGED <<directories, loaders, content>>
  BY DEF Begin
<1>4. /\ r.left = Len(directories) /\ r.stage = "next" /\ r.tried = 0
  OBVIOUS
<1> HIDE DEF r
<1>5. /\ load' \in [Callers -> {NoLoad} \cup Loads] /\ load'[c] = r
      /\ \A d \in Callers \ {c} : load'[d] = load[d]
      /\ found' \in [Callers -> {None} \cup Archives]
  BY <1>2, <1>3 DEF TypeOK
<1>6. ASSUME NEW d \in Callers, ~ Idle(d)'
      PROVE  /\ load'[d].left \in 0 .. Len(directories)
             /\ load'[d].stage # "next" => load'[d].left > 0
             /\ load'[d].tried \in 0 .. Len(loaders)
             /\ load'[d].stage = "resolve" => load'[d].at \in Places
             /\ load'[d].stage = "open" => load'[d].at \in Plain
  <2>1. CASE d = c
    BY <1>1, <1>4, <1>5, <2>1
  <2>2. CASE d # c
    BY <1>5, <1>6, <2>2 DEF TypeOK, Idle
  <2> QED BY <2>1, <2>2
<1>7. ~ Idle(c)'
  BY <1>2, <1>5, NoneAssumption DEF Idle
<1> QED BY <1>3, <1>5, <1>6, <1>7 DEF TypeOK

LEMMA NextTypes ==
  ASSUME TypeOK, Next
  PROVE  TypeOK'
<1>1. ASSUME NEW place \in Plain, Change(place) PROVE TypeOK'
  <2>1. content' \in [Plain -> Contents]
    BY <1>1 DEF Change, TypeOK
  <2> QED BY <1>1, <2>1 DEF Change, TypeOK, Idle
<1> QED BY <1>1, StepTypes, RegisterTypes, BeginTypes DEF Next

-----------------------------------------------------------------------------
(* The inductive invariant                                                  *)

\* What can be loaded is a file of some format.
LEMMA LoadableFacts ==
  ASSUME TypeOK
  PROVE  /\ \A x : x \in Loadable <=> \E i \in DOMAIN loaders : x \in Accepts[loaders[i]]
         /\ \A x \in {"none", "dir", "unreadable"} : x \notin Loadable
<1>1. \A x : x \in Loadable <=> \E i \in DOMAIN loaders : x \in Accepts[loaders[i]]
  BY DEF Loadable
<1>2. \A i \in DOMAIN loaders : Accepts[loaders[i]] \subseteq Formats
  BY ElementOfSeq, LoaderAssumption DEF TypeOK
<1> QED BY <1>1, <1>2, LoaderAssumption

\* Where a load has followed the links to their end, the current directory
\* holds the archive if and only if what is there can be loaded.
LEMMA CurrentHolds ==
  ASSUME TypeOK, NEW c \in Callers, ~ Idle(c), Sound(c),
         load[c].stage \in {"resolve", "open"}, load[c].at \in Plain
  PROVE  Directory(c) \in Holding(c) <=> content[load[c].at] \in Loadable
<1>1. Target[Start(c)] = load[c].at
  BY PlainTarget DEF Sound
<1>2. Directory(c) \in Paths
  BY LoadFacts
<1> QED BY <1>1, <1>2 DEF Holding, Holders, Start

LEMMA NothingHeld ==
  ASSUME TypeOK, NEW c \in Callers, ~ Idle(c), Sound(c), NothingThere(c)
  PROVE  Directory(c) \notin steady[c] \cap Holding(c)
<1>1. CASE load[c].stage \in {"resolve", "open"}
  <2>1. load[c].at \in Plain
    BY <1>1 DEF NothingThere, At, TypeOK
  <2>2. content[load[c].at] \in {"none", "dir", "unreadable"}
    BY <1>1 DEF NothingThere, At
  <2> QED BY <1>1, <2>1, <2>2, CurrentHolds, LoadableFacts
<1>2. CASE load[c].stage = "opened" /\ load[c].tried = Len(loaders)
  <2>1. DOMAIN loaders = 1 .. load[c].tried
    BY <1>2, LoadFacts
  <2>2. load[c].file \notin Loadable
    BY <1>2, <2>1, LoadableFacts DEF Sound, Refused
  <2> QED BY <1>2, <2>2 DEF Sound
<1> QED BY <1>1, <1>2 DEF NothingThere, At

LEMMA SoundStays ==
  ASSUME TypeOK, TypeOK', System!Track, NEW c \in Callers, ~ Idle(c), Sound(c),
         load'[c] = load[c], UNCHANGED <<directories, loaders>>
  PROVE  Sound(c)'
<1>1. ~ Idle(c)'
  BY DEF Idle
<1>2. held'[c] = held[c] \cup Holding(c)' /\ steady'[c] = steady[c] \cap Holding(c)'
  BY <1>1, Tracked
<1>3. UNCHANGED <<Start(c), Directory(c), Loadable, Refused(c)>>
  BY DEF Start, Directory, Loadable, Refused
<1> QED BY <1>2, <1>3 DEF Sound

LEMMA SoundMoves ==
  ASSUME TypeOK, TypeOK', System!Track, NEW c \in Callers, ~ Idle(c), Sound(c), GoesOn(c),
         ~ Idle(c)', UNCHANGED <<directories, loaders, content>>
  PROVE  Sound(c)'
<1>1. PICK r \in Loads : load' = [load EXCEPT ![c] = r] /\ UNCHANGED found /\ Goes(c, r)
  BY DEF GoesOn
<1>2. load'[c] = r /\ r.name = load[c].name
  BY <1>1 DEF TypeOK, Goes
<1>3. Holding(c)' = Holding(c) /\ Loadable' = Loadable
  BY <1>2 DEF Holding, Holders, Loadable
<1>4. held'[c] = held[c] \cup Holding(c) /\ steady'[c] = steady[c] \cap Holding(c)
  BY <1>3, Tracked
<1>5. /\ load[c].left \in 0 .. Len(directories) /\ Len(directories) \in Nat
      /\ DOMAIN directories = 1 .. Len(directories)
      /\ load[c].tried \in 0 .. Len(loaders) /\ Len(loaders) \in Nat
  BY LoadFacts
<1>6. CASE NothingThere(c)
  <2>1. r.left = load[c].left - 1 /\ r.stage = "next"
    BY <1>1, <1>6 DEF Goes
  <2>2. directories[load[c].left] \notin steady'[c]
    BY <1>4, <1>6, NothingHeld DEF Directory
  <2>3. \A i \in DOMAIN directories : i > r.left => i = load[c].left \/ i > load[c].left
    BY <1>5, <2>1
  <2>4. \A i \in DOMAIN directories : i > r.left => directories[i] \notin steady'[c]
    BY <1>4, <2>2, <2>3 DEF Sound
  <2> QED BY <1>2, <1>3, <1>4, <2>1, <2>4 DEF Sound
<1>7. CASE ~ NothingThere(c)
  <2>1. r.left = load[c].left
    BY <1>1, <1>7 DEF Goes
  <2>2. Start(c)' = Start(c) /\ Directory(c)' = Directory(c)
    BY <1>2, <2>1 DEF Start, Directory
  <2>3. r.stage \in {"resolve", "open"} => Target[r.at] = Target[Start(c)]
    BY <1>1, <1>7, LinkTarget DEF Goes, Sound, At
  <2>4. ASSUME r.stage = "opened"
        PROVE  /\ IF r.file \in Loadable THEN Directory(c) \in held'[c]
                  ELSE Directory(c) \notin steady'[c]
               /\ \A i \in 1 .. r.tried : r.file \notin Accepts[loaders[i]]
    <3>1. CASE load[c].stage = "open"
      <4>1. r.file = content[load[c].at] /\ r.tried = 0 /\ load[c].at \in Plain
        BY <1>1, <1>7, <2>4, <3>1 DEF Goes, At, TypeOK
      <4>2. Directory(c) \in Holding(c) <=> r.file \in Loadable
        BY <3>1, <4>1, CurrentHolds
      <4>3. 1 .. r.tried = {}
        BY <4>1
      <4> QED BY <1>4, <4>2, <4>3
    <3>2. CASE load[c].stage # "open"
      <4>1. /\ load[c].stage = "opened" /\ r.file = load[c].file /\ r.tried = load[c].tried + 1
            /\ load[c].file \notin Accepts[loaders[load[c].tried + 1]]
        BY <1>1, <1>7, <2>4, <3>2 DEF Goes, At, NextLoader
      <4>2. \A i \in 1 .. r.tried : i \in 1 .. load[c].tried \/ i = load[c].tried + 1
        BY <1>5, <4>1
      <4>3. \A i \in 1 .. r.tried : r.file \notin Accepts[loaders[i]]
        BY <4>1, <4>2 DEF Sound, Refused
      <4> QED BY <1>4, <4>1, <4>3 DEF Sound
    <3> QED BY <3>1, <3>2
  <2>5. r.stage = "opened" => Refused(c)'
    BY <1>2, <2>4 DEF Refused
  <2> QED BY <1>2, <1>3, <1>4, <2>1, <2>2, <2>3, <2>4, <2>5 DEF Sound
<1> QED BY <1>6, <1>7

\* A load that begins has not looked anywhere.
LEMMA SoundBegins ==
  ASSUME TypeOK, TypeOK', System!Track, NEW c \in Callers, NEW name \in Names, Begin(c, name)
  PROVE  Sound(c)'
<1>1. Idle(c) /\ ~ Idle(c)' /\ UNCHANGED directories
  BY BeginTypes DEF Begin
<1>2. load'[c].left = Len(directories) /\ load'[c].stage = "next"
  BY DEF Begin, TypeOK
<1>3. held'[c] = Holding(c)' /\ steady'[c] = Holding(c)'
  BY <1>1, Tracked
<1>4. \A i \in DOMAIN directories : ~ i > Len(directories)
  BY LenProperties DEF TypeOK
<1> QED BY <1>1, <1>2, <1>3, <1>4 DEF Sound

LEMMA NextSound ==
  ASSUME TypeOK, LoadSound, Next
  PROVE  LoadSound'
<1>1. TypeOK' /\ System!Track
  BY NextTypes DEF Next
<1> SUFFICES ASSUME NEW c \in Callers, ~ Idle(c)' PROVE Sound(c)'
  BY DEF LoadSound
<1>2. CASE Register
  <2>1. FALSE
    BY <1>2 DEF Register, register_directory, unregister_directory, register_loader,
                NobodyLoads, Idle
  <2> QED BY <2>1
<1>3. ASSUME NEW place \in Plain, Change(place) PROVE Sound(c)'
  BY <1>1, <1>3, SoundStays DEF Change, LoadSound, Idle
<1>4. ASSUME NEW d \in Callers, NEW name \in Names, Begin(d, name) PROVE Sound(c)'
  <2>1. CASE c = d
    BY <1>1, <1>4, <2>1, SoundBegins
  <2>2. CASE c # d
    <3>1. load'[c] = load[c] /\ UNCHANGED <<directories, loaders>>
      BY <1>4, <2>2 DEF Begin, TypeOK
    <3> QED BY <1>1, <3>1, SoundStays DEF LoadSound, Idle
  <2> QED BY <2>1, <2>2
<1>5. ASSUME NEW d \in Callers, Step(d) PROVE Sound(c)'
  <2>1. /\ UNCHANGED <<directories, loaders, content>>
        /\ ~ Idle(d) /\ (GoesOn(d) \/ GetsArchive(d) \/ GetsNothing(d))
    BY <1>5, StepGoes
  <2>2. CASE c = d
    <3>1. ~ GetsArchive(d) /\ ~ GetsNothing(d)
      BY <2>2 DEF GetsArchive, GetsNothing, Return, Idle, TypeOK
    <3> QED BY <1>1, <2>1, <2>2, <3>1, SoundMoves DEF LoadSound
  <2>3. CASE c # d
    <3>1. load'[c] = load[c]
      BY <2>1, <2>3 DEF GoesOn, GetsArchive, GetsNothing, Return, TypeOK
    <3> QED BY <1>1, <2>1, <3>1, SoundStays DEF LoadSound, Idle
  <2> QED BY <2>2, <2>3
<1> QED BY <1>2, <1>3, <1>4, <1>5 DEF Next

LEMMA NextOncePerPath ==
  ASSUME TypeOK, OncePerPath, Next
  PROVE  OncePerPath'
<1>1. Len(directories) \in Nat /\ DOMAIN directories = 1 .. Len(directories)
  BY LenProperties DEF TypeOK
<1>2. CASE UNCHANGED directories
  BY <1>2 DEF OncePerPath
<1>3. ASSUME NEW path \in Paths, register_directory(path) PROVE OncePerPath'
  <2>1. /\ directories' = Append(directories, path)
        /\ \A i \in DOMAIN directories : directories[i] # path
    BY <1>3 DEF register_directory
  <2>2. /\ directories' \in Seq(Paths) /\ Len(directories') = Len(directories) + 1
        /\ \A i \in 1 .. Len(directories) : directories'[i] = directories[i]
        /\ directories'[Len(directories) + 1] = path
    BY <2>1, AppendProperties DEF TypeOK
  <2>3. DOMAIN directories' = 1 .. Len(directories) + 1
    BY <2>2, LenProperties
  <2>4. \A i \in DOMAIN directories' : i \in 1 .. Len(directories) \/ i = Len(directories) + 1
    BY <1>1, <2>3
  <2> QED BY <1>1, <2>1, <2>2, <2>4 DEF OncePerPath
<1>4. ASSUME NEW path \in Paths, unregister_directory(path) PROVE OncePerPath'
  <2>1. PICK k \in DOMAIN directories : directories' = RemoveAt(directories, k)
    BY <1>4 DEF unregister_directory
  <2>2. /\ directories' \in Seq(Paths) /\ Len(directories') = Len(directories) - 1
        /\ \A i \in 1 .. Len(directories) - 1 :
             directories'[i] = directories[IF i < k THEN i ELSE i + 1]
    BY <2>1, RemoveFacts DEF TypeOK
  <2>3. DOMAIN directories' = 1 .. Len(directories) - 1
    BY <2>2, LenProperties
  <2>4. ASSUME NEW i \in DOMAIN directories', NEW j \in DOMAIN directories',
               directories'[i] = directories'[j]
        PROVE  i = j
    <3> DEFINE old(x) == IF x < k THEN x ELSE x + 1
    <3>1. old(i) \in DOMAIN directories /\ old(j) \in DOMAIN directories
      BY <1>1, <2>3
    <3>2. directories[old(i)] = directories[old(j)]
      BY <2>2, <2>3, <2>4
    <3>3. old(i) = old(j)
      BY <3>1, <3>2 DEF OncePerPath
    <3> QED BY <1>1, <2>3, <3>3
  <2> QED BY <2>4 DEF OncePerPath
<1>5. ASSUME NEW c \in Callers, Step(c) PROVE UNCHANGED directories
  BY <1>5, StepGoes
<1> QED BY <1>2, <1>3, <1>4, <1>5 DEF Next, Register, register_loader, Change, Begin

LEMMA NextFirstLoaderWins ==
  ASSUME IInv, Next
  PROVE  FirstLoaderWins'
<1>1. TypeOK /\ FirstLoaderWins /\ LoadSound
  BY DEF IInv
<1>2. CASE UNCHANGED <<loaders, found>>
  BY <1>1, <1>2 DEF FirstLoaderWins
<1>3. ASSUME NEW loader \in Loaders, register_loader(loader) PROVE FirstLoaderWins'
  <2>1. loaders' = Append(loaders, loader) /\ UNCHANGED found
    BY <1>3 DEF register_loader
  <2>2. /\ loaders' \in Seq(Loaders) /\ Len(loaders') = Len(loaders) + 1
        /\ \A i \in 1 .. Len(loaders) : loaders'[i] = loaders[i]
        /\ Len(loaders) \in Nat /\ DOMAIN loaders = 1 .. Len(loaders)
    BY <1>1, <2>1, AppendProperties, LenProperties DEF TypeOK
  <2>3. DOMAIN loaders' = 1 .. Len(loaders) + 1
    BY <2>2, LenProperties
  <2>4. \A i \in DOMAIN loaders :
          /\ i \in DOMAIN loaders' /\ loaders'[i] = loaders[i]
          /\ \A j \in 1 .. i - 1 : j \in DOMAIN loaders
    BY <2>2, <2>3
  <2>5. ASSUME NEW c \in Callers, found[c] # None
        PROVE  \E i \in DOMAIN loaders' :
                 /\ loaders'[i] = found[c].loader
                 /\ found[c].file \in Accepts[loaders'[i]]
                 /\ \A j \in 1 .. i - 1 : found[c].file \notin Accepts[loaders'[j]]
    <3>1. PICK i \in DOMAIN loaders :
            /\ loaders[i] = found[c].loader /\ found[c].file \in Accepts[loaders[i]]
            /\ \A j \in 1 .. i - 1 : found[c].file \notin Accepts[loaders[j]]
      BY <1>1, <2>5 DEF FirstLoaderWins
    <3>2. \A j \in 1 .. i - 1 : loaders'[j] = loaders[j]
      BY <2>4
    <3> QED BY <2>4, <3>1, <3>2
  <2> QED BY <2>1, <2>5 DEF FirstLoaderWins
<1>4. ASSUME NEW c \in Callers, NEW name \in Names, Begin(c, name) PROVE FirstLoaderWins'
  <2>1. UNCHANGED loaders /\ found' = [found EXCEPT ![c] = None]
    BY <1>4 DEF Begin
  <2>2. \A d \in Callers : found'[d] # None => found'[d] = found[d]
    BY <1>1, <2>1 DEF TypeOK
  <2> QED BY <1>1, <2>1, <2>2 DEF FirstLoaderWins
<1>5. ASSUME NEW c \in Callers, Step(c) PROVE FirstLoaderWins'
  <2>1. /\ ~ Idle(c) /\ UNCHANGED <<directories, loaders, content>>
        /\ GoesOn(c) \/ GetsArchive(c) \/ GetsNothing(c)
    BY <1>1, <1>5, StepGoes
  <2>2. CASE GoesOn(c)
    BY <1>2, <2>1, <2>2 DEF GoesOn
  <2>3. CASE GetsNothing(c)
    <3>1. \A d \in Callers : found'[d] # None => found'[d] = found[d]
      BY <1>1, <2>3 DEF TypeOK, GetsNothing, Return
    <3> QED BY <1>1, <2>1, <3>1 DEF FirstLoaderWins
  <2>4. CASE GetsArchive(c)
    <3>1. /\ load[c].tried + 1 \in DOMAIN loaders /\ load[c].tried \in Nat
          /\ load[c].stage = "opened"
      BY <1>1, <2>1, <2>4, LoadFacts DEF GetsArchive, At
    <3>2. /\ found'[c].loader = loaders[load[c].tried + 1] /\ found'[c].file = load[c].file
          /\ load[c].file \in Accepts[loaders[load[c].tried + 1]]
          /\ \A d \in Callers \ {c} : found'[d] = found[d]
      BY <1>1, <2>4 DEF GetsArchive, Return, NextLoader, TypeOK
    <3>3. \A j \in 1 .. (load[c].tried + 1) - 1 : load[c].file \notin Accepts[loaders[j]]
      BY <1>1, <2>1, <3>1 DEF LoadSound, Sound, Refused
    <3> QED BY <1>1, <2>1, <3>1, <3>2, <3>3 DEF FirstLoaderWins
  <2> QED BY <2>1, <2>2, <2>3, <2>4
<1> QED BY <1>2, <1>3, <1>4, <1>5
        DEF Next, Register, register_directory, unregister_directory, Change

LEMMA InitInv == Init => IInv
<1> SUFFICES ASSUME Init PROVE IInv
  OBVIOUS
<1>1. directories \in Seq(Paths) /\ loaders \in Seq(Loaders) /\ DOMAIN directories = {}
  BY EmptySeq, LenProperties DEF Init
<1>2. \A c \in Callers : Idle(c) /\ found[c] = None
  BY DEF Init, Idle
<1>3. /\ content \in [Plain -> Contents]
      /\ load \in [Callers -> {NoLoad} \cup Loads]
      /\ found \in [Callers -> {None} \cup Archives]
  BY DEF Init
<1> QED BY <1>1, <1>2, <1>3 DEF IInv, TypeOK, LoadSound, OncePerPath, FirstLoaderWins

LEMMA StepInv == IInv /\ [Next]_vars => IInv'
<1> SUFFICES ASSUME IInv, [Next]_vars PROVE IInv'
  OBVIOUS
<1>1. CASE UNCHANGED vars
  <2>1. UNCHANGED <<directories, loaders, content, load, found, held, steady>>
    BY <1>1 DEF vars
  <2>2. TypeOK' /\ OncePerPath' /\ FirstLoaderWins'
    BY <2>1 DEF IInv, TypeOK, Idle, OncePerPath, FirstLoaderWins
  <2>3. LoadSound'
    BY <2>1 DEF IInv, LoadSound, Sound, Holding, Holders, Start, Directory, Loadable,
                Refused, Idle
  <2> QED BY <2>2, <2>3 DEF IInv
<1>2. CASE Next
  BY <1>2, NextTypes, NextSound, NextOncePerPath, NextFirstLoaderWins DEF IInv
<1> QED BY <1>1, <1>2

LEMMA Inductive == Spec => []IInv
<1> QED BY InitInv, StepInv, PTL DEF Spec

-----------------------------------------------------------------------------
(* Every step is one of the Overlay                                         *)

\* What the Overlay sees of an answer.
Answer(x) == IF x = None THEN None ELSE x.path

LEMMA StackFacts ==
  ASSUME directories \in Seq(Paths)
  PROVE  /\ Stack \in Seq(Paths)
         /\ Len(directories) \in Nat
         /\ DOMAIN directories = 1 .. Len(directories) /\ DOMAIN Stack = 1 .. Len(directories)
         /\ \A i \in 1 .. Len(directories) : Stack[i] = directories[Len(directories) + 1 - i]
<1> DEFINE n == Len(directories)
<1>1. n \in Nat /\ DOMAIN directories = 1 .. n /\ \A i \in 1 .. n : directories[i] \in Paths
  BY LenProperties, ElementOfSeq
<1> HIDE DEF n
<1>2. Stack = [i \in 1 .. n |-> directories[n + 1 - i]]
  BY <1>1 DEF Stack, n
<1>3. \A i \in 1 .. n : n + 1 - i \in 1 .. n
  BY <1>1
<1>4. Stack \in [1 .. n -> Paths]
  BY <1>1, <1>2, <1>3
<1>5. Stack \in Seq(Paths)
  BY <1>1, <1>4, SeqDef
<1> QED BY <1>1, <1>2, <1>5 DEF n

\* A load that does not return is, for the Overlay, the same search.
LEMMA SameSearch ==
  ASSUME NEW c \in Callers,
         load'[c] = load[c] \/ (~ Idle(c) /\ ~ Idle(c)' /\ load'[c].name = load[c].name)
  PROVE  Search(c)' = Search(c)
BY DEF Search, Idle

LEMMA OverlayInit == Init => System!Init
<1> SUFFICES ASSUME Init PROVE System!Init
  OBVIOUS
<1>1. directories \in Seq(Paths)
  BY EmptySeq DEF Init
<1>2. Stack \in Seq(Paths)
  BY <1>1, StackFacts
<1>3. [name \in Names |-> Holders(name)] \in [Names -> SUBSET Paths]
  BY DEF Holders
<1>4. [c \in Callers |-> Search(c)] = [c \in Callers |-> None]
  BY DEF Init, Search, Idle
<1>5. [c \in Callers |-> IF found[c] = None THEN None ELSE found[c].path]
        = [c \in Callers |-> None]
  BY DEF Init
<1> QED BY <1>2, <1>3, <1>4, <1>5 DEF Init, System!Init

\* Files that change and loads that go on are changes of what the layers hold.
LEMMA ChangeRefines ==
  ASSUME TypeOK, UNCHANGED <<directories, found>>,
         \A c \in Callers : Search(c)' = Search(c)
  PROVE  System!Change
<1>1. [name \in Names |-> Holders(name)]' \in [Names -> SUBSET Paths]
  BY DEF Holders
<1>2. UNCHANGED <<[c \in Callers |-> Search(c)], Stack,
                  [c \in Callers |-> IF found[c] = None THEN None ELSE found[c].path]>>
  BY DEF Stack
<1> QED BY <1>1, <1>2 DEF System!Change

LEMMA RegisterRefines ==
  ASSUME TypeOK, TypeOK', Register
  PROVE  System!Change \/ System!Restack
<1>1. NobodyLoads /\ UNCHANGED <<content, load, found>>
  BY DEF Register, register_directory, unregister_directory, register_loader
<1>2. \A c \in Callers : Search(c)' = Search(c)
  BY <1>1 DEF Search, Idle
<1>3. CASE UNCHANGED directories
  BY <1>1, <1>2, <1>3, ChangeRefines
<1>4. CASE UNCHANGED loaders
  <2>1. Stack' \in Seq(Paths)
    <3>1. (directories \in Seq(Paths))' => (Stack \in Seq(Paths))'
      BY StackFacts, PTL
    <3> QED BY <3>1 DEF TypeOK
  <2>2. \A c \in Callers : ~ System!Searching(c)
    BY <1>1, HoldingTracked DEF Tracking, NobodyLoads
  <2>3. UNCHANGED <<[name \in Names |-> Holders(name)], [c \in Callers |-> Search(c)],
                    [c \in Callers |-> IF found[c] = None THEN None ELSE found[c].path]>>
    BY <1>1, <1>2, <1>4 DEF Holders, Loadable
  <2> QED BY <2>1, <2>2, <2>3 DEF System!Restack
<1> QED BY <1>3, <1>4 DEF Register, register_directory, unregister_directory, register_loader

\* What the Overlay sees of the answers when one caller gets one.
LEMMA FoundPaths ==
  ASSUME TypeOK, NEW c \in Callers, NEW answer, found' = [found EXCEPT ![c] = answer]
  PROVE  [d \in Callers |-> IF found[d] = None THEN None ELSE found[d].path]'
           = [[d \in Callers |-> IF found[d] = None THEN None ELSE found[d].path]
                EXCEPT ![c] = Answer(answer)]
<1>1. found'[c] = answer /\ \A d \in Callers \ {c} : found'[d] = found[d]
  BY DEF TypeOK
<1>2. \A d \in Callers \ {c} : Answer(found'[d]) = Answer(found[d])
  BY <1>1
<1>3. [d \in Callers |-> Answer(found'[d])]
        = [[d \in Callers |-> Answer(found[d])] EXCEPT ![c] = Answer(answer)]
  <2>1. PICK old : old = [d \in Callers |-> Answer(found[d])]
    OBVIOUS
  <2>2. \A d \in Callers : Answer(found'[d]) = IF d = c THEN Answer(answer) ELSE old[d]
    BY <1>1, <1>2, <2>1
  <2>3. [d \in Callers |-> Answer(found'[d])] = [old EXCEPT ![c] = Answer(answer)]
    BY <2>1, <2>2
  <2> QED BY <2>1, <2>3
<1> QED BY <1>3 DEF Answer

LEMMA BeginRefines ==
  ASSUME TypeOK, TypeOK', NEW c \in Callers, NEW name \in Names, Begin(c, name)
  PROVE  System!Start(c)
<1>1. /\ Idle(c) /\ ~ Idle(c)' /\ UNCHANGED <<directories, loaders, content>>
      /\ found' = [found EXCEPT ![c] = None]
      /\ load'[c].name = name /\ \A d \in Callers \ {c} : load'[d] = load[d]
  BY BeginTypes DEF Begin, TypeOK
<1>2. ~ System!Searching(c)
  BY <1>1, HoldingTracked DEF Tracking
<1>3. Search(c)' \in [key : Names, among : SUBSET Paths, creates : BOOLEAN]
  BY <1>1 DEF Search
<1>4. ASSUME NEW d \in Callers \ {c} PROVE Search(d)' = Search(d)
  BY <1>1, SameSearch
<1>5. [d \in Callers |-> Search(d)]' = [[d \in Callers |-> Search(d)] EXCEPT ![c] = Search(c)']
  BY <1>4
<1>6. UNCHANGED <<Stack, [n \in Names |-> Holders(n)]>>
  BY <1>1 DEF Stack, Holders, Loadable
<1>7. [d \in Callers |-> IF found[d] = None THEN None ELSE found[d].path]'
        = [[d \in Callers |-> IF found[d] = None THEN None ELSE found[d].path]
             EXCEPT ![c] = None]
  BY <1>1, FoundPaths DEF Answer
<1> QED BY <1>2, <1>3, <1>5, <1>6, <1>7 DEF System!Start

LEMMA Answers ==
  ASSUME TypeOK, NEW c \in Callers, NEW answer, Return(c, answer)
  PROVE  System!Answer(c, Answer(answer))
<1>1. load' = [load EXCEPT ![c] = NoLoad] /\ found' = [found EXCEPT ![c] = answer]
  BY DEF Return
<1>2. Search(c)' = None /\ \A d \in Callers \ {c} : Search(d)' = Search(d)
  BY <1>1 DEF Search, Idle, TypeOK
<1>3. [d \in Callers |-> Search(d)]' = [[d \in Callers |-> Search(d)] EXCEPT ![c] = None]
  BY <1>2
<1> QED BY <1>1, <1>3, FoundPaths DEF System!Answer

LEMMA StepRefines ==
  ASSUME TypeOK, LoadSound, NEW c \in Callers, Step(c)
  PROVE  \/ System!Change \/ System!Miss(c)
         \/ \E i \in DOMAIN Stack : System!Hit(c, i)
<1>1. /\ ~ Idle(c) /\ Sound(c) /\ UNCHANGED <<directories, loaders, content>>
      /\ GoesOn(c) \/ GetsArchive(c) \/ GetsNothing(c)
  BY StepGoes DEF LoadSound
<1>2. /\ Stack \in Seq(Paths) /\ Len(directories) \in Nat
      /\ DOMAIN directories = 1 .. Len(directories) /\ DOMAIN Stack = 1 .. Len(directories)
      /\ \A i \in 1 .. Len(directories) : Stack[i] = directories[Len(directories) + 1 - i]
  BY StackFacts DEF TypeOK
<1>3. UNCHANGED <<Stack, [name \in Names |-> Holders(name)]>>
  BY <1>1 DEF Stack, Holders, Loadable
<1>4. System!Searching(c)
  BY <1>1, HoldingTracked DEF Tracking
<1>5. System!Considered(c) = DOMAIN Stack
  <2>1. [d \in Callers |-> Search(d)][c].among = Paths
    BY <1>1 DEF Search
  <2>2. \A i \in DOMAIN Stack : Stack[i] \in Paths
    BY <1>2, ElementOfSeq
  <2> QED BY <2>1, <2>2 DEF System!Considered
<1>6. CASE GoesOn(c) /\ ~ Idle(c)'
  <2>1. PICK r \in Loads : load' = [load EXCEPT ![c] = r] /\ UNCHANGED found /\ Goes(c, r)
    BY <1>6 DEF GoesOn
  <2>2. load'[c].name = load[c].name /\ \A d \in Callers \ {c} : load'[d] = load[d]
    BY <2>1 DEF TypeOK, Goes
  <2>3. ASSUME NEW d \in Callers PROVE Search(d)' = Search(d)
    <3>1. load'[d] = load[d] \/ (~ Idle(d) /\ ~ Idle(d)' /\ load'[d].name = load[d].name)
      BY <1>1, <1>6, <2>2
    <3> QED BY <3>1, SameSearch
  <2> QED BY <1>1, <2>1, <2>3, ChangeRefines
<1>7. CASE GoesOn(c) /\ Idle(c)'
  <2>1. FALSE
    BY <1>7, NoneAssumption DEF GoesOn, Idle, TypeOK
  <2> QED BY <2>1
<1>8. CASE GetsNothing(c)
  <2>1. load[c].left = 0 /\ Return(c, None)
    BY <1>8 DEF GetsNothing
  <2>2. System!Answer(c, None)
    BY <2>1, Answers DEF Answer
  <2>3. ASSUME NEW i \in DOMAIN Stack PROVE Stack[i] \notin steady[c]
    <3>1. Len(directories) + 1 - i \in DOMAIN directories /\ Len(directories) + 1 - i > 0
      BY <1>2
    <3> QED BY <1>1, <1>2, <2>1, <3>1 DEF Sound
  <2> QED BY <1>3, <1>4, <1>5, <2>2, <2>3 DEF System!Miss
<1>9. CASE GetsArchive(c)
  <2>0. PICK archive, path :
          /\ archive = [path |-> Directory(c), loader |-> NextLoader(c), file |-> load[c].file]
          /\ path = Directory(c)
    OBVIOUS
  <2>1. /\ Return(c, archive) /\ load[c].stage = "opened"
        /\ load[c].file \in Accepts[NextLoader(c)]
    BY <1>9, <2>0 DEF GetsArchive, At
  <2>2. /\ load[c].left \in DOMAIN directories /\ load[c].left \in Nat
        /\ load[c].tried + 1 \in DOMAIN loaders /\ Directory(c) \in Paths
    BY <1>1, <1>9, <2>1, LoadFacts DEF GetsArchive
  <2>3. load[c].file \in Loadable
    BY <2>1, <2>2, LoadableFacts DEF NextLoader
  <2>4. path \in held[c]
    BY <1>1, <2>0, <2>1, <2>3 DEF Sound
  <2>5. archive # None
    <3>1. NextLoader(c) \in Loaders
      BY <2>2, ElementOfSeq DEF TypeOK, NextLoader
    <3>2. load[c].file \in Formats
      BY <2>1, <3>1, LoaderAssumption
    <3>3. archive \in Archives
      BY <2>0, <2>2, <3>1, <3>2 DEF Archives
    <3> QED BY <3>3, NoneAssumption
  <2>6. archive.path = path
    BY <2>0
  <2>7. System!Answer(c, path)
    <3>1. Answer(archive) = path
      BY <2>5, <2>6 DEF Answer
    <3>2. System!Answer(c, Answer(archive))
      BY <2>1, Answers
    <3> QED BY <3>1, <3>2
  <2>8. PICK i \in DOMAIN Stack : i = Len(directories) + 1 - load[c].left
    BY <1>2, <2>2
  <2>9. Stack[i] = path
    <3>1. Len(directories) + 1 - i = load[c].left
      BY <1>2, <2>2, <2>8
    <3> QED BY <1>2, <2>0, <3>1 DEF Directory
  <2>10. ASSUME NEW j \in DOMAIN Stack, j < i PROVE Stack[j] \notin steady[c]
    <3>1. /\ Len(directories) + 1 - j \in DOMAIN directories
          /\ Len(directories) + 1 - j > load[c].left
      BY <1>2, <2>2, <2>8, <2>10
    <3> QED BY <1>1, <1>2, <3>1 DEF Sound
  <2>11. System!Hit(c, i)
    <3>1. System!Answer(c, Stack[i])
      BY <2>7, <2>9 DEF System!Answer
    <3> QED BY <1>3, <1>4, <1>5, <2>4, <2>9, <2>10, <3>1 DEF System!Hit
  <2> QED BY <2>11
<1> QED BY <1>1, <1>6, <1>7, <1>8, <1>9

LEMMA NextRefines == IInv /\ IInv' /\ [Next]_vars => [System!Next]_(System!vars)
<1> SUFFICES ASSUME IInv, IInv', [Next]_vars PROVE [System!Next]_(System!vars)
  OBVIOUS
<1>1. CASE UNCHANGED vars
  BY <1>1 DEF vars, System!vars, Stack, Holders, Loadable, Search, Idle
<1>2. CASE Next
  <2>1. TypeOK /\ TypeOK' /\ LoadSound /\ System!Track
    BY <1>2 DEF IInv, Next
  <2>2. CASE Register
    BY <2>1, <2>2, RegisterRefines DEF System!Next
  <2>3. ASSUME NEW place \in Plain, Change(place) PROVE System!Next
    <3>1. UNCHANGED <<directories, found>> /\ \A c \in Callers : Search(c)' = Search(c)
      BY <2>3 DEF Change, Search, Idle
    <3> QED BY <2>1, <3>1, ChangeRefines DEF System!Next
  <2>4. ASSUME NEW c \in Callers, NEW name \in Names, Begin(c, name) PROVE System!Next
    BY <2>1, <2>4, BeginRefines DEF System!Next
  <2>5. ASSUME NEW c \in Callers, Step(c) PROVE System!Next
    <3>1. CASE System!Change \/ System!Miss(c)
      BY <2>1, <3>1 DEF System!Next
    <3>2. CASE \E i \in DOMAIN Stack : System!Hit(c, i)
      BY <2>1, <3>2 DEF System!Next
    <3> QED BY <2>1, <2>5, <3>1, <3>2, StepRefines
  <2> QED BY <1>2, <2>2, <2>3, <2>4, <2>5 DEF Next
<1> QED BY <1>1, <1>2

-----------------------------------------------------------------------------
\* What a load has come to stays within bounds, for any directories, links and
\* loaders and any changes of the files.
THEOREM TypeCorrect == Spec => []TypeOK
<1>1. IInv => TypeOK
  BY DEF IInv
<1> QED BY Inductive, <1>1, PTL

\* However directories are registered and unregistered, none is there twice.
THEOREM RegisteredOnce == Spec => []OncePerPath
<1>1. IInv => OncePerPath
  BY DEF IInv
<1> QED BY Inductive, <1>1, PTL

\* Every archive was made by the first loader that takes the file.
THEOREM FirstLoaderMakesIt == Spec => []FirstLoaderWins
<1>1. IInv => FirstLoaderWins
  BY DEF IInv
<1> QED BY Inductive, <1>1, PTL

\* Every load, of any caller among any number, answers like a search of the
\* directories from the one registered last to the first, whatever happens to
\* the files while it looks, checks, opens and tries loaders.
THEOREM LoadImplementsOverlay == Spec => ImplementsOverlay
<1>1. Init => System!Init
  BY OverlayInit
<1> QED BY Inductive, <1>1, NextRefines, PTL DEF Spec, ImplementsOverlay, System!Spec

-----------------------------------------------------------------------------
(* What the Overlay promises, and that a load gets there                    *)

\* While a load goes on its caller is the only one to end it.
LEMMA OwnAnswer ==
  ASSUME NEW c \in Callers, System!Searching(c), ~ System!Searching(c)',
         NEW d \in Callers, NEW answer, System!Answer(d, answer)
  PROVE  d = c /\ [b \in Callers |-> IF found[b] = None THEN None ELSE found[b].path]'[c] = answer
<1>1. [b \in Callers |-> IF found[b] = None THEN None ELSE found[b].path]'[d] = answer
  BY DEF System!Answer
<1>2. d # c => [b \in Callers |-> Search(b)]'[c] = [b \in Callers |-> Search(b)][c]
  BY DEF System!Answer
<1> QED BY <1>1, <1>2 DEF System!Searching

LEMMA QuietStep ==
  ASSUME IInv, System!Next, NEW c \in Callers
  PROVE  System!QuietAnswer(c)
<1> DEFINE answers == [d \in Callers |-> IF found[d] = None THEN None ELSE found[d].path]
           key     == [d \in Callers |-> Search(d)][c].key
<1> SUFFICES ASSUME System!Searching(c), ~ System!Searching(c)', held[c] = steady[c]
             PROVE  IF answers'[c] = None
                    THEN \A i \in System!Considered(c) : Stack[i] \notin System!Holding(c)
                    ELSE \E i \in System!Considered(c) :
                           /\ answers'[c] = Stack[i]
                           /\ Stack[i] \in [name \in Names |-> Holders(name)]'[key]
                           /\ \A j \in System!Considered(c) :
                                j < i => Stack[j] \notin System!Holding(c)
  BY DEF System!QuietAnswer
<1>1. TypeOK /\ ~ Idle(c) /\ Sound(c)
  BY HoldingTracked DEF IInv, LoadSound, Tracking
<1>2. /\ System!Holding(c) = Holding(c) /\ Holding(c) = held[c] /\ Holding(c) = steady[c]
      /\ key = load[c].name /\ key \in Names /\ Holding(c) = Holders(key)
  BY <1>1, HoldingTracked, LoadFacts DEF Sound, Holding, Tracking, Search
<1>3. \A i \in System!Considered(c) : i \in DOMAIN Stack /\ Stack[i] \in Paths /\ Stack[i] # None
  BY <1>1, StackFacts, ElementOfSeq, NoneAssumption DEF System!Considered, TypeOK
<1>4. ASSUME System!Change \/ System!Restack \/ \E d \in Callers : System!Start(d) PROVE FALSE
  <2>1. [d \in Callers |-> Search(d)]'[c] = [d \in Callers |-> Search(d)][c]
    BY <1>4 DEF System!Change, System!Restack, System!Start
  <2> QED BY <2>1 DEF System!Searching
<1>5. ASSUME NEW d \in Callers, System!Miss(d)
      PROVE  answers'[c] = None /\ \A i \in System!Considered(c) : Stack[i] \notin System!Holding(c)
  <2>1. System!Answer(d, None) /\ \A i \in System!Considered(d) : Stack[i] \notin steady[d]
    BY <1>5 DEF System!Miss
  <2>2. d = c /\ answers'[c] = None
    BY <2>1, OwnAnswer
  <2> QED BY <1>2, <2>1, <2>2
<1>6. ASSUME NEW d \in Callers, NEW i \in DOMAIN Stack, System!Hit(d, i)
      PROVE  /\ i \in System!Considered(c) /\ answers'[c] = Stack[i]
             /\ Stack[i] \in [name \in Names |-> Holders(name)]'[key]
             /\ \A j \in System!Considered(c) : j < i => Stack[j] \notin System!Holding(c)
  <2>0. PICK top : top = Stack[i]
    OBVIOUS
  <2>1. /\ d = c /\ answers'[c] = Stack[i]
        /\ [name \in Names |-> Holders(name)]' = [name \in Names |-> Holders(name)]
    <3>1. System!Answer(d, top)
      BY <1>6, <2>0 DEF System!Hit, System!Answer
    <3>2. d = c /\ answers'[c] = top
      BY <3>1, OwnAnswer
    <3> QED BY <1>6, <2>0, <3>2 DEF System!Hit
  <2>2. Stack[i] \in [name \in Names |-> Holders(name)][key]
    BY <1>2, <1>6, <2>1 DEF System!Hit
  <2> QED BY <1>2, <1>6, <2>1, <2>2 DEF System!Hit
<1>7. ASSUME NEW d \in Callers, System!Create(d) PROVE FALSE
  <2>0. PICK top : top = Stack[1]
    OBVIOUS
  <2>1. System!Answer(d, top) /\ [b \in Callers |-> Search(b)][d].creates
    BY <1>7, <2>0 DEF System!Create, System!Answer
  <2>2. d = c
    BY <2>1, OwnAnswer
  <2> QED BY <1>1, <2>1, <2>2 DEF Search
<1> HIDE DEF answers, key
<1> QED BY <1>3, <1>4, <1>5, <1>6, <1>7 DEF System!Next

\* A load during which nothing it looks for comes or goes answers with the
\* directory registered last that has something to load under the name, and
\* with nullptr only when none has.
THEOREM QuietLoadsAreExact == Spec => System!QuietSearchesAreExact
<1>1. IInv /\ System!Next => \A c \in Callers : System!QuietAnswer(c)
  BY QuietStep
<1> QED BY <1>1, NextRefines, Inductive, PTL DEF Spec, System!QuietSearchesAreExact

\* How far a place is from the end of its chain of links.
Rank == CHOOSE rank \in [Places -> 0 .. Cardinality(Places)] :
          \A place \in DOMAIN Link : rank[Link[place]] < rank[place]

\* What a directory costs: a step to look at it, one for each link, one to
\* check the file, one to open it and one for each loader, and to go on.
PerDirectory == Cardinality(Places) + Len(loaders) + 4

\* How much of it is left of the current directory.
Ahead(c) ==
  CASE load[c].stage = "next"    -> PerDirectory
    [] load[c].stage = "resolve" -> Len(loaders) + 3 + Rank[load[c].at]
    [] load[c].stage = "open"    -> Len(loaders) + 2
    [] load[c].stage = "opened"  -> Len(loaders) + 1 - load[c].tried

Remaining(c) == (load[c].left - 1) * PerDirectory + Ahead(c)

LEMMA RankFacts ==
  ASSUME IsFiniteSet(Places)
  PROVE  /\ Cardinality(Places) \in Nat
         /\ Rank \in [Places -> 0 .. Cardinality(Places)]
         /\ \A place \in DOMAIN Link : Rank[Link[place]] < Rank[place]
<1>1. Cardinality(Places) \in Nat
  BY FS_CardinalityType
<1> QED BY <1>1, LinkAssumption DEF Rank

\* One step of a load leaves less to do.
LEMMA GoesAhead ==
  ASSUME TypeOK, IsFiniteSet(Places), NEW c \in Callers, ~ Idle(c),
         NEW r \in Loads, Goes(c, r), UNCHANGED loaders, load'[c] = r
  PROVE  Remaining(c)' < Remaining(c)
<1> DEFINE n == Len(loaders)
           m == Cardinality(Places)
           l == load[c].left
           p == PerDirectory
           w == (l - 1) * p
<1>1. /\ m \in Nat /\ n \in Nat /\ l \in Nat /\ p = m + n + 4 /\ p \in Nat
      /\ load[c].tried \in 0 .. n
      /\ load[c].stage \in {"next", "resolve", "open", "opened"}
      /\ load[c].stage = "resolve" => load[c].at \in Places
      /\ PerDirectory' = p
  BY LoadFacts, RankFacts DEF PerDirectory, Loads, TypeOK
<1>2. w \in Int /\ Remaining(c) = w + Ahead(c)
  <2>1. Remaining(c) = w + Ahead(c)
    BY DEF Remaining
  <2> HIDE DEF l, p
  <2> QED BY <1>1, <2>1
<1>3. /\ load[c].stage = "next"    => Ahead(c) = p
      /\ load[c].stage = "resolve" => Ahead(c) = n + 3 + Rank[load[c].at]
      /\ load[c].stage = "open"    => Ahead(c) = n + 2
      /\ load[c].stage = "opened"  => Ahead(c) = n + 1 - load[c].tried
  BY DEF Ahead
<1>4. /\ r.stage = "next"    => Ahead(c)' = p
      /\ r.stage = "resolve" => Ahead(c)' = n + 3 + Rank[r.at]
      /\ r.stage = "open"    => Ahead(c)' = n + 2
      /\ r.stage = "opened"  => Ahead(c)' = n + 1 - r.tried
  BY <1>1 DEF Ahead
<1>5. \A place \in Places : Rank[place] \in 0 .. m
  BY RankFacts
<1> HIDE DEF n, m, l, p
<1>6. CASE NothingThere(c)
  <2>1. Ahead(c) \in Int /\ Ahead(c) > 0
    <3>1. CASE load[c].stage = "resolve"
      BY <1>1, <1>3, <1>5, <3>1
    <3>2. CASE load[c].stage = "open" \/ load[c].stage = "opened"
      BY <1>1, <1>3, <3>2
    <3> QED BY <1>6, <3>1, <3>2 DEF NothingThere, At
  <2>2. Remaining(c)' = ((l - 1) - 1) * p + p
    <3>1. r.left = l - 1 /\ r.stage = "next"
      BY <1>6 DEF Goes, l
    <3> QED BY <1>1, <1>4, <3>1 DEF Remaining
  <2>3. ((l - 1) - 1) * p + p = w
    BY <1>1
  <2> HIDE DEF w
  <2> QED BY <1>2, <2>1, <2>2, <2>3
<1>7. CASE ~ NothingThere(c)
  <2>1. Remaining(c)' = w + Ahead(c)'
    <3>1. r.left = l
      BY <1>7 DEF Goes, l
    <3> QED BY <1>1, <3>1 DEF Remaining
  <2>2. Ahead(c) \in Int /\ Ahead(c)' \in Int /\ Ahead(c)' < Ahead(c)
    <3>1. CASE At(c, "next") /\ r.stage = "resolve" /\ r.at \in Places
      BY <1>1, <1>3, <1>4, <1>5, <3>1 DEF At
    <3>2. CASE /\ At(c, "resolve") /\ load[c].at \in DOMAIN Link
               /\ r.stage = "resolve" /\ r.at = Link[load[c].at]
      <4>1. /\ r.at \in Places /\ load[c].at \in Places
            /\ Rank[r.at] < Rank[load[c].at]
        BY <1>1, <3>2, LinkTarget, RankFacts DEF At
      <4> QED BY <1>1, <1>3, <1>4, <1>5, <3>2, <4>1 DEF At
    <3>3. CASE At(c, "resolve") /\ r.stage = "open"
      BY <1>1, <1>3, <1>4, <1>5, <3>3 DEF At
    <3>4. CASE At(c, "open") /\ r.stage = "opened" /\ r.tried = 0
      BY <1>1, <1>3, <1>4, <3>4 DEF At
    <3>5. CASE /\ At(c, "opened") /\ load[c].tried < n
               /\ r.stage = "opened" /\ r.tried = load[c].tried + 1
      BY <1>1, <1>3, <1>4, <3>5 DEF At
    <3>6. load[c].left > 0 => Start(c) \in Places
      BY LoadFacts
    <3> QED BY <1>7, <3>1, <3>2, <3>3, <3>4, <3>5, <3>6 DEF Goes, n
  <2> HIDE DEF w
  <2> QED BY <1>2, <2>1, <2>2
<1> QED BY <1>6, <1>7

\* Every step of a load that does not end it brings it closer to its end, and
\* nothing that others do, to files or in loads of their own, throws it back:
\* for each directory it takes at most as many steps as there are places and
\* loaders, and four.
THEOREM LoadsDrawToAnEnd ==
  ASSUME IsFiniteSet(Places)
  PROVE  Spec => /\ [](\A c \in Callers :
                         ~ Idle(c) => Remaining(c) \in 0 .. Len(directories) * PerDirectory)
                 /\ [][\A c \in Callers : ~ Idle(c) /\ ~ Idle(c)' =>
                         IF load'[c] = load[c] THEN Remaining(c)' = Remaining(c)
                         ELSE Remaining(c)' < Remaining(c)]_vars
<1>1. ASSUME IInv, NEW c \in Callers, ~ Idle(c)
      PROVE  Remaining(c) \in 0 .. Len(directories) * PerDirectory
  <2> DEFINE p == PerDirectory
             l == load[c].left
             d == Len(directories)
  <2>1. /\ Cardinality(Places) \in Nat /\ Len(loaders) \in Nat
        /\ p = Cardinality(Places) + Len(loaders) + 4 /\ p \in Nat
        /\ d \in Nat /\ l \in 0 .. d /\ load[c].tried \in 0 .. Len(loaders)
        /\ load[c].stage \in {"next", "resolve", "open", "opened"}
        /\ load[c].stage # "next" => l > 0
        /\ load[c].stage = "resolve" => Rank[load[c].at] \in 0 .. Cardinality(Places)
    BY <1>1, LoadFacts, RankFacts DEF IInv, TypeOK, PerDirectory, Loads
  <2>2. /\ Ahead(c) \in 0 .. p
        /\ l = 0 => Ahead(c) = p
    <3>1. /\ load[c].stage = "next"    => Ahead(c) = p
          /\ load[c].stage = "resolve" => Ahead(c) = Len(loaders) + 3 + Rank[load[c].at]
          /\ load[c].stage = "open"    => Ahead(c) = Len(loaders) + 2
          /\ load[c].stage = "opened"  => Ahead(c) = Len(loaders) + 1 - load[c].tried
      BY DEF Ahead
    <3> HIDE DEF p, l
    <3>2. CASE load[c].stage = "next"
      BY <2>1, <3>1, <3>2
    <3>3. CASE load[c].stage = "resolve"
      BY <2>1, <3>1, <3>3
    <3>4. CASE load[c].stage = "open"
      BY <2>1, <3>1, <3>4
    <3>5. CASE load[c].stage = "opened"
      BY <2>1, <3>1, <3>5, SMTT(30)
    <3>6. load[c].stage \in {"next", "resolve", "open", "opened"}
      BY <2>1
    <3> QED BY <3>2, <3>3, <3>4, <3>5, <3>6
  <2>3. Remaining(c) = (l - 1) * p + Ahead(c)
    BY DEF Remaining
  <2> HIDE DEF p, l, d
  <2>4. CASE l = 0
    <3>1. Remaining(c) = 0
      BY <2>1, <2>2, <2>3, <2>4
    <3>2. d * p \in Nat
      BY <2>1
    <3> QED BY <3>1, <3>2 DEF d, p
  <2>5. CASE l > 0
    <3>1. PICK k \in Nat, e \in Nat : l = k + 1 /\ d = l + e
      <4>1. l - 1 \in Nat /\ d - l \in Nat /\ l = (l - 1) + 1 /\ d = l + (d - l)
        BY <2>1, <2>5
      <4> QED BY <4>1
    <3>2. k * p \in Nat /\ e * p \in Nat /\ d * p = k * p + p + e * p
      <4>1. d = k + 1 + e /\ p \in Nat
        BY <2>1, <3>1
      <4>2. (k + 1 + e) * p = k * p + p + e * p /\ k * p \in Nat /\ e * p \in Nat
        BY <4>1
      <4> QED BY <4>1, <4>2
    <3>3. Remaining(c) = k * p + Ahead(c)
      BY <2>3, <3>1
    <3>4. Remaining(c) \in 0 .. d * p
      <4>1. PICK x \in Nat, y \in Nat : x = k * p /\ y = e * p
        BY <3>2
      <4>2. Remaining(c) = x + Ahead(c) /\ d * p = x + p + y
        BY <3>2, <3>3, <4>1
      <4>3. x + Ahead(c) \in 0 .. x + p + y
        BY <2>1, <2>2
      <4> QED BY <4>2, <4>3, Zenon
    <3> QED BY <3>4 DEF d, p
  <2> QED BY <2>1, <2>4, <2>5
<1>2. ASSUME IInv, [Next]_vars, NEW c \in Callers, ~ Idle(c), ~ Idle(c)'
      PROVE  IF load'[c] = load[c] THEN Remaining(c)' = Remaining(c)
             ELSE Remaining(c)' < Remaining(c)
  <2>1. ASSUME load'[c] = load[c], UNCHANGED loaders PROVE Remaining(c)' = Remaining(c)
    BY <2>1 DEF Remaining, Ahead, PerDirectory
  <2>2. ASSUME NEW d \in Callers, Step(d), d # c PROVE load'[c] = load[c] /\ UNCHANGED loaders
    <3>1. /\ UNCHANGED loaders
          /\ GoesOn(d) \/ GetsArchive(d) \/ GetsNothing(d)
      BY <1>2, <2>2, StepGoes DEF IInv
    <3>2. \E r : load' = [load EXCEPT ![d] = r]
      BY <3>1 DEF GoesOn, GetsArchive, GetsNothing, Return
    <3> QED BY <2>2, <3>1, <3>2 DEF IInv, TypeOK
  <2>3. ASSUME Step(c) PROVE Remaining(c)' < Remaining(c) /\ load'[c] # load[c]
    <3>1. UNCHANGED loaders /\ (GoesOn(c) \/ load' = [load EXCEPT ![c] = NoLoad])
      BY <1>2, <2>3, StepGoes DEF IInv, GetsArchive, GetsNothing, Return
    <3>2. GoesOn(c)
      BY <1>2, <3>1 DEF IInv, TypeOK, Idle
    <3>3. PICK r \in Loads : load'[c] = r /\ Goes(c, r)
      BY <1>2, <3>2 DEF GoesOn, IInv, TypeOK
    <3>4. Remaining(c)' < Remaining(c)
      BY <1>2, <3>1, <3>3, GoesAhead DEF IInv
    <3>5. Remaining(c) \in Int
      BY <1>1, <1>2, LenProperties
    <3>6. load'[c] = load[c] => Remaining(c)' = Remaining(c)
      BY <2>1, <3>1
    <3> QED BY <3>4, <3>5, <3>6
  <2>4. CASE UNCHANGED vars \/ \E place \in Plain : Change(place)
    BY <2>1, <2>4 DEF vars, Change
  <2>5. Register => FALSE
    BY <1>2
    DEF Register, register_directory, unregister_directory, register_loader, NobodyLoads
  <2>6. ASSUME NEW d \in Callers, NEW name \in Names, Begin(d, name)
        PROVE  load'[c] = load[c] /\ UNCHANGED loaders
    BY <1>2, <2>6 DEF Begin, IInv, TypeOK
  <2> QED BY <1>2, <2>1, <2>2, <2>3, <2>4, <2>5, <2>6 DEF Next
<1>3. IInv => \A c \in Callers : ~ Idle(c) => Remaining(c) \in 0 .. Len(directories) * PerDirectory
  BY <1>1
<1>4. IInv /\ [Next]_vars =>
        [\A c \in Callers : ~ Idle(c) /\ ~ Idle(c)' =>
           IF load'[c] = load[c] THEN Remaining(c)' = Remaining(c)
           ELSE Remaining(c)' < Remaining(c)]_vars
  BY <1>2
<1> QED BY <1>3, <1>4, Inductive, PTL DEF Spec
=============================================================================
