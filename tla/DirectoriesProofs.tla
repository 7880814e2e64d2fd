-------------------------- MODULE DirectoriesProofs ---------------------------
(***************************************************************************)
(* Making directories, for any tree, any links that lie in its root, any   *)
(* number of callers, and other programs that make and remove what they    *)
(* like.                                                                   *)
(*                                                                         *)
(* A test of a directory says nothing any more once somebody may have      *)
(* removed it.  The invariant says what a call may still rely on when      *)
(* nobody removes directories on its way.                                  *)
(***************************************************************************)
EXTENDS Directories, TLAPS

CallSound(c) ==
  /\ call[c].dir \in DOMAIN Link => call[c].operation = "child_directory"
  /\ call[c].operation = "StorageServer::create existing" => call[c].stage = "test"
  /\ call[c].stage = "mkdir" => call[c].next \in Way[call[c].dir]
  /\ Kept(call[c].dir) =>
       /\ call[c].there \/ call[c].operation = "userland" \/ call[c].stage = "open" =>
            Status(call[c].dir) = "dir"
       /\ call[c].operation = "userland" => call[c].stage = "test"
       /\ call[c].stage \in {"scan", "mkdir"} =>
            ~ call[c].there \/ call[c].operation = "StorageServer::create"
       /\ call[c].stage = "mkdir" =>
            call[c].dir \in DOMAIN Link \/ Status(Parent[call[c].next]) = "dir"

CallsSound == \A c \in Callers : ~ Idle(c) => CallSound(c)

IInv == TypeOK /\ CallsSound

Places == Paths \cup {Root}

-----------------------------------------------------------------------------
(* Ways                                                                     *)

LEMMA TreeFacts ==
  /\ \A p \in Paths : p # Root /\ Parent[p] \in Places /\ Parent[p] \notin DOMAIN Link
  /\ DOMAIN Link \subseteq Paths /\ Root \notin DOMAIN Link
  /\ \A p \in Places : /\ Resolve(p) \in Places /\ Resolve(p) \notin DOMAIN Link
                       /\ Resolve(Resolve(p)) = Resolve(p)
                       /\ p \in Paths => Resolve(p) \in Paths
                       /\ p \notin DOMAIN Link => Resolve(p) = p
BY TreeAssumption, LinkAssumption DEF Resolve, Places

LEMMA WayFacts ==
  ASSUME NEW p \in Places
  PROVE  /\ Way[p] \subseteq Paths
         /\ p \in Paths => p \in Way[p]
         /\ \A q \in Way[p] : Parent[q] \in Way[p] \cup {Root}
         /\ \A q \in Way[p] \ {p} : \E r \in Way[p] : Parent[r] = q
         /\ \A q \in Way[p] : q \in DOMAIN Link => q = p
<1> DEFINE Leads(S) == p \in S \cup {Root} /\ \A r \in S : Parent[r] \in S \cup {Root}
<1>1. Way[p] = {q \in Paths : \A S \in SUBSET Paths : Leads(S) => q \in S}
  BY DEF Way, Places
<1> HIDE DEF Leads
<1>2. p \in Paths => p \in Way[p]
  BY <1>1, TreeFacts DEF Leads
<1>3. ASSUME NEW q \in Way[p], Parent[q] # Root PROVE Parent[q] \in Way[p]
  <2>1. q \in Paths /\ Parent[q] \in Paths
    BY <1>1, <1>3, TreeFacts DEF Places
  <2>2. ASSUME NEW S \in SUBSET Paths, Leads(S) PROVE Parent[q] \in S
    BY <1>1, <1>3, <2>2 DEF Leads
  <2> QED BY <1>1, <2>1, <2>2
<1>4. ASSUME NEW q \in Way[p] \ {p}, \A r \in Way[p] : Parent[r] # q PROVE FALSE
  <2>1. Way[p] \ {q} \in SUBSET Paths /\ Leads(Way[p] \ {q})
    <3>1. p \in (Way[p] \ {q}) \cup {Root}
      BY <1>2, <1>4 DEF Places
    <3>2. \A r \in Way[p] \ {q} : Parent[r] \in (Way[p] \ {q}) \cup {Root}
      BY <1>3, <1>4
    <3> QED BY <1>1, <3>1, <3>2 DEF Leads
  <2> QED BY <1>1, <1>4, <2>1
<1>5. Way[p] \subseteq Paths
  BY <1>1
<1>6. \A q \in Way[p] : q \in DOMAIN Link => q = p
  BY <1>4, <1>5, TreeFacts
<1> QED BY <1>2, <1>3, <1>4, <1>5, <1>6

\* What lies on a way that is kept is not removed.
LEMMA KeptFacts ==
  ASSUME NEW p \in Places
  PROVE  /\ Kept(Resolve(p)) = Kept(p)
         /\ Kept(p) => Resolve(p) \notin Removable
         /\ Kept(p) /\ p \notin DOMAIN Link => Way[p] \cap Removable = {}
<1>1. Root \notin Removable
  BY TreeAssumption
<1>2. Resolve(p) \in Way[Resolve(p)] \/ Resolve(p) = Root
  BY TreeFacts, WayFacts DEF Places
<1> QED BY <1>1, <1>2, TreeFacts DEF Kept

\* The highest missing component, and the one below another.
LEMMA MissingFacts ==
  ASSUME TypeOK, NEW p \in Paths, Status(p) = "none"
  PROVE  /\ FirstMissing(p) \in Way[p] /\ Status(FirstMissing(p)) = "none"
         /\ Status(Parent[FirstMissing(p)]) # "none"
<1> DEFINE S == {q \in Way[p] : Status(q) = "none"}
<1>1. S \in SUBSET Paths /\ p \in S
  BY WayFacts DEF Places
<1>2. PICK q \in S : Parent[q] \notin S
  BY <1>1, TreeAssumption
<1>3. Parent[q] \in Way[p] \cup {Root} /\ Status(Root) = "dir"
  BY WayFacts DEF Places, Status
<1>4. q \in Way[p] /\ Status(q) = "none" /\ Status(Parent[q]) # "none"
  BY <1>2, <1>3
<1> QED BY <1>4 DEF FirstMissing

LEMMA BelowFacts ==
  ASSUME NEW p \in Places, NEW q \in Way[p], q # p
  PROVE  Below(p, q) \in Way[p] /\ Parent[Below(p, q)] = q
BY WayFacts DEF Below

-----------------------------------------------------------------------------
(* What becomes of the tree                                                 *)

\* Directories that nobody removes stay.
Stays ==
  /\ \A p \in Paths \ Removable : node[p] = "dir" => node'[p] = "dir"
  /\ \A p \in Places : Resolve(p) \notin Removable /\ Status(p) = "dir" => Status(p)' = "dir"

LEMMA StatusFacts ==
  ASSUME TypeOK
  PROVE  /\ \A p \in Places : Status(p) \in {"none", "dir", "file"}
         /\ \A p \in Paths \ DOMAIN Link : Status(p) = node[p]
         /\ \A p \in Places : Status(Resolve(p)) = Status(p)
         /\ Status(Root) = "dir"
BY TreeFacts DEF TypeOK, Status, Places

LEMMA NothingRemoved ==
  ASSUME \A p \in Paths \ Removable : node[p] = "dir" => node'[p] = "dir"
  PROVE  Stays
<1> SUFFICES ASSUME NEW p \in Places, Resolve(p) \notin Removable, Status(p) = "dir"
             PROVE  Status(p)' = "dir"
  BY DEF Stays
<1> QED BY TreeFacts DEF Status, Places

\* Something is made where there was nothing, in a directory.
LEMMA TreeGrows ==
  ASSUME TypeOK, NEW p \in Paths \ DOMAIN Link, node[p] = "none", Status(Parent[p]) = "dir",
         NEW kind \in {"dir", "file"}, node' = [node EXCEPT ![p] = kind]
  PROVE  /\ node' \in [Paths -> {"none", "dir", "file"}]
         /\ \A q \in Paths : node'[q] # "none" => Status(Parent[q])' = "dir" /\ q \notin DOMAIN Link
         /\ Stays
         /\ kind = "dir" => Status(p)' = "dir"
<1>1. /\ node' \in [Paths -> {"none", "dir", "file"}] /\ node'[p] = kind
      /\ \A q \in Paths \ {p} : node'[q] = node[q]
  BY DEF TypeOK
<1>2. \A q \in Places : Status(q) = "dir" => Status(q)' = "dir"
  BY <1>1, TreeFacts DEF Status, Places
<1>3. Stays
  BY <1>1, NothingRemoved
<1>4. \A q \in Paths : node'[q] # "none" => Status(Parent[q])' = "dir" /\ q \notin DOMAIN Link
  BY <1>1, <1>2, TreeFacts DEF TypeOK
<1>5. kind = "dir" => Status(p)' = "dir"
  BY <1>1, TreeFacts DEF Status, Places
<1> QED BY <1>1, <1>3, <1>4, <1>5

LEMMA TreeKept ==
  ASSUME TypeOK, UNCHANGED node
  PROVE  /\ node' \in [Paths -> {"none", "dir", "file"}]
         /\ \A q \in Paths : node'[q] # "none" => Status(Parent[q])' = "dir" /\ q \notin DOMAIN Link
         /\ Stays
<1>1. \A q \in Places : Status(q)' = Status(q)
  BY DEF Status
<1> QED BY <1>1, NothingRemoved, TreeFacts DEF TypeOK

\* The tree stays a tree, and what nobody removes stays.
LEMMA TreeStep ==
  ASSUME TypeOK, Next
  PROVE  /\ node' \in [Paths -> {"none", "dir", "file"}]
         /\ \A q \in Paths : node'[q] # "none" => Status(Parent[q])' = "dir" /\ q \notin DOMAIN Link
         /\ Stays
<1>1. ASSUME NEW p \in Paths, Make(p)
      PROVE  \E kind \in {"dir", "file"} :
               /\ node' = [node EXCEPT ![p] = kind] /\ p \notin DOMAIN Link
               /\ node[p] = "none" /\ Status(Parent[p]) = "dir"
  BY <1>1 DEF Make
<1>2. CASE \E p \in Paths : Make(p)
  BY <1>1, <1>2, TreeGrows
<1>3. ASSUME NEW p \in Paths, Remove(p)
      PROVE  /\ node' \in [Paths -> {"none", "dir", "file"}]
             /\ \A q \in Paths :
                  node'[q] # "none" => Status(Parent[q])' = "dir" /\ q \notin DOMAIN Link
             /\ Stays
  <2>1. /\ node' \in [Paths -> {"none", "dir", "file"}] /\ node'[p] = "none"
        /\ \A q \in Paths \ {p} : node'[q] = node[q]
    BY <1>3 DEF TypeOK, Remove
  <2>2. \A q \in Paths : Parent[q] = p => node'[q] = "none"
    BY <1>3, <2>1 DEF Remove
  <2>3. ASSUME NEW q \in Paths, node'[q] # "none"
        PROVE  Status(Parent[q])' = "dir" /\ q \notin DOMAIN Link
    <3>1. q # p /\ Parent[q] # p /\ node[q] # "none"
      BY <2>1, <2>2, <2>3
    <3>2. Status(Parent[q]) = "dir" /\ Resolve(Parent[q]) = Parent[q] /\ q \notin DOMAIN Link
      BY <3>1, TreeFacts DEF TypeOK
    <3> QED BY <2>1, <3>1, <3>2, TreeFacts DEF Status, Places
  <2>4. Stays
    BY <1>3, <2>1, NothingRemoved DEF Remove
  <2> QED BY <2>1, <2>3, <2>4
<1>4. ASSUME NEW c \in Callers, Mkdir(c)
      PROVE  \/ UNCHANGED node
             \/ \E p \in Paths \ DOMAIN Link :
                  /\ node[p] = "none" /\ Status(Parent[p]) = "dir"
                  /\ node' = [node EXCEPT ![p] = "dir"]
  <2>1. call[c].next \in Paths
    BY <1>4 DEF TypeOK, Mkdir, At, Idle, Calls
  <2> QED BY <1>4, <2>1 DEF Mkdir
<1>5. ASSUME NEW c \in Callers, Open(c)
      PROVE  \/ UNCHANGED node
             \/ \E p \in Paths :
                  /\ node[p] = "none" /\ Status(Parent[p]) = "dir" /\ p \notin DOMAIN Link
                  /\ node' = [node EXCEPT ![p] = "file"]
  <2>1. call[c].file \in Paths \ DOMAIN Link
    BY <1>5, LinkAssumption DEF TypeOK, Open, At, Idle, Calls
  <2> QED BY <1>5, <2>1 DEF Open
<1>6. ASSUME NEW c \in Callers, Invoke(c) \/ Step(c)
      PROVE  UNCHANGED node \/ Mkdir(c) \/ Open(c)
  BY <1>6 DEF Invoke, Begin, Step, Answered, IsDirectory, Scan, Refuse
<1> QED BY <1>2, <1>3, <1>4, <1>5, <1>6, TreeGrows, TreeKept DEF Next

-----------------------------------------------------------------------------
(* What becomes of a call                                                   *)

LEMMA CallFacts ==
  ASSUME TypeOK, NEW c \in Callers, ~ Idle(c)
  PROVE  /\ call[c] \in Calls /\ call[c].dir \in Places /\ call[c].file \in Paths
         /\ call[c].next \in Paths
         /\ call[c].operation # "File::create" => call[c].dir \in Paths
         /\ call[c].operation = "File::create" =>
              call[c].dir = Parent[call[c].file] /\ call[c].file \in FilePaths
         /\ call[c].stage = "open" => call[c].operation = "File::create"
BY DEF TypeOK, Idle, Calls, Places

\* A call for dir goes on as r.
Goes(c, dir, r) ==
  /\ r.file = call[c].file /\ r.there = call[c].there
  /\ \/ /\ call[c].operation \in {"child_directory"} \cup Servers /\ Status(dir)' = "dir"
        /\ r.operation \in {"Directory::create", "userland"}
        /\ r.dir = Resolve(dir) /\ r.stage = "test"
     \/ /\ r.operation = call[c].operation /\ r.dir = dir
        /\ \/ /\ call[c].stage # "open" /\ r.stage = "open"
              /\ r.operation = "File::create" /\ Status(dir)' = "dir"
           \/ /\ call[c].stage = "test" /\ r.stage = "scan"
              /\ r.operation \notin Servers /\ Status(dir) # "dir" /\ node' = node
           \/ /\ call[c].stage \in {"scan", "mkdir"} /\ r.stage = "test"
              /\ r.operation = "StorageServer::create"
           \/ /\ call[c].stage \in {"scan", "mkdir"} /\ r.stage = "mkdir"
              /\ r.next \in Way[dir] /\ Status(Parent[r.next])' = "dir"
              /\ call[c].stage = "mkdir" => Parent[r.next] = call[c].next

\* Why it answers what it answers.
Null(c, dir) ==
  \/ call[c].operation \in Servers
  \/ call[c].stage = "open" /\ refused'[c]
  \/ /\ call[c].stage = "open" /\ node[call[c].file] # "file"
     /\ node[call[c].file] = "none" => Status(dir) # "dir"
  \/ call[c].stage \in {"scan", "mkdir"} /\ node' = node /\ Status(dir) = "dir"

Throws(c, dir) ==
  \/ refused'[c]
  \/ \E p \in Way[dir] : Status(p) = "file"
  \/ call[c].stage = "mkdir" /\ call[c].next \in DOMAIN Link
  \/ call[c].stage = "mkdir" /\ Status(Parent[call[c].next]) # "dir"

Answers(c, dir, outcome) ==
  /\ outcome \in {"ok", "null", "throws", "bare"}
  /\ outcome = "null" => Null(c, dir)
  /\ outcome = "throws" => Throws(c, dir)
  /\ outcome = "bare" => call[c].operation = "userland" /\ call[c].stage \in {"scan", "mkdir"}

GoesOn(c, dir) ==
  \E r \in Calls : call' = [call EXCEPT ![c] = r] /\ UNCHANGED reply /\ Goes(c, dir, r)

Ends(c, dir) == \E outcome : Return(c, outcome) /\ Answers(c, dir, outcome)

\* Calls of which two or three fields are replaced.
LEMMA StageAndNext ==
  ASSUME NEW l \in Calls, NEW x, NEW y
  PROVE  [l EXCEPT !.stage = x, !.next = y]
           = [operation |-> l.operation, dir |-> l.dir, file |-> l.file, stage |-> x,
              next |-> y, there |-> l.there]
<1> DEFINE m == [operation |-> l.operation, dir |-> l.dir, file |-> l.file, stage |-> x,
                 next |-> l.next, there |-> l.there]
<1>1. [l EXCEPT !.stage = x] = m
  BY DEF Calls
<1>2. [l EXCEPT !.stage = x, !.next = y] = [[l EXCEPT !.stage = x] EXCEPT !.next = y]
  BY DEF Calls
<1>3. [m EXCEPT !.next = y]
        = [operation |-> l.operation, dir |-> l.dir, file |-> l.file, stage |-> x,
           next |-> y, there |-> l.there]
  OBVIOUS
<1> QED BY <1>1, <1>2, <1>3

LEMMA OperationDirAndStage ==
  ASSUME NEW l \in Calls, NEW x, NEW y
  PROVE  [l EXCEPT !.operation = x, !.dir = y, !.stage = "test"]
           = [operation |-> x, dir |-> y, file |-> l.file, stage |-> "test",
              next |-> l.next, there |-> l.there]
<1> DEFINE m == [operation |-> x, dir |-> l.dir, file |-> l.file, stage |-> l.stage,
                 next |-> l.next, there |-> l.there]
           n == [operation |-> x, dir |-> y, file |-> l.file, stage |-> l.stage,
                 next |-> l.next, there |-> l.there]
<1>1. [l EXCEPT !.operation = x] = m
  BY DEF Calls
<1>2. [m EXCEPT !.dir = y] = n
  OBVIOUS
<1>3. [n EXCEPT !.stage = "test"]
        = [operation |-> x, dir |-> y, file |-> l.file, stage |-> "test",
           next |-> l.next, there |-> l.there]
  OBVIOUS
<1>4. [l EXCEPT !.operation = x, !.dir = y, !.stage = "test"]
        = [[[l EXCEPT !.operation = x] EXCEPT !.dir = y] EXCEPT !.stage = "test"]
  BY DEF Calls
<1> HIDE DEF m, n
<1> QED BY <1>1, <1>2, <1>3, <1>4

LEMMA StageOnly ==
  ASSUME TypeOK, NEW c \in Callers, ~ Idle(c), NEW stage \in {"test", "scan", "open"},
         GoTo(c, stage)
  PROVE  \E r \in Calls :
           /\ call' = [call EXCEPT ![c] = r] /\ UNCHANGED reply
           /\ r.operation = call[c].operation /\ r.dir = call[c].dir /\ r.stage = stage
           /\ r.file = call[c].file /\ r.there = call[c].there
<1>1. PICK l \in Calls : l = call[c]
  BY CallFacts
<1>2. PICK r : r = [l EXCEPT !.stage = stage]
  OBVIOUS
<1>3. r \in Calls /\ r.operation = l.operation /\ r.dir = l.dir /\ r.stage = stage
      /\ r.file = l.file /\ r.there = l.there
  BY <1>2 DEF Calls
<1>4. call' = [call EXCEPT ![c] = r] /\ UNCHANGED reply
  BY <1>1, <1>2 DEF GoTo
<1> QED BY <1>1, <1>3, <1>4

LEMMA CallCreateGoes ==
  ASSUME TypeOK, NEW c \in Callers, ~ Idle(c), NEW dir \in Places, call[c].dir = dir,
         NEW operation \in {"Directory::create", "userland"}, CallCreate(c, operation),
         call[c].operation \in {"child_directory"} \cup Servers, Status(dir)' = "dir"
  PROVE  GoesOn(c, dir)
<1>1. PICK l \in Calls : l = call[c]
  BY CallFacts
<1>2. PICK to : to = Resolve(dir)
  OBVIOUS
<1>3. to \in Paths
  BY <1>2, CallFacts, TreeFacts DEF Servers
<1>4. PICK r : r = [l EXCEPT !.operation = operation, !.dir = to, !.stage = "test"]
  OBVIOUS
<1>5. r = [operation |-> operation, dir |-> to, file |-> l.file, stage |-> "test",
           next |-> l.next, there |-> l.there]
  BY <1>4, OperationDirAndStage
<1>6. r \in Calls
  BY <1>3, <1>5 DEF Calls
<1>7. call' = [call EXCEPT ![c] = r] /\ UNCHANGED reply
  BY <1>1, <1>2, <1>4 DEF CallCreate
<1>8. Goes(c, dir, r)
  BY <1>1, <1>2, <1>5 DEF Goes
<1> QED BY <1>6, <1>7, <1>8 DEF GoesOn

LEMMA SucceedDoes ==
  ASSUME TypeOK, NEW c \in Callers, ~ Idle(c), NEW dir \in Places, call[c].dir = dir,
         Succeed(c), Status(dir)' = "dir", call[c].stage # "open"
  PROVE  GoesOn(c, dir) \/ Ends(c, dir)
<1>1. call[c].operation \in Creators \cup {"userland"}
  BY CallFacts, TreeAssumption DEF Calls, Creators
<1>2. CASE call[c].operation \in {"Directory::create", "userland"}
  BY <1>2 DEF Succeed, Ends, Answers
<1>3. CASE call[c].operation = "child_directory"
  BY <1>3, CallCreateGoes DEF Succeed
<1>4. CASE call[c].operation = "File::create"
  <2>1. GoTo(c, "open")
    BY <1>4 DEF Succeed
  <2>2. PICK r \in Calls :
           /\ call' = [call EXCEPT ![c] = r] /\ UNCHANGED reply
           /\ r.operation = call[c].operation /\ r.dir = call[c].dir /\ r.stage = "open"
           /\ r.file = call[c].file /\ r.there = call[c].there
    BY <2>1, StageOnly
  <2> QED BY <1>4, <2>2 DEF GoesOn, Goes
<1>5. CASE call[c].operation \in Servers
  BY <1>5, CallCreateGoes DEF Succeed, Servers
<1> QED BY <1>1, <1>2, <1>3, <1>4, <1>5 DEF Creators

LEMMA MadeDoes ==
  ASSUME TypeOK, NEW c \in Callers, ~ Idle(c), NEW dir \in Places, call[c].dir = dir,
         call[c].stage \in {"scan", "mkdir"}, NEW created \in BOOLEAN, Made(c, created),
         created => Status(dir)' = "dir",
         ~ created => node' = node /\ Status(dir) = "dir"
  PROVE  GoesOn(c, dir) \/ Ends(c, dir)
<1>1. CASE call[c].operation = "StorageServer::create"
  <2>1. GoTo(c, "test")
    BY <1>1 DEF Made
  <2>2. PICK r \in Calls :
           /\ call' = [call EXCEPT ![c] = r] /\ UNCHANGED reply
           /\ r.operation = call[c].operation /\ r.dir = call[c].dir /\ r.stage = "test"
           /\ r.file = call[c].file /\ r.there = call[c].there
    BY <2>1, StageOnly
  <2> QED BY <1>1, <2>2 DEF GoesOn, Goes
<1>2. CASE call[c].operation # "StorageServer::create" /\ created
  BY <1>2, SucceedDoes DEF Made
<1>3. CASE call[c].operation # "StorageServer::create" /\ ~ created
  <2>1. CASE call[c].operation = "userland"
    BY <1>3, <2>1 DEF Made, Ends, Answers
  <2>2. CASE call[c].operation # "userland"
    BY <1>3, <2>2 DEF Made, Ends, Answers, Null
  <2> QED BY <2>1, <2>2
<1> QED BY <1>1, <1>2, <1>3

LEMMA StepDoes ==
  ASSUME TypeOK, NEW c \in Callers, ~ Idle(c), NEW dir \in Places, call[c].dir = dir, Step(c),
         call[c].stage = "mkdir" => call[c].next \in Way[dir]
  PROVE  GoesOn(c, dir) \/ Ends(c, dir)
<1>1. /\ \A p \in Places : Status(p) \in {"none", "dir", "file"}
      /\ \A p \in Paths \ DOMAIN Link : Status(p) = node[p]
      /\ call[c].operation # "File::create" => dir \in Paths
  BY StatusFacts, CallFacts
<1>2. UNCHANGED node => \A p \in Places : Status(p)' = Status(p)
  BY DEF Status
<1>3. CASE IsDirectory(c)
  <2>1. UNCHANGED node
    BY <1>3 DEF IsDirectory
  <2>2. CASE Status(dir) = "dir"
    BY <1>2, <1>3, <2>1, <2>2, SucceedDoes DEF IsDirectory, At
  <2>3. CASE Status(dir) # "dir" /\ call[c].operation \in Servers
    BY <1>3, <2>3 DEF IsDirectory, Ends, Answers, Null
  <2>4. CASE Status(dir) # "dir" /\ call[c].operation \notin Servers
    <3>1. GoTo(c, "scan")
      BY <1>3, <2>4 DEF IsDirectory
    <3>2. PICK r \in Calls :
             /\ call' = [call EXCEPT ![c] = r] /\ UNCHANGED reply
             /\ r.operation = call[c].operation /\ r.dir = call[c].dir /\ r.stage = "scan"
             /\ r.file = call[c].file /\ r.there = call[c].there
      BY <3>1, StageOnly
    <3>3. call[c].stage = "test"
      BY <1>3 DEF IsDirectory, At
    <3> QED BY <2>1, <2>4, <3>2, <3>3 DEF GoesOn, Goes
  <2> QED BY <2>2, <2>3, <2>4
<1>4. CASE Scan(c)
  <2>1. UNCHANGED node /\ call[c].stage = "scan"
    BY <1>4 DEF Scan, At
  <2>2. CASE Status(dir) = "dir"
    BY <1>2, <1>4, <2>1, <2>2, MadeDoes DEF Scan
  <2>3. CASE Status(dir) = "none"
    <3>1. PICK q : q = FirstMissing(dir)
      OBVIOUS
    <3>2. dir \in Paths
      BY <2>3, StatusFacts DEF Places
    <3>3. q \in Way[dir] /\ q \in Paths /\ Parent[q] \in Way[dir] \cup {Root}
          /\ Status(Parent[q]) # "none"
      BY <2>3, <3>1, <3>2, MissingFacts, WayFacts
    <3>4. CASE Status(Parent[q]) = "dir"
      <4>1. PICK l \in Calls : l = call[c]
        BY CallFacts
      <4>2. PICK r : r = [l EXCEPT !.stage = "mkdir", !.next = q]
        OBVIOUS
      <4>3. r = [operation |-> l.operation, dir |-> l.dir, file |-> l.file, stage |-> "mkdir",
                 next |-> q, there |-> l.there]
        BY <4>2, StageAndNext
      <4>4. r \in Calls
        BY <3>3, <4>3 DEF Calls
      <4>5. call' = [call EXCEPT ![c] = r] /\ UNCHANGED reply
        BY <1>4, <2>3, <3>1, <3>4, <4>1, <4>2 DEF Scan
      <4>6. Status(Parent[q])' = "dir"
        BY <1>2, <2>1, <3>3, <3>4, TreeFacts
      <4>7. Goes(c, dir, r)
        BY <2>1, <3>3, <4>1, <4>3, <4>6 DEF Goes
      <4> QED BY <4>4, <4>5, <4>7 DEF GoesOn
    <3>5. CASE Status(Parent[q]) # "dir"
      <4>1. Return(c, "throws")
        BY <1>4, <2>3, <3>1, <3>5 DEF Scan
      <4>2. Parent[q] \in Way[dir] /\ Status(Parent[q]) = "file"
        BY <1>1, <3>3, <3>5, TreeFacts, StatusFacts
      <4> QED BY <4>1, <4>2 DEF Ends, Answers, Throws
    <3> QED BY <3>4, <3>5
  <2>4. CASE Status(dir) = "file"
    <3>1. dir \in Way[dir]
      BY <2>4, WayFacts, StatusFacts DEF Places
    <3> QED BY <1>4, <2>4, <3>1 DEF Scan, Ends, Answers, Throws
  <2> QED BY <1>1, <2>2, <2>3, <2>4
<1>5. CASE Mkdir(c)
  <2>0. PICK p \in Paths : p = call[c].next
    BY CallFacts
  <2>1. PICK makes \in BOOLEAN :
          makes <=> ~ (node[p] # "none" \/ p \in DOMAIN Link) /\ Status(Parent[p]) = "dir"
    OBVIOUS
  <2>2. /\ call[c].stage = "mkdir" /\ p \in Way[dir]
        /\ node' = IF makes THEN [node EXCEPT ![p] = "dir"] ELSE node
        /\ IF ~ makes /\ Status(p) # "dir" THEN Return(c, "throws")
           ELSE IF p = dir THEN Made(c, makes)
           ELSE call' = [call EXCEPT ![c].next = Below(dir, p)] /\ UNCHANGED reply
    BY <1>5, <2>0, <2>1 DEF Mkdir, At
  <2>3. makes => Status(p)' = "dir"
    BY <2>1, <2>2, TreeGrows
  <2>4. CASE ~ makes /\ Status(p) # "dir"
    <3>1. Status(p) = "file" \/ p \in DOMAIN Link \/ Status(Parent[p]) # "dir"
      BY <1>1, <2>1, <2>4 DEF Places
    <3>2. Throws(c, dir)
      BY <2>0, <2>2, <3>1 DEF Throws
    <3> QED BY <2>2, <2>4, <3>2 DEF Ends, Answers
  <2>5. CASE (makes \/ Status(p) = "dir") /\ p = dir
    <3>1. Made(c, makes)
      BY <2>2, <2>5
    <3> QED BY <2>2, <2>3, <2>5, <3>1, MadeDoes
  <2>6. CASE (makes \/ Status(p) = "dir") /\ p # dir
    <3>1. Status(p)' = "dir"
      BY <1>2, <2>2, <2>3, <2>6 DEF Places
    <3>2. PICK q : q = Below(dir, p)
      OBVIOUS
    <3>3. q \in Way[dir] /\ q \in Paths /\ Parent[q] = p
      BY <2>2, <2>6, <3>2, BelowFacts, WayFacts
    <3>4. PICK l \in Calls : l = call[c]
      BY CallFacts
    <3>5. PICK r : r = [l EXCEPT !.next = q]
      OBVIOUS
    <3>6. r \in Calls /\ r.operation = l.operation /\ r.dir = l.dir /\ r.stage = l.stage
          /\ r.file = l.file /\ r.there = l.there /\ r.next = q
      BY <3>3, <3>5 DEF Calls
    <3>7. call' = [call EXCEPT ![c] = r] /\ UNCHANGED reply
      BY <2>2, <2>6, <3>2, <3>4, <3>5
    <3>8. Goes(c, dir, r)
      BY <2>0, <2>2, <3>1, <3>3, <3>4, <3>6 DEF Goes
    <3> QED BY <3>6, <3>7, <3>8 DEF GoesOn
  <2> QED BY <2>4, <2>5, <2>6
<1>6. CASE Open(c)
  <2>1. PICK outcome : /\ Return(c, outcome) /\ outcome \in {"ok", "null"}
                       /\ outcome = "null" =>
                            /\ node[call[c].file] # "file"
                            /\ ~ (node[call[c].file] = "none"
                                  /\ Status(Parent[call[c].file]) = "dir")
    BY <1>6 DEF Open
  <2>2. call[c].stage = "open" /\ dir = Parent[call[c].file]
    BY <1>6, CallFacts DEF Open, At
  <2> QED BY <2>1, <2>2 DEF Ends, Answers, Null
<1>7. CASE Refuse(c)
  <2>1. refused'[c]
    BY <1>7 DEF Refuse, TypeOK
  <2>2. CASE call[c].stage = "open"
    <3>1. Return(c, "null") /\ Answers(c, dir, "null")
      BY <1>7, <2>1, <2>2 DEF Refuse, Answers, Null
    <3> QED BY <3>1 DEF Ends
  <2>3. CASE call[c].stage # "open"
    <3>1. Return(c, "throws") /\ Answers(c, dir, "throws")
      BY <1>7, <2>1, <2>3 DEF Refuse, Answers, Throws
    <3> QED BY <3>1 DEF Ends
  <2> QED BY <2>2, <2>3
<1> QED BY <1>3, <1>4, <1>5, <1>6, <1>7 DEF Step, Answered

LEMMA BeginFacts ==
  ASSUME TypeOK, NEW c \in Callers, Invoke(c)
  PROVE  \E r \in Calls :
           /\ call' = [call EXCEPT ![c] = r] /\ Idle(c) /\ UNCHANGED node
           /\ r.operation \in Operations /\ r.stage \in {"test", "scan"}
           /\ r.stage = "scan" => r.operation = "StorageServer::create"
           /\ r.there = (Status(r.dir) = "dir")
           /\ r.dir \in DOMAIN Link => r.operation = "child_directory"
           /\ r.operation = "File::create" => r.file \in FilePaths /\ r.dir = Parent[r.file]
           /\ r.operation # "File::create" => r.dir \in Paths
<1>1. PICK operation \in Operations, p \in Paths :
        /\ operation = "File::create" => p \in FilePaths
        /\ Begin(c, operation, p)
  BY TreeAssumption DEF Invoke
<1>2. PICK dir : dir = CASE operation = "File::create"    -> Parent[p]
                         [] operation = "child_directory" -> p
                         [] OTHER                         -> Resolve(p)
  OBVIOUS
<1>3. PICK r : r = [operation |-> operation, dir |-> dir, file |-> p,
                    stage |-> IF operation = "StorageServer::create" THEN "scan" ELSE "test",
                    next |-> p, there |-> Status(dir) = "dir"]
  OBVIOUS
<1>4. /\ dir \in Places
      /\ operation # "File::create" => dir \in Paths
      /\ operation = "File::create" => dir = Parent[p]
      /\ dir \in DOMAIN Link => operation = "child_directory"
  BY <1>2, TreeFacts DEF Places
<1>5. /\ r.operation = operation /\ r.dir = dir /\ r.file = p /\ r.stage \in {"test", "scan"}
      /\ r.stage = "scan" => operation = "StorageServer::create"
      /\ r.there = (Status(dir) = "dir")
  BY <1>3
<1>6. r \in Calls
  BY <1>3, <1>4 DEF Calls, Places
<1>7. call' = [call EXCEPT ![c] = r] /\ Idle(c) /\ UNCHANGED node
  BY <1>1, <1>2, <1>3 DEF Begin
<1> QED BY <1>1, <1>4, <1>5, <1>6, <1>7

\* What a step makes of the call of c.
LEMMA CallStep ==
  ASSUME IInv, Next, NEW c \in Callers
  PROVE  \/ call'[c] = call[c] /\ reply'[c] \in {"none", "ok", "null", "throws", "bare"}
         \/ Invoke(c)
         \/ /\ ~ Idle(c) /\ Step(c)
            /\ \E dir \in Places : call[c].dir = dir /\ (GoesOn(c, dir) \/ Ends(c, dir))
<1>1. ASSUME NEW d \in Callers, Step(d)
      PROVE  ~ Idle(d) /\ \E dir \in Places : call[d].dir = dir
                                              /\ (GoesOn(d, dir) \/ Ends(d, dir))
  <2>1. ~ Idle(d)
    BY <1>1 DEF Step, Answered, IsDirectory, Scan, Mkdir, Open, Refuse, At
  <2>2. PICK dir \in Places : call[d].dir = dir
    BY <2>1, CallFacts DEF IInv
  <2>3. call[d].stage = "mkdir" => call[d].next \in Way[dir]
    BY <2>1, <2>2 DEF IInv, CallsSound, CallSound
  <2> QED BY <1>1, <2>1, <2>2, <2>3, StepDoes DEF IInv
<1>2. /\ reply \in [Callers -> {"none", "ok", "null", "throws", "bare"}]
      /\ call \in [Callers -> {NoCall} \cup Calls]
  BY DEF IInv, TypeOK
<1>3. ASSUME NEW d \in Callers, d # c, Invoke(d) \/ Step(d)
      PROVE  call'[c] = call[c] /\ reply'[c] \in {"none", "ok", "null", "throws", "bare"}
  BY <1>1, <1>2, <1>3 DEF Invoke, Begin, GoesOn, Ends, Return
<1>4. ASSUME NEW p \in Paths, Make(p) \/ Remove(p)
      PROVE  call'[c] = call[c] /\ reply'[c] \in {"none", "ok", "null", "throws", "bare"}
  BY <1>2, <1>4 DEF Make, Remove
<1> QED BY <1>1, <1>3, <1>4 DEF Next

\* A call that nobody moves.
LEMMA CallStands ==
  ASSUME IInv, Next, NEW c \in Callers, ~ Idle(c), call'[c] = call[c]
  PROVE  CallSound(c)'
<1>1. PICK l \in Calls, dir \in Places : l = call[c] /\ dir = l.dir
  BY CallFacts DEF IInv
<1>2. Stays
  BY TreeStep DEF IInv
<1>3. Kept(dir) /\ Status(dir) = "dir" => Status(dir)' = "dir"
  BY <1>2, KeptFacts DEF Stays
<1>4. PICK above : above = Parent[l.next]
  OBVIOUS
<1>5. ASSUME Kept(dir), dir \notin DOMAIN Link, l.next \in Way[dir], Status(above) = "dir"
      PROVE  Status(above)' = "dir"
  <2>1. above \in Way[dir] \cup {Root} /\ above \in Places /\ Resolve(above) = above
    BY <1>4, <1>5, WayFacts, TreeFacts DEF Places
  <2>2. above \notin Removable
    BY <1>5, <2>1, KeptFacts, TreeAssumption
  <2> QED BY <1>2, <1>5, <2>1, <2>2 DEF Stays
<1>6. Kept(dir)' = Kept(dir)
  BY DEF Kept
<1>7. CallSound(c)
  BY DEF IInv, CallsSound
<1> QED BY <1>1, <1>3, <1>4, <1>5, <1>6, <1>7 DEF CallSound

\* A call that goes on.
LEMMA CallMoves ==
  ASSUME IInv, Next, NEW c \in Callers, ~ Idle(c), NEW dir \in Places, call[c].dir = dir,
         NEW r \in Calls, call'[c] = r, Goes(c, dir, r)
  PROVE  CallSound(c)'
<1>1. PICK l \in Calls : l = call[c] /\ l.dir = dir
  BY CallFacts DEF IInv
<1>2. CallSound(c)
  BY DEF IInv, CallsSound
<1>3. Stays
  BY TreeStep DEF IInv
<1>4. Kept(dir) /\ Status(dir) = "dir" => Status(dir)' = "dir"
  BY <1>3, KeptFacts DEF Stays
<1>5. PICK to : to = r.dir
  OBVIOUS
<1>6. ASSUME l.operation \in {"child_directory"} \cup Servers, Status(dir)' = "dir",
             r.operation \in {"Directory::create", "userland"},
             to = Resolve(dir), r.stage = "test"
      PROVE  CallSound(c)'
  <2>1. Status(to)' = "dir" /\ to \notin DOMAIN Link
    BY <1>6, TreeFacts DEF Status
  <2> QED BY <1>5, <1>6, <2>1 DEF CallSound
<1>7. ASSUME r.operation = l.operation, to = dir, r.there = l.there,
             \/ r.operation = "File::create" /\ r.stage = "open" /\ Status(dir)' = "dir"
             \/ r.operation \notin Servers /\ r.stage = "scan" /\ Status(dir) # "dir"
             \/ r.operation = "StorageServer::create" /\ r.stage = "test"
             \/ /\ l.stage \in {"scan", "mkdir"} /\ r.stage = "mkdir"
                /\ r.next \in Way[dir] /\ Status(Parent[r.next])' = "dir"
      PROVE  CallSound(c)'
  <2>1. /\ dir \in DOMAIN Link => r.operation = "child_directory"
        /\ r.operation = "StorageServer::create existing" => r.stage = "test"
        /\ r.stage = "mkdir" => r.next \in Way[dir]
    BY <1>1, <1>2, <1>7 DEF CallSound, Servers
  <2>2. ASSUME Kept(dir)
        PROVE  /\ r.there \/ r.operation = "userland" \/ r.stage = "open" =>
                    Status(dir)' = "dir"
               /\ r.operation = "userland" => r.stage = "test"
               /\ r.stage \in {"scan", "mkdir"} =>
                    ~ r.there \/ r.operation = "StorageServer::create"
               /\ r.stage = "mkdir" => Status(Parent[r.next])' = "dir"
    <3>1. /\ l.there \/ l.operation = "userland" => Status(dir) = "dir"
          /\ l.operation = "userland" => l.stage = "test"
          /\ l.stage \in {"scan", "mkdir"} =>
               ~ l.there \/ l.operation = "StorageServer::create"
      BY <1>1, <1>2, <2>2 DEF CallSound
    <3> QED BY <1>4, <1>7, <2>2, <3>1 DEF Servers
  <2>3. Kept(dir)' = Kept(dir)
    BY DEF Kept
  <2>4. PICK above : above = Parent[r.next]
    OBVIOUS
  <2> QED BY <1>5, <1>7, <2>1, <2>2, <2>3, <2>4 DEF CallSound
<1> QED BY <1>1, <1>5, <1>6, <1>7 DEF Goes

\* A call that begins.
LEMMA CallBegins ==
  ASSUME IInv, Next, NEW c \in Callers, NEW r \in Calls, call'[c] = r, UNCHANGED node,
         r.operation \in Operations, r.stage \in {"test", "scan"},
         r.stage = "scan" => r.operation = "StorageServer::create",
         r.there = (Status(r.dir) = "dir"),
         r.dir \in DOMAIN Link => r.operation = "child_directory"
  PROVE  CallSound(c)'
<1>1. PICK dir \in Places : dir = r.dir
  BY DEF Calls, Places
<1>2. Status(dir)' = Status(dir)
  BY DEF Status
<1>3. r.operation # "userland"
  BY TreeAssumption DEF Creators, Servers
<1> QED BY <1>1, <1>2, <1>3 DEF CallSound

\* The invariant for one caller, after a step.
LEMMA CallKept ==
  ASSUME IInv, Next, NEW c \in Callers
  PROVE  /\ call'[c] \in {NoCall} \cup Calls
         /\ reply'[c] \in {"none", "ok", "null", "throws", "bare"}
         /\ ~ Idle(c)' =>
              /\ call'[c].operation = "File::create" =>
                   call'[c].file \in FilePaths /\ call'[c].dir = Parent[call'[c].file]
              /\ call'[c].operation # "File::create" => call'[c].dir \in Paths
              /\ call'[c].stage = "open" => call'[c].operation = "File::create"
              /\ CallSound(c)'
<1>0. /\ call \in [Callers -> {NoCall} \cup Calls]
      /\ reply \in [Callers -> {"none", "ok", "null", "throws", "bare"}]
  BY DEF IInv, TypeOK
<1>1. CASE call'[c] = call[c] /\ reply'[c] \in {"none", "ok", "null", "throws", "bare"}
  <2>1. CASE Idle(c)
    BY <1>1, <2>1 DEF Idle
  <2>2. CASE ~ Idle(c)
    BY <1>0, <1>1, <2>2, CallFacts, CallStands DEF IInv
  <2> QED BY <2>1, <2>2
<1>2. CASE Invoke(c)
  <2>1. PICK r \in Calls :
           /\ call' = [call EXCEPT ![c] = r] /\ Idle(c) /\ UNCHANGED node
           /\ r.operation \in Operations /\ r.stage \in {"test", "scan"}
           /\ r.stage = "scan" => r.operation = "StorageServer::create"
           /\ r.there = (Status(r.dir) = "dir")
           /\ r.dir \in DOMAIN Link => r.operation = "child_directory"
           /\ r.operation = "File::create" => r.file \in FilePaths /\ r.dir = Parent[r.file]
           /\ r.operation # "File::create" => r.dir \in Paths
    BY <1>2, BeginFacts DEF IInv
  <2>2. call'[c] = r
    BY <1>0, <2>1
  <2>3. CallSound(c)'
    BY <2>1, <2>2, CallBegins
  <2>4. reply'[c] \in {"none", "ok", "null", "throws", "bare"}
    BY <1>0, <1>2 DEF Invoke, Begin
  <2> QED BY <2>1, <2>2, <2>3, <2>4
<1>3. ASSUME ~ Idle(c), NEW dir \in Places, call[c].dir = dir, GoesOn(c, dir)
      PROVE  /\ call'[c] \in Calls /\ reply' = reply
             /\ call'[c].operation = "File::create" =>
                  call'[c].file \in FilePaths /\ call'[c].dir = Parent[call'[c].file]
             /\ call'[c].operation # "File::create" => call'[c].dir \in Paths
             /\ call'[c].stage = "open" => call'[c].operation = "File::create"
             /\ CallSound(c)'
  <2>1. PICK r \in Calls : call' = [call EXCEPT ![c] = r] /\ UNCHANGED reply /\ Goes(c, dir, r)
    BY <1>3 DEF GoesOn
  <2>2. call'[c] = r
    BY <1>0, <2>1
  <2>3. CallSound(c)'
    BY <1>3, <2>1, <2>2, CallMoves
  <2>4. /\ r.operation = "File::create" => r.file \in FilePaths /\ r.dir = Parent[r.file]
        /\ r.operation # "File::create" => r.dir \in Paths
        /\ r.stage = "open" => r.operation = "File::create"
    <3>1. PICK l \in Calls : l = call[c] /\ l.dir = dir /\ l.file = r.file
      BY <1>3, <2>1, CallFacts DEF IInv, Goes
    <3>2. /\ l.operation # "File::create" => dir \in Paths
          /\ l.operation = "File::create" => dir = Parent[l.file] /\ l.file \in FilePaths
      BY <1>3, <3>1, CallFacts DEF IInv
    <3>3. CASE l.operation \in {"child_directory"} \cup Servers /\ r.dir = Resolve(dir)
               /\ r.operation \in {"Directory::create", "userland"} /\ r.stage = "test"
      <4>1. l.operation # "File::create"
        BY <3>3 DEF Servers
      <4>2. Resolve(dir) \in Paths
        BY <3>2, <4>1, TreeFacts
      <4> QED BY <3>3, <4>2
    <3>4. CASE r.operation = l.operation /\ r.dir = dir
               /\ (r.stage = "open" => r.operation = "File::create")
      BY <3>1, <3>2, <3>4
    <3> QED BY <2>1, <3>1, <3>3, <3>4 DEF Goes
  <2> QED BY <2>1, <2>2, <2>3, <2>4
<1>4. ASSUME ~ Idle(c), NEW dir \in Places, Ends(c, dir)
      PROVE  call'[c] = NoCall /\ reply'[c] \in {"none", "ok", "null", "throws", "bare"}
  BY <1>0, <1>4 DEF Ends, Return, Answers
<1> QED BY <1>0, <1>1, <1>2, <1>3, <1>4, CallStep DEF Idle

LEMMA CallsAreFunctions ==
  ASSUME IInv, Next
  PROVE  call' = [c \in Callers |-> call'[c]] /\ reply' = [c \in Callers |-> reply'[c]]
<1>1. /\ call \in [Callers -> {NoCall} \cup Calls]
      /\ reply \in [Callers -> {"none", "ok", "null", "throws", "bare"}]
  BY DEF IInv, TypeOK
<1>2. ASSUME NEW p \in Paths, Make(p) \/ Remove(p)
      PROVE  call' = [c \in Callers |-> call'[c]] /\ reply' = [c \in Callers |-> reply'[c]]
  BY <1>1, <1>2 DEF Make, Remove
<1>3. ASSUME NEW c \in Callers, Invoke(c)
      PROVE  call' = [d \in Callers |-> call'[d]] /\ reply' = [d \in Callers |-> reply'[d]]
  BY <1>1, <1>3 DEF Invoke, Begin
<1>4. ASSUME NEW c \in Callers, Step(c)
      PROVE  call' = [d \in Callers |-> call'[d]] /\ reply' = [d \in Callers |-> reply'[d]]
  <2>1. ~ Idle(c)
    BY <1>4 DEF Step, Answered, IsDirectory, Scan, Mkdir, Open, Refuse, At
  <2>2. PICK dir \in Places : call[c].dir = dir
    BY <2>1, CallFacts DEF IInv
  <2>3. call[c].stage = "mkdir" => call[c].next \in Way[dir]
    BY <2>1, <2>2 DEF IInv, CallsSound, CallSound
  <2>4. GoesOn(c, dir) \/ Ends(c, dir)
    BY <1>4, <2>1, <2>2, <2>3, StepDoes DEF IInv
  <2> QED BY <1>1, <2>4 DEF GoesOn, Ends, Return
<1> QED BY <1>2, <1>3, <1>4 DEF Next

LEMMA RefusedKept == TypeOK /\ Next => refused' \in [Callers -> BOOLEAN]
<1> SUFFICES ASSUME TypeOK, Next PROVE refused' \in [Callers -> BOOLEAN]
  OBVIOUS
<1>1. ASSUME NEW c \in Callers, Invoke(c) \/ Step(c) PROVE refused' \in [Callers -> BOOLEAN]
  BY <1>1 DEF TypeOK, Invoke, Begin, Step, Refuse
<1> QED BY <1>1 DEF Next, Make, Remove, TypeOK

LEMMA InitInv == Init => IInv
<1> SUFFICES ASSUME Init PROVE IInv
  OBVIOUS
<1>1. \A c \in Callers : Idle(c)
  BY DEF Init, Idle
<1> QED BY <1>1 DEF Init, IInv, TypeOK, CallsSound

LEMMA StepInv == IInv /\ [Next]_vars => IInv'
<1>1. ASSUME IInv, Next PROVE IInv'
  <2>1. TypeOK'
    BY <1>1, TreeStep, CallKept, CallsAreFunctions, RefusedKept DEF IInv, TypeOK
  <2>2. CallsSound'
    BY <1>1, CallKept DEF CallsSound
  <2> QED BY <2>1, <2>2 DEF IInv
<1>2. ASSUME IInv, UNCHANGED vars PROVE IInv'
  BY <1>2 DEF vars, IInv, TypeOK, CallsSound, CallSound, Idle, Status, Kept
<1> QED BY <1>1, <1>2

LEMMA Inductive == Spec => []IInv
BY InitInv, StepInv, PTL DEF Spec

-----------------------------------------------------------------------------
(* What the calls answer                                                    *)

\* Only a step of its own returns a call.
LEMMA ReturnIsStep ==
  ASSUME IInv, Next, NEW c \in Callers, NEW outcome, Returns(c, outcome)
  PROVE  \E dir \in Places : /\ call[c].dir = dir /\ Step(c) /\ Answers(c, dir, outcome)
<1>1. call \in [Callers -> {NoCall} \cup Calls]
      /\ reply \in [Callers -> {"none", "ok", "null", "throws", "bare"}]
  BY DEF IInv, TypeOK
<1>2. ~ Idle(c) /\ call'[c] = NoCall /\ call[c] # NoCall /\ reply'[c] = outcome
  BY DEF Returns, Idle
<1>3. ~ Invoke(c)
  BY <1>2 DEF Invoke, Begin
<1>4. PICK dir \in Places : call[c].dir = dir /\ Step(c) /\ (GoesOn(c, dir) \/ Ends(c, dir))
  BY <1>2, <1>3, CallStep
<1>5. ~ GoesOn(c, dir)
  BY <1>1, <1>2, NoCallAssumption DEF GoesOn
<1>6. Ends(c, dir)
  BY <1>4, <1>5
<1> QED BY <1>1, <1>2, <1>4, <1>6 DEF Ends, Return

\* The tree stays one, and every call is in a stage it may be in.
THEOREM TypeCorrect == Spec => []TypeOK
<1>1. IInv => TypeOK
  BY DEF IInv
<1> QED BY <1>1, Inductive, PTL

\* StorageServer::create with create_if_missing = false never gets to
\* create_directories (StorageServer.hpp:276-287), unless the directory is
\* removed after the server looked.
THEOREM ExistingIsLeftAlone == Spec => []ExistingMakesNothing
<1>1. IInv => ExistingMakesNothing
  BY DEF IInv, CallsSound, CallSound, ExistingMakesNothing
<1> QED BY <1>1, Inductive, PTL

\* A server whose user directory nobody removes gets it, though
\* Directory::create may answer nullptr (StorageServer.hpp:285).
THEOREM ServerGetsUserland == Spec => ServerHasUserland
<1>1. ASSUME IInv, Next, NEW c \in Callers, Returns(c, "bare") PROVE ~ Kept(call[c].dir)
  <2>1. PICK dir \in Places : call[c].dir = dir /\ Answers(c, dir, "bare")
    BY <1>1, ReturnIsStep
  <2>2. call[c].operation = "userland" /\ call[c].stage \in {"scan", "mkdir"}
    BY <2>1 DEF Answers
  <2>3. CallSound(c)
    BY <1>1 DEF IInv, CallsSound, Returns
  <2> QED BY <2>2, <2>3 DEF CallSound
<1>2. IInv /\ [Next]_vars =>
        [\A c \in Callers : Returns(c, "bare") => ~ Kept(call[c].dir)]_vars
  BY <1>1
<1> QED BY <1>2, Inductive, PTL DEF Spec, ServerHasUserland

\* nullptr from Directory::create and child_directory is the answer to a lost
\* race, whatever the system refuses; nullptr from File::create is that, or the
\* file did not open, refused or a directory.
THEOREM NullIsALostRace == Spec => NullMeansLostRace
<1>1. ASSUME IInv, Next, NEW c \in Callers, Returns(c, "null"), Kept(call[c].dir),
             call[c].operation \notin Servers
      PROVE  \/ ~ call[c].there /\ node' = node /\ Status(call[c].dir) = "dir"
             \/ call[c].stage = "open" /\ (refused'[c] \/ node[call[c].file] = "dir")
  <2>1. PICK dir \in Places : call[c].dir = dir /\ Null(c, dir)
    BY <1>1, ReturnIsStep DEF Answers
  <2>2. ~ Idle(c) /\ CallSound(c)
    BY <1>1 DEF IInv, CallsSound, Returns
  <2>3. CASE call[c].stage \in {"scan", "mkdir"} /\ node' = node /\ Status(dir) = "dir"
    BY <1>1, <2>1, <2>2, <2>3 DEF CallSound, Servers
  <2>4. CASE /\ call[c].stage = "open" /\ node[call[c].file] # "file"
             /\ node[call[c].file] = "none" => Status(dir) # "dir"
    <3>1. Status(dir) = "dir"
      BY <1>1, <2>1, <2>2, <2>4 DEF CallSound
    <3>2. node[call[c].file] \in {"none", "dir", "file"}
      BY <1>1, <2>2, CallFacts DEF IInv, TypeOK
    <3> QED BY <2>4, <3>1, <3>2
  <2>5. CASE call[c].stage = "open" /\ refused'[c]
    BY <2>5
  <2> QED BY <1>1, <2>1, <2>3, <2>4, <2>5 DEF Null
<1>2. IInv /\ [Next]_vars =>
        [\A c \in Callers :
           Returns(c, "null") /\ Kept(call[c].dir) /\ call[c].operation \notin Servers =>
             \/ ~ call[c].there /\ node' = node /\ Status(call[c].dir) = "dir"
             \/ call[c].stage = "open" /\ (refused'[c] \/ node[call[c].file] = "dir")]_vars
  BY <1>1
<1> QED BY <1>2, Inductive, PTL DEF Spec, NullMeansLostRace

\* A call throws only when the system refuses what it asks for, or a file, or
\* for child_directory a link to nothing, is in the way: never because somebody
\* else is at work on the same directories.
THEOREM ThrowsIfBlocked == Spec => ThrowsOnlyIfBlocked
<1>1. ASSUME IInv, Next, NEW c \in Callers, Returns(c, "throws"), Kept(call[c].dir)
      PROVE  \/ refused'[c]
             \/ \E p \in Way[call[c].dir] : Status(p) = "file"
             \/ call[c].operation = "child_directory" /\ call[c].dir \in DOMAIN Link
  <2>1. PICK dir \in Places : call[c].dir = dir /\ Throws(c, dir)
    BY <1>1, ReturnIsStep DEF Answers
  <2>2. CallSound(c)
    BY <1>1 DEF IInv, CallsSound, Returns
  <2>3. CASE call[c].stage = "mkdir" /\ call[c].next \in DOMAIN Link
    <3>1. call[c].next \in Way[dir]
      BY <2>1, <2>2, <2>3 DEF CallSound
    <3>2. call[c].next = dir
      BY <2>3, <3>1, WayFacts
    <3> QED BY <2>1, <2>2, <2>3, <3>2 DEF CallSound
  <2>4. CASE call[c].stage = "mkdir" /\ Status(Parent[call[c].next]) # "dir"
    BY <1>1, <2>1, <2>2, <2>4 DEF CallSound
  <2> QED BY <2>1, <2>3, <2>4 DEF Throws
<1>2. IInv /\ [Next]_vars =>
        [\A c \in Callers :
           Returns(c, "throws") /\ Kept(call[c].dir) =>
             \/ refused'[c]
             \/ \E p \in Way[call[c].dir] : Status(p) = "file"
             \/ call[c].operation = "child_directory" /\ call[c].dir \in DOMAIN Link]_vars
  BY <1>1
<1> QED BY <1>2, Inductive, PTL DEF Spec, ThrowsOnlyIfBlocked

-----------------------------------------------------------------------------
(* Calls go forward                                                         *)

\* The stages in the order a call goes through them, in the directory it was
\* called for and then in the one it calls Directory::create for.
Phase(l) ==
  CASE l.operation = "StorageServer::create" ->
         CASE l.stage = "scan" -> 0 [] l.stage = "mkdir" -> 1 [] OTHER -> 2
    [] l.operation \in {"Directory::create", "userland"} ->
         CASE l.stage = "test" -> 3 [] l.stage = "scan" -> 4 [] OTHER -> 5
    [] OTHER ->
         CASE l.stage = "test" -> 0 [] l.stage = "scan" -> 1
           [] l.stage = "mkdir" -> 2 [] OTHER -> 3

Forward(l, r) ==
  \/ Phase(l) < Phase(r)
  \/ /\ Phase(l) = Phase(r) /\ l.stage = "mkdir" /\ r.stage = "mkdir"
     /\ l.dir = r.dir /\ Parent[r.next] = l.next

LEMMA PhaseFacts ==
  ASSUME NEW l \in Calls
  PROVE  /\ Phase(l) \in 0 .. 5
         /\ l.operation \in Creators \cup {"userland"}
         /\ l.stage \in {"test", "scan", "mkdir", "open"}
BY TreeAssumption DEF Calls, Phase, Creators

LEMMA GoesForward ==
  ASSUME TypeOK, NEW c \in Callers, ~ Idle(c), NEW dir \in Places, call[c].dir = dir,
         NEW r \in Calls, Goes(c, dir, r), CallSound(c)
  PROVE  Forward(call[c], r)
<1>1. PICK l \in Calls : l = call[c]
  BY CallFacts
<1>2. /\ l.stage \in {"test", "scan", "mkdir", "open"}
      /\ l.stage = "open" => l.operation = "File::create"
      /\ l.operation = "StorageServer::create existing" => l.stage = "test"
  BY <1>1, PhaseFacts, CallFacts DEF CallSound
<1>3. CASE /\ l.operation \in {"child_directory"} \cup Servers
           /\ r.operation \in {"Directory::create", "userland"} /\ r.stage = "test"
  <2>1. Phase(r) = 3
    BY <1>3 DEF Phase
  <2>2. Phase(l) \in 0 .. 2
    <3>1. l.stage # "open"
      BY <1>2, <1>3 DEF Servers
    <3>2. CASE l.operation = "StorageServer::create"
      BY <3>2 DEF Phase
    <3>3. CASE l.operation = "StorageServer::create existing" \/ l.operation = "child_directory"
      <4>1. l.operation \notin {"StorageServer::create", "Directory::create", "userland"}
        BY <3>3
      <4>2. l.stage = "test" \/ l.stage = "scan" \/ l.stage = "mkdir"
        BY <1>2, <3>1
      <4> QED BY <4>1, <4>2 DEF Phase
    <3> QED BY <1>3, <3>2, <3>3 DEF Servers
  <2> QED BY <1>1, <2>1, <2>2 DEF Forward
<1>4. CASE r.operation = l.operation /\ l.stage # "open" /\ r.stage = "open"
           /\ r.operation = "File::create"
  BY <1>1, <1>2, <1>4 DEF Forward, Phase
<1>5. CASE r.operation = l.operation /\ l.stage = "test" /\ r.stage = "scan"
           /\ r.operation \notin Servers
  <2>1. l.operation # "StorageServer::create" /\ r.operation # "StorageServer::create"
    BY <1>5 DEF Servers
  <2>2. CASE l.operation \in {"Directory::create", "userland"}
    <3>1. Phase(l) = 3 /\ Phase(r) = 4
      BY <1>5, <2>2 DEF Phase
    <3> QED BY <1>1, <3>1 DEF Forward
  <2>3. CASE l.operation \notin {"Directory::create", "userland"}
    <3>1. Phase(l) = 0 /\ Phase(r) = 1
      BY <1>5, <2>1, <2>3 DEF Phase
    <3> QED BY <1>1, <3>1 DEF Forward
  <2> QED BY <2>2, <2>3
<1>6. CASE r.operation = l.operation /\ l.stage \in {"scan", "mkdir"} /\ r.stage = "test"
           /\ r.operation = "StorageServer::create"
  BY <1>1, <1>6 DEF Forward, Phase
<1>7. CASE r.operation = l.operation /\ l.stage = "scan" /\ r.stage = "mkdir"
  BY <1>1, <1>7 DEF Forward, Phase
<1>8. CASE r.operation = l.operation /\ l.stage = "mkdir" /\ r.stage = "mkdir"
           /\ r.dir = l.dir /\ Parent[r.next] = l.next
  BY <1>1, <1>8 DEF Forward, Phase
<1>9. \/ /\ l.operation \in {"child_directory"} \cup Servers
         /\ r.operation \in {"Directory::create", "userland"} /\ r.stage = "test"
      \/ /\ r.operation = l.operation /\ r.dir = l.dir
         /\ \/ l.stage # "open" /\ r.stage = "open" /\ r.operation = "File::create"
            \/ l.stage = "test" /\ r.stage = "scan" /\ r.operation \notin Servers
            \/ /\ l.stage \in {"scan", "mkdir"} /\ r.stage = "test"
               /\ r.operation = "StorageServer::create"
            \/ l.stage = "scan" /\ r.stage = "mkdir"
            \/ l.stage = "mkdir" /\ r.stage = "mkdir" /\ Parent[r.next] = l.next
  BY <1>1 DEF Goes
<1> QED BY <1>3, <1>4, <1>5, <1>6, <1>7, <1>8, <1>9

\* No call goes back, whatever other programs make and remove: it tests, looks
\* and makes once, or once more for the Directory::create it calls, and each
\* time makes one component below the other, none of them twice.  A server
\* asks create_directories at most twice.
THEOREM CallsGoForward ==
  Spec => /\ [](\A c \in Callers : ~ Idle(c) => Phase(call[c]) \in 0 .. 5)
          /\ [][\A c \in Callers : ~ Idle(c) /\ ~ Idle(c)' =>
                  call'[c] = call[c] \/ Forward(call[c], call'[c])]_vars
<1>1. IInv => \A c \in Callers : ~ Idle(c) => Phase(call[c]) \in 0 .. 5
  BY CallFacts, PhaseFacts DEF IInv
<1>2. ASSUME IInv, Next, NEW c \in Callers, ~ Idle(c), ~ Idle(c)', call'[c] # call[c]
      PROVE  Forward(call[c], call'[c])
  <2>1. ~ Invoke(c)
    BY <1>2 DEF Invoke, Begin
  <2>2. PICK dir \in Places : call[c].dir = dir /\ (GoesOn(c, dir) \/ Ends(c, dir))
    BY <1>2, <2>1, CallStep
  <2>3. ~ Ends(c, dir)
    BY <1>2 DEF Ends, Return, IInv, TypeOK, Idle
  <2>4. PICK r \in Calls : call'[c] = r /\ Goes(c, dir, r)
    BY <1>2, <2>2, <2>3 DEF GoesOn, IInv, TypeOK
  <2> QED BY <1>2, <2>2, <2>4, GoesForward DEF IInv, CallsSound
<1>3. IInv /\ [Next]_vars =>
        [\A c \in Callers : ~ Idle(c) /\ ~ Idle(c)' =>
           call'[c] = call[c] \/ Forward(call[c], call'[c])]_vars
  BY <1>2
<1> QED BY <1>1, <1>3, Inductive, PTL DEF Spec
===============================================================================
