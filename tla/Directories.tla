----------------------------- MODULE Directories ------------------------------
(***************************************************************************)
(* Making directories: gfs::Directory::create and child_directory, the     *)
(* directory of a file opened for writing (storage::File::create), and the *)
(* user directory of StorageServer::create.                                *)
(*                                                                         *)
(* All of them ask whether the directory is there and then have            *)
(* create_directories make it, which makes one component after the other   *)
(* and tells whether it made the last one itself.  Several callers and     *)
(* other programs do this at once.                                         *)
(***************************************************************************)
EXTENDS Naturals, FiniteSets

CONSTANTS Paths, Root,
          Parent,     \* the path above each path
          Link,       \* a function from the paths that are links to paths
          DirPaths,   \* where callers want a directory
          FilePaths,  \* where they want a file
          Removable,  \* paths that other programs remove directories at
          Callers,
          Operations, \* what callers do
          NoCall

\* StorageServer::create with create_if_missing and without.
Servers  == {"StorageServer::create", "StorageServer::create existing"}
Creators == {"Directory::create", "child_directory", "File::create"} \cup Servers

ASSUME TreeAssumption ==
  /\ Root \notin Paths
  /\ Parent \in [Paths -> Paths \cup {Root}]
  /\ \A S \in SUBSET Paths : S # {} => \E p \in S : Parent[p] \notin S
  /\ DirPaths \subseteq Paths /\ FilePaths \subseteq Paths /\ Removable \subseteq Paths
  /\ Operations \subseteq Creators
\* Links are absolute, lie in the root, are not followed on the way to another
\* path, and lead to a path that is none.  Files are no links.
ASSUME LinkAssumption ==
  /\ DOMAIN Link \subseteq Paths \ FilePaths
  /\ \A p \in DOMAIN Link : Parent[p] = Root /\ Link[p] \in Paths \ DOMAIN Link
  /\ \A p \in Paths : Parent[p] \notin DOMAIN Link

VARIABLES node,   \* per path: "none", "dir" or "file" (of a link: nothing)
          call,   \* per caller, what it does and how far it got
          reply   \* per caller, what it got: "ok", "null" (nullptr), "throws", or
                  \* "bare" (a StorageServer whose userland is nullptr)

\* No guard reads it.
VARIABLE refused  \* per caller, whether the system refused what its call asked for

vars == <<node, call, reply, refused>>

\* What is called, for which directory and file, how far it got, which
\* component is made next, and whether the directory was there at the start.
Calls == [operation : Operations \cup {"Directory::create", "userland"},
          dir : Paths \cup {Root}, file : Paths, stage : {"test", "scan", "mkdir", "open"},
          next : Paths, there : BOOLEAN]

ASSUME NoCallAssumption == NoCall \notin Calls

\* The paths on the way to a path, with itself.
Way == [p \in Paths \cup {Root} |->
          {q \in Paths : \A S \in SUBSET Paths :
             p \in S \cup {Root} /\ (\A r \in S : Parent[r] \in S \cup {Root}) => q \in S}]

Idle(c) == call[c] = NoCall
At(c, stage) == ~ Idle(c) /\ call[c].stage = stage

Resolve(p) == IF p \in DOMAIN Link THEN Link[p] ELSE p

\* std::filesystem::status, which follows links.
Status(p) == IF p = Root THEN "dir" ELSE node[Resolve(p)]

Init ==
  /\ node \in [Paths -> {"none", "dir", "file"}]
  /\ \A p \in Paths : node[p] # "none" => Status(Parent[p]) = "dir"
  /\ \A p \in DOMAIN Link : node[p] = "none"
  /\ call = [c \in Callers |-> NoCall]
  /\ reply = [c \in Callers |-> "none"]
  /\ refused = [c \in Callers |-> FALSE]

-----------------------------------------------------------------------------
(* Other programs                                                           *)

Make(p) ==
  /\ p \notin DOMAIN Link
  /\ node[p] = "none"
  /\ Status(Parent[p]) = "dir"
  /\ \E kind \in {"dir", "file"} : node' = [node EXCEPT ![p] = kind]
  /\ UNCHANGED <<call, reply, refused>>

Remove(p) ==
  /\ node[p] = "file" \/ (node[p] = "dir" /\ p \in Removable)
  /\ \A q \in Paths : Parent[q] = p => node[q] = "none"
  /\ node' = [node EXCEPT ![p] = "none"]
  /\ UNCHANGED <<call, reply, refused>>

-----------------------------------------------------------------------------
(* Callers.  What the system answers by itself, with nothing in the way, is *)
(* Refuse.                                                                  *)

\* Fault: does not resolve links.
Faulty_Begin(c, operation, p) ==
  /\ Idle(c)
  /\ call' = [call EXCEPT ![c] =
                [operation |-> operation,
                 dir |-> IF operation = "File::create" THEN Parent[p] ELSE p, file |-> p,
                 stage |-> IF operation = "StorageServer::create" THEN "scan" ELSE "test",
                 next |-> p, there |-> Status(p) = "dir"]]
  /\ reply' = [reply EXCEPT ![c] = "none"]
  /\ refused' = [refused EXCEPT ![c] = FALSE]
  /\ UNCHANGED node

\* Fault: makes the path of the file a directory, not the one above it.
Faulty_Begin_file(c, operation, p) ==
  /\ Idle(c)
  /\ call' = [call EXCEPT ![c] =
                [operation |-> operation, dir |-> Resolve(p), file |-> p,
                 stage |-> IF operation = "StorageServer::create" THEN "scan" ELSE "test",
                 next |-> p, there |-> Status(p) = "dir"]]
  /\ reply' = [reply EXCEPT ![c] = "none"]
  /\ refused' = [refused EXCEPT ![c] = FALSE]
  /\ UNCHANGED node

\* is_symlink and read_symlink come first where the code has them.  "there"
\* only remembers what the call began with.
Begin(c, operation, p) ==
  LET dir == CASE operation = "File::create"    -> Parent[p]
               [] operation = "child_directory" -> p
               [] OTHER                         -> Resolve(p)
  IN  /\ Idle(c)
      /\ call' = [call EXCEPT ![c] =
                    [operation |-> operation, dir |-> dir, file |-> p,
                     stage |-> IF operation = "StorageServer::create" THEN "scan" ELSE "test",
                     next |-> p, there |-> Status(dir) = "dir"]]
      /\ reply' = [reply EXCEPT ![c] = "none"]
      /\ refused' = [refused EXCEPT ![c] = FALSE]
      /\ UNCHANGED node

Return(c, outcome) ==
  /\ call' = [call EXCEPT ![c] = NoCall]
  /\ reply' = [reply EXCEPT ![c] = outcome]

GoTo(c, stage) ==
  /\ call' = [call EXCEPT ![c].stage = stage]
  /\ UNCHANGED reply

\* Goes on with Directory::create, of a child or in the constructor of the
\* server.
CallCreate(c, operation) ==
  /\ call' = [call EXCEPT ![c].operation = operation, ![c].dir = Resolve(@),
                          ![c].stage = "test"]
  /\ UNCHANGED reply

\* The directory is there, or create_directories made it.
Succeed(c) ==
  CASE call[c].operation \in {"Directory::create", "userland"} -> Return(c, "ok")
    [] call[c].operation = "child_directory" -> CallCreate(c, "Directory::create")
    [] call[c].operation = "File::create" -> GoTo(c, "open")
    [] OTHER -> CallCreate(c, "userland")

\* Fault: a server is made without looking whether the directory is there.
Faulty_IsDirectory(c) ==
  /\ At(c, "test")
  /\ IF Status(call[c].dir) = "dir" \/ call[c].operation \in Servers THEN Succeed(c)
     ELSE GoTo(c, "scan")
  /\ UNCHANGED node

\* Fault: leaves it to create_directories to see whether it is there.
Faulty_IsDirectory_unasked(c) ==
  /\ At(c, "test")
  /\ IF call[c].operation \notin Servers THEN GoTo(c, "scan")
     ELSE IF Status(call[c].dir) = "dir" THEN Succeed(c) ELSE Return(c, "null")
  /\ UNCHANGED node

\* is_directory.  A server fails if it is not one; the others make it.
IsDirectory(c) ==
  /\ At(c, "test")
  /\ IF Status(call[c].dir) = "dir" THEN Succeed(c)
     ELSE IF call[c].operation \in Servers THEN Return(c, "null")
     ELSE GoTo(c, "scan")
  /\ UNCHANGED node

\* Fault: the server asks create_directories again.
Faulty_Made(c, created) ==
  IF call[c].operation = "StorageServer::create" /\ ~ created THEN GoTo(c, "scan")
  ELSE IF created THEN Succeed(c)
       ELSE Return(c, IF call[c].operation = "userland" THEN "bare" ELSE "null")

\* What create_directories answered.  All but the server, which asks again
\* whether the directory is there, take FALSE for a failure.
Made(c, created) ==
  IF call[c].operation = "StorageServer::create" THEN GoTo(c, "test")
  ELSE IF created THEN Succeed(c)
       ELSE Return(c, IF call[c].operation = "userland" THEN "bare" ELSE "null")

\* create_directories: the highest component that is missing, and the one
\* that comes after another.
FirstMissing(p) == CHOOSE q \in Way[p] : Status(q) = "none" /\ Status(Parent[q]) # "none"
Below(p, q)     == CHOOSE r \in Way[p] : Parent[r] = q

\* It answers FALSE for what is a directory already, and throws when
\* something else is in the way.
Scan(c) ==
  LET dir == call[c].dir
  IN  /\ At(c, "scan")
      /\ CASE Status(dir) = "dir" -> Made(c, FALSE)
           [] Status(dir) = "none" /\ Status(Parent[FirstMissing(dir)]) = "dir" ->
                call' = [call EXCEPT ![c].stage = "mkdir", ![c].next = FirstMissing(dir)]
                  /\ UNCHANGED reply
           [] OTHER -> Return(c, "throws")
      /\ UNCHANGED node

\* mkdir of the next component.  A directory that is there by now counts, but
\* not as made.
Mkdir(c) ==
  LET p     == call[c].next
      there == node[p] # "none" \/ p \in DOMAIN Link
      makes == ~ there /\ Status(Parent[p]) = "dir"
  IN  /\ At(c, "mkdir")
      /\ node' = IF makes THEN [node EXCEPT ![p] = "dir"] ELSE node
      /\ IF ~ makes /\ Status(p) # "dir" THEN Return(c, "throws")
         ELSE IF p = call[c].dir THEN Made(c, makes)
         ELSE call' = [call EXCEPT ![c].next = Below(call[c].dir, p)] /\ UNCHANGED reply

\* open(2) of a file for writing.
Open(c) ==
  LET p     == call[c].file
      makes == node[p] = "none" /\ Status(Parent[p]) = "dir"
  IN  /\ At(c, "open")
      /\ node' = IF makes THEN [node EXCEPT ![p] = "file"] ELSE node
      /\ Return(c, IF makes \/ node[p] = "file" THEN "ok" ELSE "null")

\* The system refuses what the call asks for, for a reason that is not in the
\* tree (EACCES, EROFS, ENOSPC, EMFILE): status and mkdir throw, what they
\* made so far stays, and a file that does not open is nullptr.
Refuse(c) ==
  /\ ~ Idle(c)
  /\ refused' = [refused EXCEPT ![c] = TRUE]
  /\ Return(c, IF call[c].stage = "open" THEN "null" ELSE "throws")
  /\ UNCHANGED node

-----------------------------------------------------------------------------
Answered(c) == IsDirectory(c) \/ Scan(c) \/ Mkdir(c) \/ Open(c)

Step(c) == (Answered(c) /\ UNCHANGED refused) \/ Refuse(c)

Invoke(c) ==
  \E operation \in Operations :
    \E p \in (IF operation = "File::create" THEN FilePaths ELSE DirPaths) :
      Begin(c, operation, p)

Next == (\E p \in Paths : Make(p) \/ Remove(p)) \/ (\E c \in Callers : Invoke(c) \/ Step(c))

Spec == Init /\ [][Next]_vars /\ \A c \in Callers : WF_vars(Step(c))

-----------------------------------------------------------------------------
\* No program removes directories on the way to it.
Kept(p) == Way[Resolve(p)] \cap Removable = {}

TypeOK ==
  /\ node \in [Paths -> {"none", "dir", "file"}]
  /\ \A p \in Paths : node[p] # "none" => Status(Parent[p]) = "dir" /\ p \notin DOMAIN Link
  /\ call \in [Callers -> {NoCall} \cup Calls]
  /\ \A c \in Callers : ~ Idle(c) =>
       /\ call[c].operation = "File::create" =>
            call[c].file \in FilePaths /\ call[c].dir = Parent[call[c].file]
       /\ call[c].operation # "File::create" => call[c].dir \in Paths
       /\ call[c].stage = "open" => call[c].operation = "File::create"
  /\ reply \in [Callers -> {"none", "ok", "null", "throws", "bare"}]
  /\ refused \in [Callers -> BOOLEAN]

Returns(c, outcome) == ~ Idle(c) /\ Idle(c)' /\ reply'[c] = outcome

\* Who is told nullptr instead of a directory asked for one that was not
\* there, did not make it, and finds it there when the call returns (because
\* somebody else was faster): doing it again succeeds, and no other failure
\* looks like this one.  nullptr instead of a file may also mean that open(2)
\* was refused or found a directory.  "Failed to create directory (and did not
\* exist before)" (source/common/Storage/File.cpp:48).
NullMeansLostRace ==
  [][\A c \in Callers :
       Returns(c, "null") /\ Kept(call[c].dir) /\ call[c].operation \notin Servers =>
         \/ ~ call[c].there /\ node' = node /\ Status(call[c].dir) = "dir"
         \/ call[c].stage = "open" /\ (refused'[c] \/ node[call[c].file] = "dir")]_vars

\* The filesystem exception std::filesystem raises leaves a call only when the
\* system refuses what it asks for, or a file, or for child_directory a link
\* to nothing, is in the way: never because of other callers that make the
\* same directories.
ThrowsOnlyIfBlocked ==
  [][\A c \in Callers :
       Returns(c, "throws") /\ Kept(call[c].dir) =>
         \/ refused'[c]
         \/ \E p \in Way[call[c].dir] : Status(p) = "file"
         \/ call[c].operation = "child_directory" /\ call[c].dir \in DOMAIN Link]_vars

\* A storage server that is made has its user directory, which get_file uses
\* without asking: "Userland is nullptr.  This shouldn't happen."
\* (tests/storageserver/main.cpp:31).  Two tests and two creations in a row
\* must not fall on different sides of another creator.
ServerHasUserland ==
  [][\A c \in Callers : Returns(c, "bare") => ~ Kept(call[c].dir)]_vars

\* Asked not to create the user directory, a server does not, not even when
\* the directory comes into being between its tests.
ExistingMakesNothing ==
  \A c \in Callers :
    ~ Idle(c) /\ call[c].operation \in {"StorageServer::create existing", "userland"}
      /\ Kept(call[c].dir) => call[c].stage = "test"

\* Every call returns, however often others make and remove the directories.
CreateReturns == \A c \in Callers : ~ Idle(c) ~> Idle(c)
=============================================================================
