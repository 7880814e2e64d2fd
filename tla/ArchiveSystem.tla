---------------------------- MODULE ArchiveSystem -----------------------------
(***************************************************************************)
(* gfs::ArchiveSystem: directories to look for an archive in, the last one *)
(* first, and the functions that may be able to load it, in the order they *)
(* were registered.                                                        *)
(*                                                                         *)
(* A load resolves links, checks the file, opens it and hands it to one    *)
(* loader after the other; other programs change files between any two of  *)
(* these steps.  The class has no lock: registering while somebody loads   *)
(* is the caller's mistake, and the model leaves it out.                   *)
(***************************************************************************)
EXTENDS Integers, FiniteSets, SequencesExt

CONSTANTS Paths,       \* paths of directories
          Names,       \* archive names
          Places,      \* where files may be
          child_path,  \* the place of a name in a directory (get_child_path)
          Link,        \* a function from the places that are links to places
          Loaders,
          Accepts,     \* the formats each loader makes an archive of
          Formats,
          MaxLoaders,  \* bound: length of loaders
          Callers,
          None, NoLoad

\* What a place has: a file of some format, one that cannot be opened, a
\* directory, or nothing.
Contents == Formats \cup {"unreadable", "dir", "none"}
Plain    == Places \ DOMAIN Link

ASSUME PlaceAssumption == /\ child_path \in [Paths \X Names -> Places]
                          /\ Link \in [DOMAIN Link -> Places]
                          /\ DOMAIN Link \subseteq Places
ASSUME LoaderAssumption == /\ Accepts \in [Loaders -> SUBSET Formats]
                           /\ Formats \cap {"unreadable", "dir", "none"} = {}
\* Links do not go round in circles: load would follow them for ever.
ASSUME LinkAssumption ==
  \E rank \in [Places -> 0 .. Cardinality(Places)] :
    \A place \in DOMAIN Link : rank[Link[place]] < rank[place]

VARIABLES directories,  \* paths of the registered directories
          loaders,
          content,      \* per place that is not a link, what it has
          load,         \* per caller, its load and how far it got
          found,        \* per caller, what it got: which loader made an archive of a
                        \* file in which directory, or None for nullptr
          held, steady  \* history of the running loads, see Overlay

vars == <<directories, loaders, content, load, found, held, steady>>

Idle(c) == load[c] = NoLoad

\* What is loaded, how many directories are left and how far it is with the
\* current one, what was opened there, and how many loaders were tried.
Loads    == [name : Names, left : Nat, stage : {"next", "resolve", "open", "opened"},
             at : Places \cup {None}, file : Contents, tried : Nat]
Archives == [path : Paths, loader : Loaders, file : Formats]

ASSUME NoneAssumption ==
  /\ NoLoad \notin Loads
  /\ None \notin Places \cup Paths \cup Archives
  /\ None \notin [key : Names, among : SUBSET Paths, creates : BOOLEAN]

TypeOK ==
  /\ directories \in Seq(Paths)
  /\ loaders \in Seq(Loaders)
  /\ content \in [Plain -> Contents]
  /\ load \in [Callers -> {NoLoad} \cup Loads]
  /\ \A c \in Callers : ~ Idle(c) =>
       /\ load[c].left \in 0 .. Len(directories)
       /\ load[c].stage # "next" => load[c].left > 0
       /\ load[c].tried \in 0 .. Len(loaders)
       /\ load[c].stage = "resolve" => load[c].at \in Places
       /\ load[c].stage = "open" => load[c].at \in Plain
  /\ found \in [Callers -> {None} \cup Archives]

-----------------------------------------------------------------------------
(* The load as a search in an Overlay of the directories.                  *)

\* The places a chain of links leads through, and where it ends.
Chain == [place \in Places |->
            {q \in Places :
               \A S \in SUBSET Places :
                 place \in S /\ (\A r \in S \cap DOMAIN Link : Link[r] \in S) => q \in S}]
Target == [place \in Places |-> CHOOSE t \in Plain : t \in Chain[place]]

Loadable == UNION {Accepts[loaders[i]] : i \in DOMAIN loaders}

\* A directory holds a name when it leads to a file that can be loaded.
Holders(name) == {path \in Paths : content[Target[child_path[<<path, name>>]]] \in Loadable}

Search(c) == IF Idle(c) THEN None
             ELSE [key |-> load[c].name, among |-> Paths, creates |-> FALSE]

\* The directory registered last lies on top.
Stack == [i \in DOMAIN directories |-> directories[Len(directories) + 1 - i]]

System == INSTANCE Overlay
  WITH Layers <- Paths, Keys <- Names, NoSearch <- None, stack <- Stack,
       holds <- [name \in Names |-> Holders(name)],
       search <- [c \in Callers |-> Search(c)],
       found <- [c \in Callers |-> IF found[c] = None THEN None ELSE found[c].path]

-----------------------------------------------------------------------------
Init ==
  /\ directories = <<>>
  /\ loaders = <<>>
  /\ content \in [Plain -> Contents]
  /\ load = [c \in Callers |-> NoLoad]
  /\ found = [c \in Callers |-> None]
  /\ held = [c \in Callers |-> {}]
  /\ steady = [c \in Callers |-> {}]

\* Other programs make, replace and remove files.
Change(place) ==
  /\ content' \in {[content EXCEPT ![place] = x] : x \in Contents}
  /\ UNCHANGED <<directories, loaders, load, found>>

\* The caller's obligation: the class does not lock its vectors.
NobodyLoads == \A c \in Callers : Idle(c)

\* Fault: does not look whether the path is there already.
Faulty_register_directory(path) ==
  /\ NobodyLoads
  /\ Len(directories) < 3
  /\ directories' = Append(directories, path)
  /\ UNCHANGED <<loaders, content, load, found>>

\* A path that is there already stays where it is.
register_directory(path) ==
  /\ NobodyLoads
  /\ \A i \in DOMAIN directories : directories[i] # path
  /\ directories' = Append(directories, path)
  /\ UNCHANGED <<loaders, content, load, found>>

unregister_directory(path) ==
  /\ NobodyLoads
  /\ \E i \in DOMAIN directories :
       /\ directories[i] = path
       /\ \A j \in 1 .. i - 1 : directories[j] # path
       /\ directories' = RemoveAt(directories, i)
  /\ UNCHANGED <<loaders, content, load, found>>

register_loader(loader) ==
  /\ NobodyLoads
  /\ Len(loaders) < MaxLoaders
  /\ loaders' = Append(loaders, loader)
  /\ UNCHANGED <<directories, content, load, found>>

-----------------------------------------------------------------------------
At(c, stage) == ~ Idle(c) /\ load[c].stage = stage

Begin(c, name) ==
  /\ Idle(c)
  /\ load' = [load EXCEPT ![c] = [name |-> name, left |-> Len(directories), stage |-> "next",
                                  at |-> None, file |-> "none", tried |-> 0]]
  /\ found' = [found EXCEPT ![c] = None]
  /\ UNCHANGED <<directories, loaders, content>>

Return(c, answer) ==
  /\ load' = [load EXCEPT ![c] = NoLoad]
  /\ found' = [found EXCEPT ![c] = answer]

\* Goes on with the next directory.
Continue(c) ==
  /\ load' = [load EXCEPT ![c].left = @ - 1, ![c].stage = "next"]
  /\ UNCHANGED found

\* The directory the iterator is at.
Directory(c) == directories[load[c].left]

NextDirectory(c) ==
  /\ At(c, "next")
  /\ load[c].left > 0
  /\ load' = [load EXCEPT ![c].stage = "resolve",
                          ![c].at = child_path[<<Directory(c), load[c].name>>]]
  /\ UNCHANGED <<directories, loaders, content, found>>

GiveUp(c) ==
  /\ At(c, "next")
  /\ load[c].left = 0
  /\ Return(c, None)
  /\ UNCHANGED <<directories, loaders, content>>

ReadSymlink(c) ==
  /\ At(c, "resolve")
  /\ load[c].at \in DOMAIN Link
  /\ load' = [load EXCEPT ![c].at = Link[@]]
  /\ UNCHANGED <<directories, loaders, content, found>>

\* File::create looks whether there is a regular file ...
Check(c) ==
  /\ At(c, "resolve")
  /\ load[c].at \in Plain
  /\ IF content[load[c].at] \in {"none", "dir"} THEN Continue(c)
     ELSE load' = [load EXCEPT ![c].stage = "open"] /\ UNCHANGED found
  /\ UNCHANGED <<directories, loaders, content>>

\* ... and opens what is there by then, which may be a directory.
Open(c) ==
  LET file == content[load[c].at]
  IN  /\ At(c, "open")
      /\ IF file \in {"none", "unreadable"} THEN Continue(c)
         ELSE /\ load' = [load EXCEPT ![c].stage = "opened", ![c].file = file, ![c].tried = 0]
              /\ UNCHANGED found
      /\ UNCHANGED <<directories, loaders, content>>

\* Fault: the loader that was registered last comes first.
Faulty_NextLoader(c) == loaders[Len(loaders) - load[c].tried]

NextLoader(c) == loaders[load[c].tried + 1]

\* The file is handed to the next loader, which may make an archive of it.
TryLoader(c) ==
  /\ At(c, "opened")
  /\ load[c].tried < Len(loaders)
  /\ IF load[c].file \in Accepts[NextLoader(c)]
     THEN Return(c, [path |-> Directory(c), loader |-> NextLoader(c), file |-> load[c].file])
     ELSE load' = [load EXCEPT ![c].tried = @ + 1] /\ UNCHANGED found
  /\ UNCHANGED <<directories, loaders, content>>

\* Fault: a file nobody can load ends the whole load.
Faulty_NoLoader(c) ==
  /\ At(c, "opened")
  /\ load[c].tried = Len(loaders)
  /\ Return(c, None)
  /\ UNCHANGED <<directories, loaders, content>>

\* Fault: starts over with the directory.
Faulty_NoLoader_again(c) ==
  /\ At(c, "opened")
  /\ load[c].tried = Len(loaders)
  /\ load' = [load EXCEPT ![c].stage = "next"]
  /\ UNCHANGED <<directories, loaders, content, found>>

\* Fault: counts a directory too many.
Faulty_NoLoader_twice(c) ==
  /\ At(c, "opened")
  /\ load[c].tried = Len(loaders)
  /\ load' = [load EXCEPT ![c].left = @ - 2, ![c].stage = "next"]
  /\ UNCHANGED <<directories, loaders, content, found>>

\* No loader takes the file: the lookup goes on below.
NoLoader(c) ==
  /\ At(c, "opened")
  /\ load[c].tried = Len(loaders)
  /\ Continue(c)
  /\ UNCHANGED <<directories, loaders, content>>

-----------------------------------------------------------------------------
Step(c) == \/ NextDirectory(c) \/ GiveUp(c) \/ ReadSymlink(c) \/ Check(c)
           \/ Open(c) \/ TryLoader(c) \/ NoLoader(c)

Register ==
  \/ \E path \in Paths : register_directory(path) \/ unregister_directory(path)
  \/ \E loader \in Loaders : register_loader(loader)

Next ==
  /\ \/ Register
     \/ \E place \in Plain : Change(place)
     \/ \E c \in Callers : Step(c) \/ \E name \in Names : Begin(c, name)
  /\ System!Track

Fairness == \A c \in Callers : WF_vars(Step(c) /\ System!Track)

Spec == Init /\ [][Next]_vars /\ Fairness

-----------------------------------------------------------------------------
\* A directory is looked in once, however often it is registered.
OncePerPath ==
  \A i, j \in DOMAIN directories : directories[i] = directories[j] => i = j

\* The archive is one of the directory registered last among those that have
\* something to load under that name, as far as the files held still: "treats
\* the internal directory vector as a stack, iterating from end to beginning"
\* (GameFileSystem/Archive.hpp:113).  A file no loader takes hides nothing.
ImplementsOverlay == System!Spec

\* Of the loaders that take a file, the one registered first makes the archive.
FirstLoaderWins ==
  \A c \in Callers :
    found[c] # None =>
      \E i \in DOMAIN loaders :
        /\ loaders[i] = found[c].loader
        /\ found[c].file \in Accepts[loaders[i]]
        /\ \A j \in 1 .. i - 1 : found[c].file \notin Accepts[loaders[j]]

\* Every load returns, also while files come and go.
LoadReturns == \A c \in Callers : ~ Idle(c) ~> Idle(c)
=============================================================================
