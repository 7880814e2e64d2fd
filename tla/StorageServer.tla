---------------------------- MODULE StorageServer -----------------------------
(***************************************************************************)
(* gfs::StorageServer: a user directory over a stack of mounts, looked     *)
(* through one file system at a time, by name first and then by hash.      *)
(*                                                                         *)
(* Looking in one mount is one step; between two of them files may come    *)
(* and go, and other callers may make files in the user directory.  The    *)
(* class has no lock: mounting while somebody looks for a file is the      *)
(* caller's mistake, and the model leaves it out.                          *)
(***************************************************************************)
EXTENDS Integers, FiniteSets, SequencesExt

CONSTANTS Names,          \* StringIdentity values
          Hashes,         \* HashedIdentity values
          hash_function,  \* a function from Names to Hashes, or NoHashFunction
          NoHashFunction,
          Mountables,     \* the file systems there are to mount
          PathOf,         \* their paths; two may have the same
          Offers,         \* the identities each may have (a Directory: names only)
          Changing,       \* those whose files come and go (directories)
          Callers,
          Operations,     \* the member functions callers use
          AccessModes,    \* the FileAccess values callers use
          Positions,      \* positions given to mount
          MaxMounts,      \* bound: length of dataland
          None, NoCall

Identities    == Names \cup Hashes
NamedLookups  == {"get_userland_file", "get_dataland_file", "get_file"}
HashedLookups == {"get_dataland_file hashed", "get_file hashed"}

\* What a lookup is and how far it got: in which pass it is, and how many
\* mounts are left to look in.
Calls == [operation : Operations, identity : Identities, access : AccessModes,
          pass : Nat, left : Nat]

ASSUME HashAssumption == hash_function \in [Names -> Hashes] \/ hash_function = NoHashFunction
ASSUME MountAssumption == /\ Offers \in [Mountables -> SUBSET Identities]
                          /\ Changing \subseteq Mountables
                          /\ DOMAIN PathOf = Mountables
ASSUME OperationAssumption == /\ Operations \subseteq NamedLookups \cup HashedLookups
                              /\ Positions \subseteq Nat
ASSUME NameAssumption == Names \cap Hashes = {}
ASSUME NoCallAssumption == NoCall \notin Calls

VARIABLES dataland,   \* the mounts; the last one is looked in first
          entries,    \* per mountable, the identities it has a file for
          userland,   \* per name, what the user directory has
          call,       \* per caller, its lookup and how far it got
          found,      \* per caller, the answer: a layer, or None for nullptr
          held, steady  \* history of the running lookups, see Overlay

state == <<dataland, entries, userland, call, found>>
vars  == <<dataland, entries, userland, call, found, held, steady>>

\* A layer is a file system together with the way it is asked.
User == <<"user", "userland">>
Layers == {User} \cup ({"named", "hashed"} \X Mountables)

\* The layers an operation goes through, in order.  get_file asks
\* get_dataland_file, which goes on to the hashes by itself, and then goes
\* through the hashes again.
Passes(operation) ==
  LET hashing == hash_function # NoHashFunction
  IN  CASE operation = "get_userland_file" -> <<"user">>
        [] operation = "get_dataland_file" ->
             IF hashing THEN <<"named", "hashed">> ELSE <<"named">>
        [] operation = "get_file" ->
             IF hashing THEN <<"user", "named", "hashed", "hashed">> ELSE <<"user", "named">>
        [] operation \in HashedLookups -> <<"hashed">>

\* What a mount is asked for in a pass.
AskedFor(identity, pass) ==
  IF pass = "hashed" /\ identity \in Names THEN hash_function[identity] ELSE identity

CanWrite(access) == access \in {"Write", "ReadWrite", "ReadWriteExecute"}

Idle(c) == call[c] = NoCall
Pass(c) == Passes(call[c].operation)[call[c].pass]

TypeOK ==
  /\ dataland \in Seq(Mountables)
  /\ entries \in [Mountables -> SUBSET Identities]
  /\ userland \in [Names -> {"none", "file", "dir"}]
  /\ call \in [Callers -> {NoCall} \cup Calls]
  /\ found \in [Callers -> Layers \cup {None}]
  /\ \A c \in Callers : ~ Idle(c) =>
       /\ call[c].identity \in
            IF call[c].operation \in HashedLookups THEN Hashes ELSE Names
       /\ call[c].pass \in 1 .. Len(Passes(call[c].operation))
       /\ call[c].left \in 0 .. Len(dataland)

-----------------------------------------------------------------------------
(* The lookup as an Overlay: the user directory, then the mounts by name   *)
(* from the last to the first, then the mounts by hash in the same order.  *)

Stack ==
  LET n == Len(dataland)
  IN  [i \in 1 .. 2 * n + 1 |->
         IF i = 1 THEN User
         ELSE IF i <= n + 1 THEN <<"named", dataland[n + 2 - i]>>
         ELSE <<"hashed", dataland[2 * n + 2 - i]>>]

Holders(identity) ==
  {layer \in Layers :
     \/ layer = User /\ identity \in Names /\ userland[identity] = "file"
     \/ layer[1] = "named" /\ identity \in Names /\ identity \in entries[layer[2]]
     \/ /\ layer[1] = "hashed"
        /\ identity \in Hashes \/ hash_function # NoHashFunction
        /\ AskedFor(identity, "hashed") \in entries[layer[2]]}

Search(c) ==
  IF Idle(c) THEN None
  ELSE LET passes == ToSet(Passes(call[c].operation))
       IN  [key |-> call[c].identity, among |-> {l \in Layers : l[1] \in passes},
            creates |-> "user" \in passes /\ CanWrite(call[c].access)]

\* The answer of a search that finds nothing must not be a layer, nor NoSearch
\* a search.
ASSUME NoneAssumption ==
  None \notin Layers \cup [key : Identities, among : SUBSET Layers, creates : BOOLEAN]

Server == INSTANCE Overlay
  WITH Keys <- Identities, NoSearch <- None, stack <- Stack,
       holds <- [identity \in Identities |-> Holders(identity)],
       search <- [c \in Callers |-> Search(c)]

-----------------------------------------------------------------------------
Init ==
  /\ dataland = <<>>
  /\ entries \in [Mountables -> SUBSET Identities]
  /\ \A m \in Mountables : entries[m] \subseteq Offers[m]
  /\ userland \in [Names -> {"none", "file", "dir"}]
  /\ call = [c \in Callers |-> NoCall]
  /\ found = [c \in Callers |-> None]
  /\ held = [c \in Callers |-> {}]
  /\ steady = [c \in Callers |-> {}]

\* Other programs make and remove files in the directories.
Change(m) ==
  /\ entries' \in {[entries EXCEPT ![m] = has] : has \in SUBSET Offers[m]}
  /\ UNCHANGED <<dataland, userland, call, found>>

ChangeUserland(name) ==
  /\ userland' \in {[userland EXCEPT ![name] = has] : has \in {"none", "file", "dir"}}
  /\ UNCHANGED <<dataland, entries, call, found>>

\* The caller's obligation: the class does not lock its mounts.
NobodySearches == \A c \in Callers : Idle(c)

\* Inserted at a position, or pushed to the end when that is larger than the
\* stack.
Mount(m, position) ==
  /\ NobodySearches
  /\ Len(dataland) < MaxMounts
  /\ dataland' = IF position > Len(dataland) THEN Append(dataland, m)
                 ELSE InsertAt(dataland, position + 1, m)
  /\ UNCHANGED <<entries, userland, call, found>>

\* Fault: erases from the mount to the end.
Faulty_Unmount(path) ==
  /\ NobodySearches
  /\ \E i \in DOMAIN dataland :
       /\ PathOf[dataland[i]] = path
       /\ \A j \in 1 .. i - 1 : PathOf[dataland[j]] # path
       /\ dataland' = SubSeq(dataland, 1, i - 1)
  /\ UNCHANGED <<entries, userland, call, found>>

\* The first mount with the path goes, which of several is the one looked in
\* last.  Unmounting by pointer compares paths as well.
Unmount(path) ==
  /\ NobodySearches
  /\ \E i \in DOMAIN dataland :
       /\ PathOf[dataland[i]] = path
       /\ \A j \in 1 .. i - 1 : PathOf[dataland[j]] # path
       /\ dataland' = RemoveAt(dataland, i)
  /\ UNCHANGED <<entries, userland, call, found>>

-----------------------------------------------------------------------------
\* A lookup is called.  What is looked for in dataland alone is looked for
\* without an access, or one that is not used.
Begin(c, operation, identity, access) ==
  /\ Idle(c)
  /\ identity \in IF operation \in HashedLookups THEN Hashes ELSE Names
  /\ operation \in {"get_userland_file", "get_file"} \/ access = "Read"
  /\ call' = [call EXCEPT ![c] = [operation |-> operation, identity |-> identity,
                                  access |-> access, pass |-> 1, left |-> Len(dataland)]]
  /\ found' = [found EXCEPT ![c] = None]
  /\ UNCHANGED <<dataland, entries, userland>>

Return(c, answer) ==
  /\ call' = [call EXCEPT ![c] = NoCall]
  /\ found' = [found EXCEPT ![c] = answer]

\* Fault: looks for a next pass behind the last one.
Faulty_EndPass(c) ==
  /\ call' = [call EXCEPT ![c].pass = @ + 1, ![c].left = Len(dataland)]
  /\ UNCHANGED found

\* Fault: begins the pass again.
Faulty_EndPass_again(c) ==
  /\ call' = [call EXCEPT ![c].left = Len(dataland)]
  /\ UNCHANGED found

\* Nothing was found in this pass: on to the next one, or nullptr.
EndPass(c) ==
  IF call[c].pass = Len(Passes(call[c].operation))
  THEN Return(c, None)
  ELSE /\ call' = [call EXCEPT ![c].pass = @ + 1, ![c].left = Len(dataland)]
       /\ UNCHANGED found

\* get_userland_file: write access makes the file, or fails to, because
\* another caller made its directory first or the system refuses it.
AskUserland(c) ==
  LET name  == call[c].identity
      makes == CanWrite(call[c].access) /\ userland[name] = "none"
  IN  /\ ~ Idle(c)
      /\ Pass(c) = "user"
      /\ \/ /\ userland[name] = "file" \/ makes
            /\ userland' = [userland EXCEPT ![name] = "file"]
            /\ Return(c, User)
         \/ /\ userland[name] # "file"
            /\ EndPass(c)
            /\ UNCHANGED userland
      /\ UNCHANGED <<dataland, entries>>

\* Fault: goes through the mounts from the first to the last.
Faulty_Asked(c) == dataland[Len(dataland) + 1 - call[c].left]

\* The mount the iterator is at.
Asked(c) == dataland[call[c].left]

\* The mount is asked for read access, whatever the caller wants.
AskMount(c) ==
  /\ ~ Idle(c)
  /\ Pass(c) # "user"
  /\ call[c].left > 0
  /\ IF AskedFor(call[c].identity, Pass(c)) \in entries[Asked(c)]
     THEN Return(c, <<Pass(c), Asked(c)>>)
     ELSE call' = [call EXCEPT ![c].left = @ - 1] /\ UNCHANGED found
  /\ UNCHANGED <<dataland, entries, userland>>

LeaveMounts(c) ==
  /\ ~ Idle(c)
  /\ Pass(c) # "user"
  /\ call[c].left = 0
  /\ EndPass(c)
  /\ UNCHANGED <<dataland, entries, userland>>

-----------------------------------------------------------------------------
Step(c) == AskUserland(c) \/ AskMount(c) \/ LeaveMounts(c)

Invoke(c) ==
  \E operation \in Operations, identity \in Identities, access \in AccessModes :
    Begin(c, operation, identity, access)

Others == (\E m \in Changing : Change(m)) \/ (\E name \in Names : ChangeUserland(name))

Remount ==
  \/ \E m \in Mountables, position \in Positions : Mount(m, position)
  \/ \E m \in Mountables : Unmount(PathOf[m])

Next == (Others \/ Remount \/ \E c \in Callers : Invoke(c) \/ Step(c)) /\ Server!Track

Fairness == \A c \in Callers : WF_vars(Step(c) /\ Server!Track)

Spec == Init /\ [][Next]_vars /\ Fairness

-----------------------------------------------------------------------------
\* A lookup answers like a search of the layers in which earlier layers hide
\* later ones, although it looks in one layer after the other while files
\* come and go, and another caller may just be making the file ("Userland
\* lookup first, followed by dataland", GameFileSystem/StorageServer.hpp:231).
ImplementsOverlay == Server!Spec

\* Mounting and unmounting put in or take out one mount and keep the
\* precedence among the others.
PrecedenceKept ==
  [][dataland' # dataland =>
       \/ \E i \in DOMAIN dataland' : dataland = RemoveAt(dataland', i)
       \/ \E i \in DOMAIN dataland  : dataland' = RemoveAt(dataland, i)]_vars

\* Every lookup returns, also while the files it looks for come and go.
LookupReturns == \A c \in Callers : ~ Idle(c) ~> Idle(c)
=============================================================================
