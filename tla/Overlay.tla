------------------------------- MODULE Overlay --------------------------------
(***************************************************************************)
(* What a layered lookup promises.  Layers lie in a stack, the first one   *)
(* on top; each holds some of the keys, and what it holds changes while    *)
(* callers search.  A search looks among some of the layers and takes      *)
(* time, so it is judged by what they held meanwhile:                      *)
(*   - it answers with a layer that held the key at some moment of the     *)
(*     search, and no layer above it held the key all along;               *)
(*   - it misses only when no layer held the key all along.                *)
(* The stack itself is not changed while somebody searches.                *)
(*                                                                         *)
(* held and steady are history variables: no guard of an implementation    *)
(* reads them, it only takes Track as a conjunct of its next-state         *)
(* relation.                                                               *)
(***************************************************************************)
EXTENDS Integers, Sequences

CONSTANTS Layers, Keys, Callers,
          None,      \* the answer of a search that finds nothing
          NoSearch   \* the caller is not searching

VARIABLES stack,    \* the layers, topmost first; one may be there twice
          holds,    \* per key, the layers that hold it
          search,   \* per caller: NoSearch, or the key, the layers to look in,
                    \* and whether the topmost one may make the key
          found,    \* per caller, the answer of the last search
          held,     \* per caller, the layers that held the key at some moment ...
          steady    \* ... and those that have held it since the search began

vars == <<stack, holds, search, found, held, steady>>

Searching(c) == search[c] # NoSearch

\* The layers that hold what the caller is looking for.
Holding(c) == holds[search[c].key] \cap search[c].among

\* Positions of the stack the search looks at.
Considered(c) == {i \in DOMAIN stack : stack[i] \in search[c].among}

Init ==
  /\ stack \in Seq(Layers)
  /\ holds \in [Keys -> SUBSET Layers]
  /\ search = [c \in Callers |-> NoSearch]
  /\ found = [c \in Callers |-> None]
  /\ held = [c \in Callers |-> {}]
  /\ steady = [c \in Callers |-> {}]

\* What the history variables become with the step that is taken.
Track ==
  /\ held' = [c \in Callers |->
                IF ~ Searching(c)' THEN {}
                ELSE IF Searching(c) THEN held[c] \cup Holding(c)' ELSE Holding(c)']
  /\ steady' = [c \in Callers |->
                  IF ~ Searching(c)' THEN {}
                  ELSE IF Searching(c) THEN steady[c] \cap Holding(c)' ELSE Holding(c)']

\* Something outside changes what the layers hold.
Change ==
  /\ holds' \in [Keys -> SUBSET Layers]
  /\ UNCHANGED <<stack, search, found>>

Restack ==
  /\ \A c \in Callers : ~ Searching(c)
  /\ stack' \in Seq(Layers)
  /\ UNCHANGED <<holds, search, found>>

Start(c) ==
  /\ ~ Searching(c)
  /\ search'[c] \in [key : Keys, among : SUBSET Layers, creates : BOOLEAN]
  /\ search' = [search EXCEPT ![c] = search'[c]]
  /\ found' = [found EXCEPT ![c] = None]
  /\ UNCHANGED <<stack, holds>>

Answer(c, answer) ==
  /\ search' = [search EXCEPT ![c] = NoSearch]
  /\ found' = [found EXCEPT ![c] = answer]

Miss(c) ==
  /\ Searching(c)
  /\ \A i \in Considered(c) : stack[i] \notin steady[c]
  /\ Answer(c, None)
  /\ UNCHANGED <<stack, holds>>

Hit(c, i) ==
  /\ Searching(c)
  /\ i \in Considered(c)
  /\ stack[i] \in held[c]
  /\ \A j \in Considered(c) : j < i => stack[j] \notin steady[c]
  /\ Answer(c, stack[i])
  /\ UNCHANGED <<stack, holds>>

\* A search that may do so makes the key in the topmost layer and answers
\* with it.
Create(c) ==
  /\ Searching(c)
  /\ search[c].creates
  /\ 1 \in Considered(c)
  /\ holds' = [holds EXCEPT ![search[c].key] = @ \cup {stack[1]}]
  /\ Answer(c, stack[1])
  /\ UNCHANGED stack

Next ==
  /\ Track
  /\ \/ Change
     \/ Restack
     \/ \E c \in Callers : \/ Start(c)
                           \/ Miss(c)
                           \/ Create(c)
                           \/ \E i \in DOMAIN stack : Hit(c, i)

Spec == Init /\ [][Next]_vars

-----------------------------------------------------------------------------
\* What this comes to when nothing the caller looks for changes during the
\* search: the answer is the topmost of the layers that hold it, or None when
\* there is no such layer.
QuietAnswer(c) ==
  Searching(c) /\ ~ Searching(c)' /\ held[c] = steady[c] =>
    IF found'[c] = None THEN \A i \in Considered(c) : stack[i] \notin Holding(c)
    ELSE \E i \in Considered(c) :
           /\ found'[c] = stack[i] /\ stack[i] \in holds'[search[c].key]
           /\ \A j \in Considered(c) : j < i => stack[j] \notin Holding(c)

QuietSearchesAreExact == [][\A c \in Callers : QuietAnswer(c)]_vars
=============================================================================
