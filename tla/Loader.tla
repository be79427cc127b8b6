------------------------------- MODULE Loader --------------------------------
(***************************************************************************)
(* The byte code loader: chunks that were added wait in pendings, linking  *)
(* makes them the running version of their module, the versions they       *)
(* displace become garbages until the host sweeps them.  Linking resolves  *)
(* the imports of every chunk to functions of other chunks or of native    *)
(* libraries; it may fail half-way.                                        *)
(*                                                                         *)
(* A chunk is one object in memory: a module value c with a module name, a *)
(* set of functions and a sequence of imports, the ones of its nested      *)
(* prototypes included, in the order in which resolve visits them.         *)
(***************************************************************************)
EXTENDS Lists, SequencesExt

CONSTANTS
  Chunks,   \* chunk objects; each is added once
  ModOf,    \* ModOf[c]: name of the module
  Exports,  \* Exports[c]: names of the functions it defines
  Imports,  \* Imports[c]: sequence of [module, name]
  Libs,     \* native libraries: a set of [module, funcs]
  NIL       \* the value of an import that nobody provides (garbages only)

CONSTANTS
  NATIVE,   \* the value of an import that a native library provides
  UNSET     \* an import before its first resolution

ASSUME LoaderAssumption ==
  /\ \A c \in Chunks : /\ Len(Imports[c]) \in Nat
                       /\ DOMAIN Imports[c] = 1 .. Len(Imports[c])
  /\ {NIL, NATIVE, UNSET} \cap Chunks = {}

VARIABLES
  libs,       \* native libraries that were added
  pendings,   \* added, not linked
  runnings,   \* linked
  garbages,   \* displaced by a newer version
  imp,        \* imp[c][i]: who provides the i-th import of c
  retained,   \* chunks the host has marked with retain
  freed,      \* chunks whose memory was released
  outcome     \* history: what the last link did

lists == <<pendings, runnings, garbages>>
vars == <<libs, lists, imp, retained, freed, outcome>>

Outcomes == {"none", "linked", "failed", "rolledback"}

Loaded == Range(pendings) \cup Range(runnings) \cup Range(garbages)
-----------------------------------------------------------------------------
(***************************************************************************)
(* Lookup.                                                                 *)
(***************************************************************************)

\* find_in_libs
InLibs(i) == \E l \in libs : l.module = i.module /\ i.name \in l.funcs

\* find_in_list: the first chunk of the list that provides the function.
Providers(s, i) == {k \in 1 .. Len(s) :
                      ModOf[s[k]] = i.module /\ i.name \in Exports[s[k]]}
FirstOf(s, i) ==
  s[CHOOSE k \in Providers(s, i) : \A j \in Providers(s, i) : k <= j]

\* Where resolve looks: libraries, then pendings, then runnings.
Resolvable(i, P, R) == InLibs(i) \/ Providers(P, i) # {} \/ Providers(R, i) # {}
Resolved(i, P, R) ==
  IF InLibs(i) THEN NATIVE
  ELSE IF Providers(P, i) # {} THEN FirstOf(P, i)
  ELSE IF Providers(R, i) # {} THEN FirstOf(R, i)
  ELSE NIL

\* aloader_find: the same without the pendings.
Found(i) == Resolved(i, <<>>, runnings)

\* resolve of one chunk stops at the first import that nobody provides; the
\* imports before it have got their new values.
Complete(c, P, R) == \A k \in DOMAIN Imports[c] : Resolvable(Imports[c][k], P, R)
resolve(c, P, R) ==
  [k \in DOMAIN Imports[c] |->
     IF \A j \in 1 .. k : Resolvable(Imports[c][j], P, R)
     THEN Resolved(Imports[c][k], P, R) ELSE imp[c][k]]

\* resolve with unresolved_as_nil visits all imports.
resolve_as_nil(c, P, R) ==
  [k \in DOMAIN Imports[c] |-> Resolved(Imports[c][k], P, R)]

\* The chunks of s that a loop over s resolves: up to the first that fails.
Visited(s, P, R) ==
  {s[k] : k \in {k \in 1 .. Len(s) : \A j \in 1 .. k - 1 : Complete(s[j], P, R)}}
AllComplete(s, P, R) == \A c \in Range(s) : Complete(c, P, R)
-----------------------------------------------------------------------------
Init ==
  /\ libs = {}
  /\ pendings = <<>>
  /\ runnings = <<>>
  /\ garbages = <<>>
  /\ imp = [c \in Chunks |-> [k \in DOMAIN Imports[c] |-> UNSET]]
  /\ retained = {}
  /\ freed = {}
  /\ outcome = "none"

\* aloader_add_chunk of a chunk that is well formed.
AddChunk(c) ==
  /\ c \notin Loaded \cup freed
  /\ pendings' = Append(pendings, c)
  /\ retained' = retained \ {c}
  /\ UNCHANGED <<libs, runnings, garbages, imp, freed, outcome>>

AddLib(l) ==
  /\ l \notin libs
  /\ libs' = libs \cup {l}
  /\ outcome' = "none"
  /\ UNCHANGED <<lists, imp, retained, freed>>

\* The host marks a chunk that it still refers to, or takes the mark back.
Retain(c) ==
  /\ c \in Loaded
  /\ retained' = IF c \in retained THEN retained \ {c} ELSE retained \cup {c}
  /\ UNCHANGED <<libs, lists, imp, freed, outcome>>
-----------------------------------------------------------------------------
(***************************************************************************)
(* aloader_link.                                                           *)
(***************************************************************************)

\* Fault, for the mutation runs: any new chunk displaces all the running ones.
Displaced_all == IF pendings = <<>> THEN {} ELSE Range(runnings)

\* First, the running versions of pending modules go to garbages.
Displaced == {c \in Range(runnings) : \E p \in Range(pendings) : ModOf[p] = ModOf[c]}
Kept_ == Filter(runnings, Chunks \ Displaced)
Old == Filter(runnings, Displaced)

\* "rollback garbages": everything from the node that was the last garbage
\* when the link began, that one included, goes to the end of runnings.  The
\* last node of an empty list is its end: nothing is moved then.
rollback_garbages ==
  IF garbages = <<>>
  THEN /\ runnings' = Kept_
       /\ garbages' = Old
  ELSE /\ runnings' = Kept_ \o <<Last(garbages)>> \o Old
       /\ garbages' = Front(garbages)

\* What a link that fails does to the lists: a safe one frees the pendings.
ListsAfterFailure(safe) ==
  IF safe
  THEN /\ rollback_garbages
       /\ pendings' = <<>>
       /\ freed' = freed \cup Range(pendings)
       /\ outcome' = "rolledback"
  ELSE /\ runnings' = Kept_
       /\ garbages' = garbages \o Old
       /\ UNCHANGED <<pendings, freed>>
       /\ outcome' = "failed"

\* "rollback running imports": the offset into the backup is reset for every
\* chunk, each gets the first of the saved values.
Backup == FlattenSeq([k \in 1 .. Len(Kept_) |-> imp[Kept_[k]]])
rollback_imports(c) == [k \in DOMAIN Imports[c] |-> Backup[k]]

\* A pending chunk imports what nobody provides.
LinkFailsOnPending(safe) ==
  /\ ~AllComplete(pendings, pendings, Kept_)
  /\ ListsAfterFailure(safe)
  /\ imp' = [c \in Chunks |->
       IF c \in Visited(pendings, pendings, Kept_)
       THEN resolve(c, pendings, Kept_) ELSE imp[c]]
  /\ UNCHANGED <<libs, retained>>

\* A running chunk imports what its new provider no longer has.
LinkFailsOnRunning(safe) ==
  /\ AllComplete(pendings, pendings, Kept_)
  /\ ~AllComplete(Kept_, pendings, Kept_)
  /\ ListsAfterFailure(safe)
  /\ imp' = [c \in Chunks |->
       IF c \in Range(pendings) THEN resolve(c, pendings, Kept_)
       ELSE IF c \notin Range(Kept_) THEN imp[c]
       ELSE IF safe THEN rollback_imports(c)
       ELSE IF c \in Visited(Kept_, pendings, Kept_)
       THEN resolve(c, pendings, Kept_) ELSE imp[c]]
  /\ UNCHANGED <<libs, retained>>

\* Faults: the running chunks keep their imports; the garbages keep theirs.
Relinked_stale_runnings(c) ==
  IF c \in Range(pendings) THEN resolve(c, pendings, Kept_)
  ELSE IF c \in Range(garbages) \cup Displaced
  THEN resolve_as_nil(c, pendings, Kept_) ELSE imp[c]
Relinked_stale_garbages(c) ==
  IF c \in Range(pendings) \cup Range(Kept_) THEN resolve(c, pendings, Kept_)
  ELSE imp[c]

\* What the three loops leave in the imports of a chunk: the garbages, old
\* and new, get nil where nobody provides.
Relinked(c) ==
  IF c \in Range(pendings) \cup Range(Kept_) THEN resolve(c, pendings, Kept_)
  ELSE IF c \in Range(garbages) \cup Displaced
  THEN resolve_as_nil(c, pendings, Kept_) ELSE imp[c]

\* Everything is resolved.
LinkSucceeds ==
  /\ AllComplete(pendings, pendings, Kept_)
  /\ AllComplete(Kept_, pendings, Kept_)
  /\ imp' = [c \in Chunks |-> Relinked(c)]
  /\ runnings' = Kept_ \o pendings
  /\ garbages' = garbages \o Old
  /\ pendings' = <<>>
  /\ outcome' = "linked"
  /\ UNCHANGED <<libs, retained, freed>>

\* Fault: a freed chunk is not unlinked.
Sweep_keeps_nodes ==
  /\ freed' = freed \cup (Range(garbages) \ retained)
  /\ UNCHANGED <<libs, lists, imp, retained, outcome>>

\* aloader_sweep: garbages without the mark are freed.
Sweep ==
  /\ garbages' = Filter(garbages, retained)
  /\ freed' = freed \cup (Range(garbages) \ retained)
  /\ UNCHANGED <<libs, pendings, runnings, imp, retained, outcome>>

\* aloader_cleanup: all chunks are freed, all libraries forgotten.
Cleanup ==
  /\ freed' = freed \cup Loaded
  /\ pendings' = <<>>
  /\ runnings' = <<>>
  /\ garbages' = <<>>
  /\ libs' = {}
  /\ outcome' = "none"
  /\ UNCHANGED <<imp, retained>>
-----------------------------------------------------------------------------
Link(safe) == LinkFailsOnPending(safe) \/ LinkFailsOnRunning(safe) \/ LinkSucceeds

Next ==
  \/ \E c \in Chunks : AddChunk(c) \/ Retain(c)
  \/ \E l \in Libs : AddLib(l)
  \/ \E safe \in BOOLEAN : Link(safe)
  \/ Sweep
  \/ Cleanup

Spec == Init /\ [][Next]_vars
=============================================================================
