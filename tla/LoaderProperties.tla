-------------------------- MODULE LoaderProperties ---------------------------
(***************************************************************************)
(* What loading, linking and sweeping byte code must guarantee.            *)
(***************************************************************************)
EXTENDS Loader

\* A chunk is linked into at most one of the three lists, once, and its memory
\* is not released while it is.
ListsApart ==
  /\ Range(pendings) \subseteq Chunks /\ NoDup(pendings)
  /\ Range(runnings) \subseteq Chunks /\ NoDup(runnings)
  /\ Range(garbages) \subseteq Chunks /\ NoDup(garbages)
  /\ Range(pendings) \cap Range(runnings) = {}
  /\ Range(pendings) \cap Range(garbages) = {}
  /\ Range(runnings) \cap Range(garbages) = {}
  /\ Loaded \cap freed = {}

\* Type invariant, with the shape of the three lists.
LoaderTypeOK ==
  /\ libs \subseteq Libs
  /\ ListsApart
  /\ retained \subseteq Chunks
  /\ freed \subseteq Chunks
  /\ \A c \in Chunks :
       /\ DOMAIN imp[c] = DOMAIN Imports[c]
       /\ Range(imp[c]) \subseteq Chunks \cup {NIL, NATIVE, UNSET}
  /\ outcome \in Outcomes

\* After a link has succeeded, and whatever failed links came before, a call
\* through an import and a lookup by aloader_find reach the same function: no
\* loaded chunk is left with the old version of a module that was replaced
\* (the three resolve loops of aloader_link, each before the lists change).
ImportsAgreeWithFind ==
  outcome = "linked" =>
    \A c \in Range(runnings) \cup Range(garbages) :
      \A k \in DOMAIN Imports[c] : imp[c][k] = Found(Imports[c][k])

\* After a link has succeeded the garbages can be swept at any time: no chunk
\* that is still loaded, a retained garbage included, imports from one whose
\* memory was released (aloader_link before aloader_sweep).
NothingFreedIsReachable ==
  outcome = "linked" =>
    \A c \in Loaded : Range(imp[c]) \cap freed = {}

\* A link that succeeds never takes a module away: what aloader_find knew
\* before is found afterwards, unless a new version of its module came in.
LinkKeepsUntouchedModules ==
  [][LinkSucceeds =>
       \A c \in Range(runnings) : \A n \in Exports[c] :
         LET i == [module |-> ModOf[c], name |-> n]
         IN  (\A p \in Range(pendings) : ModOf[p] # ModOf[c])
               => Found(i)' = Found(i)]_vars
-----------------------------------------------------------------------------
\* loader.h, aloader_link: "There is `safe` option that rolling back the state
\* in case of failed".  A safe link that fails leaves what was linked as it
\* was, and every import of it.
SafeLinkRollsBack ==
  [][LinkFailsOnPending(TRUE) \/ LinkFailsOnRunning(TRUE) =>
       /\ UNCHANGED <<runnings, garbages>>
       /\ \A c \in Range(runnings) : imp'[c] = imp[c]]_vars
=============================================================================
