--------------------------- MODULE TableProperties ---------------------------
(***************************************************************************)
(* What a table must guarantee, and that it implements Map.                *)
(***************************************************************************)
EXTENDS Table

ValidKeys == {k \in Keys : Valid(k)}

\* Type invariant, with the capacity: pairs are only written into room that
\* the buffer has (the assertions of set_capacity and lset), and only valid
\* keys are stored.
TableTypeOK ==
  /\ entries \in Seq([key : ValidKeys, val : Values])
  /\ cap \in Nat
  /\ Len(entries) <= cap

\* No two pairs have keys that are the same to a search: size/1 counts keys,
\* and no pair is hidden behind an earlier one (search_for before lset adds).
KeysAreApart ==
  \A i, j \in 1 .. Len(entries) :
    i # j => ~SameKey(entries[i].key, entries[j].key)

\* Keys that can be taken for each other: the same pair may be found for both.
AreNear(x, k) ==
  /\ x.type = k.type
  /\ IF x.type = "real"
     THEN x.v - k.v < 2 * Precision /\ k.v - x.v < 2 * Precision
     ELSE x.v = k.v
NearPairs == {p \in Keys \X Keys : AreNear(p[1], p[2])}

Promise == INSTANCE Map WITH
  Key <- ValidKeys,
  Other <- Keys \ ValidKeys,
  Value <- Values,
  None <- Nil,
  Lost <- Coarse,
  Near <- NearPairs,
  map <- [k \in ValidKeys |-> Lookup(k)]

\* Every behaviour of a table is one of Map: after a set the key has the value,
\* whatever was set before and however often the buffer grew, and the only other
\* keys that may change are reals less than twice the precision away; a set that
\* fails changes nothing, and only for a key that has no value.  Reals that are
\* too large for afuzzy_equals are the keys that are lost: a set of one adds a
\* pair and changes no key, its own included.
KeepsMap == Promise!MSpec
=============================================================================
