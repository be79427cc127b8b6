-------------------------------- MODULE Lists --------------------------------
(***************************************************************************)
(* The intrusive doubly linked lists of the runtime (inc/any/list.h), as   *)
(* sequences of the objects that embed the nodes.  The order of a list is  *)
(* what its callers depend on; erasing never changes the order of the rest.*)
(***************************************************************************)
EXTENDS Integers, Sequences, FiniteSets, Functions

\* The elements of s that are in S, in their order: what is left of a list
\* after a loop has erased the others.  The place of an element is its rank
\* among the ones that stay; a definition by rank and not by recursion, so
\* that ListsProofs can show what it returns.
Kept(s, S) == {i \in 1 .. Len(s) : s[i] \in S}
Rank(K, i) == Cardinality({k \in K : k <= i})
Filter(s, S) ==
  LET K == Kept(s, S)
  IN  [j \in 1 .. Cardinality(K) |-> s[CHOOSE i \in K : Rank(K, i) = j]]

\* alist_node_erase of the node of p, if it is in the list s.
Erase(s, p) == Filter(s, Range(s) \ {p})

\* No object is linked twice.
NoDup(s) == \A i, j \in 1 .. Len(s) : s[i] = s[j] => i = j
=============================================================================
