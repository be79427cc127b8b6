------------------------------ MODULE MCLoader -------------------------------
(***************************************************************************)
(* Instance of Loader for TLC: two versions each of the modules A and B.   *)
(* a2 and b1 import each other; the other version of either module has     *)
(* lost a function, so that a link can fail on a running chunk.  Of the    *)
(* two native libraries one shadows a function of A.                       *)
(***************************************************************************)
EXTENDS LoaderProperties

CONSTANTS a1, a2, b1, b2

AllChunks == {a1, a2, b1, b2}

Imp(m, n) == [module |-> m, name |-> n]

Modules == [c \in AllChunks |-> IF c \in {a1, a2} THEN "A" ELSE "B"]

Functions == [c \in AllChunks |->
  CASE c = a1 -> {"f"} [] c = a2 -> {"f", "g"} [] c = b1 -> {"h"} [] c = b2 -> {}]

Needs == [c \in AllChunks |->
  CASE c = a1 -> <<>>
    [] c = a2 -> <<Imp("B", "h")>>
    [] c = b1 -> <<Imp("L", "n"), Imp("A", "f")>>
    [] c = b2 -> <<Imp("A", "g")>>]

Natives == {[module |-> "L", funcs |-> {"n"}], [module |-> "A", funcs |-> {"f"}]}
=============================================================================
