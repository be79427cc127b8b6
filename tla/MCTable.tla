------------------------------- MODULE MCTable --------------------------------
(***************************************************************************)
(* Small instances of Table for TLC.  Reals are multiples of half the      *)
(* precision; the first three lie so that the one in the middle equals     *)
(* both others, which do not equal each other; the last does not equal     *)
(* itself.                                                                 *)
(***************************************************************************)
EXTENDS TableProperties

CONSTANTS nil, u

Real(n) == [type |-> "real", v |-> n]
Mixed ==
  {Real(0), Real(1), Real(2), Real(1000),
   [type |-> "integer", v |-> 1], [type |-> "boolean", v |-> 1]}
Huge == {Real(1000)}
Sizes == {0, 1}
=============================================================================
