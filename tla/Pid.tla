--------------------------------- MODULE Pid ---------------------------------
(***************************************************************************)
(* Process identifiers.  An apid_t is an unsigned word whose upper bits    *)
(* hold the index of a slot of the process table, the next bits the        *)
(* generation of the process in that slot; the remaining low bits are 0.   *)
(* The widths are powers of two in the code; here a shift by n bits is a   *)
(* multiplication or a division by 2^n and the powers are the constants:   *)
(*   NumProcs = 2^idx_bits,  NumGens = 2^gen_bits,                         *)
(*   PidUnit  = 2^(APID_BITS - idx_bits - gen_bits).                       *)
(***************************************************************************)
EXTENDS Integers

CONSTANTS
  NumProcs,  \* slots of the process table
  NumGens,   \* generations before a slot repeats a pid
  PidUnit    \* weight of the lowest generation bit

ASSUME PidAssumption ==
  /\ NumProcs \in Nat \ {0}
  /\ NumGens \in Nat \ {0}
  /\ PidUnit \in Nat \ {0}

\* 2^(APID_BITS - idx_bits): the weight of the lowest index bit.
IdxUnit == NumGens * PidUnit

apid_from(idx, gen) == idx * IdxUnit + gen * PidUnit

apid_idx(pid) == pid \div IdxUnit

\* The left shift drops the index, the right shift the unused low bits.
apid_gen(pid) == (pid % IdxUnit) \div PidUnit
=============================================================================
