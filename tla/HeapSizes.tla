------------------------------ MODULE HeapSizes ------------------------------
(***************************************************************************)
(* Sizes of heap objects in bytes.  A reservation adds up what its objects *)
(* need without rounding; the allocation of each object rounds it up to    *)
(* the alignment.                                                          *)
(***************************************************************************)
EXTENDS Integers

CONSTANTS
  Word,      \* the alignment, 8
  HeaderSz,  \* sizeof(agc_header_t)
  ValueSz,   \* sizeof(avalue_t)
  TupleSz,   \* sizeof(agc_tuple_t)
  ArraySz    \* sizeof(agc_array_t), also of agc_table_t and agc_buffer_t

\* The structures are made of 8 byte fields.
ASSUME SizesAssumption ==
  /\ Word \in Nat \ {0}
  /\ \A s \in {HeaderSz, ValueSz, TupleSz, ArraySz} : s \in Nat \ {0} /\ s % Word = 0

\* AALIGN_FORWARD(v, Word)
Align(v) == ((v + (Word - 1)) \div Word) * Word

\* Fault: the header is added, the size is not rounded.
ObjectSz_unrounded(sz) == sz + HeaderSz

\* What agc_alloc takes for an object of sz bytes.
ObjectSz(sz) == Align(sz + HeaderSz)

\* Fault: the headers are forgotten.
Need_no_headers(more, n) == more

\* What agc_check and agc_reserve ask for: more bytes in n objects.
Need(more, n) == more + n * HeaderSz
=============================================================================
