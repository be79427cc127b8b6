----------------------------- MODULE MCAssembler -----------------------------
(***************************************************************************)
(* Small instances of Assembler for TLC: prototypes begin with room for    *)
(* one item of each kind; the strings have colliding hashes, and a long    *)
(* one makes the table of 128 bytes grow.                                  *)
(***************************************************************************)
EXTENDS AssemblerProperties

CONSTANTS i1, k1, f, g, h

Room == [code |-> 1, consts |-> 1, imports |-> 1, nesteds |-> 1]

OneImport == {<<g, h>>}
Tight == {[code |-> 2, consts |-> 0, imports |-> 0, nesteds |-> 0]}

Lengths == [s \in Strings |-> CASE s = f -> 7 [] s = g -> 50 [] OTHER -> 24]
Hashes == [s \in Strings |-> CASE s = f -> 2 [] s = g -> 22 [] OTHER -> 42]
=============================================================================
