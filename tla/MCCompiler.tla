----------------------------- MODULE MCCompiler ------------------------------
(***************************************************************************)
(* Small instances of Compiler for TLC: prototypes begin with room for one *)
(* item of each kind.                                                      *)
(***************************************************************************)
EXTENDS CompilerProperties

Room == [code |-> 1, consts |-> 1, imports |-> 1, nesteds |-> 1]

OneFunction == {"f"}
Names_ == [s \in {"f"} \X {0, 1} |-> IF s[2] = 0 THEN "f/0" ELSE "f/1"]
AllStrings == {"f", "f/0", "f/1", "m", "1"}

Plains == {[text |-> "1", kind |-> "integer"]}
SomeLiterals == Plains \cup {[text |-> t, kind |-> "string"] : t \in {"1", "m"}}

Sigs == {[args |-> <<>>, vars |-> <<"x">>], [args |-> <<"x">>, vars |-> <<>>],
         [args |-> <<"x">>, vars |-> <<"x">>]}

Nop == {[op |-> "nop"]}
OneImport == {<<"m", "f/0">>}

Lengths == [s \in Strings |-> IF s \in {"f", "m", "1"} THEN 1 ELSE 3]
Hashes == [s \in Strings |-> IF s = "m" THEN 3 ELSE 1]
=============================================================================
