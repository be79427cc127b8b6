------------------------------- MODULE MCCalls -------------------------------
(* Small instances of Calls for TLC; the sizes are in the .cfg files.      *)
EXTENDS CallsProperties

FewArgs == {0, 1}
FewLocals == {0, 1}
=============================================================================
