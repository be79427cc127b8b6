------------------------------- MODULE MCHeap --------------------------------
(* Small instances of Heap for TLC; the sizes are in the .cfg files.        *)
EXTENDS HeapProperties

Odd == {1}
Two == {2}
=============================================================================
