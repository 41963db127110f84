------------------------------- MODULE MCHeap -------------------------------
(* A heap of 44 bytes with heads of 4, blocks of at least 6 and words of 2.  *)
EXTENDS Heap
=============================================================================
