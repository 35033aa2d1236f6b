------------------------------- MODULE MCHeap -------------------------------
(* Constants for TLC.  The arena's addresses are interchangeable. *)
EXTENDS Heap, TLC

Addresses == Permutations(Blocks)
=============================================================================
