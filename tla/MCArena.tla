------------------------------ MODULE MCArena ------------------------------
(* Constants for TLC.  The backend's addresses are interchangeable. *)
EXTENDS Arena, TLC

Addresses == Permutations(Chunks)
=============================================================================
