---------------------------- MODULE MCGlobalLock ----------------------------
(* Constants for TLC: the operating system is the only polling agent. *)
EXTENDS GlobalLock
=============================================================================
