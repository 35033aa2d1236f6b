----------------------------- MODULE MCAmlMutex -----------------------------
(* Constants for TLC: \_GL and one mutex of the AML code. *)
EXTENDS AmlMutex
=============================================================================
