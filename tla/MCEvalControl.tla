---------------------------- MODULE MCEvalControl ----------------------------
(* Constants for TLC are in the cfg files. *)
EXTENDS EvalControl
=============================================================================
