--------------------------- MODULE MC_ExecDriver ---------------------------
(* ExecDriver instantiated for TLC: the constants are given in the cfgs. *)
EXTENDS ExecDriver
=============================================================================
