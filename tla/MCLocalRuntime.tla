---------------------------- MODULE MCLocalRuntime ----------------------------
(* Instances of LocalRuntime for TLC. *)
EXTENDS LocalRuntime

CONSTANTS c1, c2, k1, k2, h1

===============================================================================
