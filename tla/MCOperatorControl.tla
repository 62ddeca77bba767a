-------------------------- MODULE MCOperatorControl ---------------------------
(* Instances of OperatorControl for TLC. *)
EXTENDS OperatorControl

CONSTANTS v1, v2, o1, o2

===============================================================================
