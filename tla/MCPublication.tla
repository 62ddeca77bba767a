----------------------------- MODULE MCPublication -----------------------------
(* Instances of Publication for TLC. *)
EXTENDS Publication

CONSTANTS e1, e2, e3, v1, v2

===============================================================================
