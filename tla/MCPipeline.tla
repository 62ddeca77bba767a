------------------------------- MODULE MCPipeline -------------------------------
(* Instances of Pipeline for TLC. *)
EXTENDS Pipeline

CONSTANTS c1, c2, k1, x1, x2, p1

\* Every snapshot gets an id of its own, also one of a version that has one.
FreshSnapshots == [d \in Dispatch |-> Source]

===============================================================================
