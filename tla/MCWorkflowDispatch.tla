-------------------------- MODULE MCWorkflowDispatch --------------------------
(* Small instances of WorkflowDispatch. *)
EXTENDS WorkflowDispatch

CONSTANTS p1, p2
===============================================================================
