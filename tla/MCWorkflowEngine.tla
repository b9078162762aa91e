-------------------------- MODULE MCWorkflowEngine --------------------------
(***************************************************************************)
(* Instances of WorkflowEngine for TLC.                                    *)
(***************************************************************************)
EXTENDS WorkflowEngine

CONSTANTS a, b

\* b comes after a; the other nodes depend on nothing.
Chain == [n \in Nodes |-> IF n = b THEN {a} ELSE {}]
============================================================================
