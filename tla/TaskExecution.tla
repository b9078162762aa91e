--------------------------- MODULE TaskExecution ---------------------------
(***************************************************************************)
(* What whoever carries out tasks promises about the function that does it *)
(* (the cluster about execute_fn, the pools of WorkflowEngine and of the   *)
(* dynamic orchestrator about theirs): a task is handed to it at most once,*)
(* at most Width tasks are inside it at a time, and a task that came out of*)
(* it never goes in again.                                                 *)
(***************************************************************************)
EXTENDS Integers, FiniteSets

CONSTANTS Tasks, Width

VARIABLES executing,  \* tasks inside execute_fn
          ended       \* tasks execute_fn returned or raised for

executionVars == <<executing, ended>>

Enter(t) ==
    /\ t \in Tasks \ (executing \cup ended)
    /\ Cardinality(executing) < Width
    /\ executing' = executing \cup {t}
    /\ UNCHANGED ended

Leave(t) ==
    /\ t \in executing
    /\ executing' = executing \ {t}
    /\ ended' = ended \cup {t}

Init == executing = {} /\ ended = {}
Next == \E t \in Tasks : Enter(t) \/ Leave(t)
Spec == Init /\ [][Next]_executionVars
============================================================================
