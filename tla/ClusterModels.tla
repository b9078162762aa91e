--------------------------- MODULE ClusterModels ---------------------------
(***************************************************************************)
(* The vocabulary of the Distributed Runtime (backend/distributed/         *)
(* models.py): the enumerations its components exchange and the objects    *)
(* they are about.                                                         *)
(***************************************************************************)
EXTENDS Integers, Sequences

CONSTANTS Tasks,       \* identifiers of the DistributedTask objects
          Nodes,       \* identifiers of the worker nodes
          NoNode,      \* assigned_node_id = None
          Priority,    \* DistributedTask.priority, fixed at submission
          MaxRetries   \* DistributedTask.max_retries

ASSUME ModelsAssumption ==
    /\ NoNode \notin Nodes
    /\ Priority \in [Tasks -> Int]
    /\ MaxRetries \in Nat

\* DistributedTaskStatus, and "new" for a task that was not submitted yet
Statuses == {"new", "queued", "dispatched", "running", "completed",
             "failed", "cancelled", "retrying"}

\* NodeStatus (DEGRADED is never assigned), and "absent" for a node that is
\* not in the registry
NodeStatuses == {"absent", "online", "offline", "draining"}
============================================================================
