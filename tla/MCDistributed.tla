--------------------------- MODULE MCDistributed ---------------------------
(***************************************************************************)
(* Three parts of the distributed runtime on their own: the membership of  *)
(* the workers, the heap of the queue and the tracking of workflows.  The  *)
(* initial state picks the one that moves, and the others stay as they     *)
(* are, so that the states are those of the three models side by side.     *)
(***************************************************************************)
EXTENDS WorkerSilence, DistributedQueue, WorkflowTracking

CONSTANTS t1, t2, t3, c1, c2, c3, c4, w1, w2

VARIABLE part

distributedVars == <<part, silenceVars, heapVars, trackingVars>>

DistributedInit ==
    /\ part \in {"membership", "queue", "tracking"}
    /\ SilenceInit /\ HeapInit /\ TrackingInit

DistributedNext ==
    /\ UNCHANGED part
    /\ \/ part = "membership" /\ SilenceNext /\ UNCHANGED <<heapVars, trackingVars>>
       \/ part = "queue" /\ HeapNext /\ UNCHANGED <<silenceVars, trackingVars>>
       \/ part = "tracking" /\ TrackingNext /\ UNCHANGED <<silenceVars, heapVars>>

DistributedSpec ==
    /\ DistributedInit /\ [][DistributedNext]_distributedVars
    /\ WF_silenceVars(part = "membership" /\ MonitorTurn)

---------------------------------------------------------------------------
\* Two tasks of one priority and one that overtakes them.
MCPriority == [t \in Tasks |-> IF t = t3 THEN 8 ELSE 5]

\* Three calls race for one workflow, a fourth has one to itself.
MCWorkflowOf == [c \in Calls |-> IF c = c4 THEN w2 ELSE w1]
============================================================================
