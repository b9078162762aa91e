---------------------------- MODULE Membership ----------------------------
(***************************************************************************)
(* Which workers the cluster counts on: WorkerRegistry (worker_registry.py)*)
(* with the worker operations of WorkerManager (worker_manager.py) and the *)
(* thread of HeartbeatMonitor (heartbeat.py).                              *)
(*                                                                         *)
(* Time is kept as the one thing the monitor asks of it: `late' holds the  *)
(* registered nodes whose last_heartbeat is further back than              *)
(* timeout_seconds.  A pass of the monitor fixes its cutoff when it starts *)
(* and then works through a list of WorkerNode OBJECTS: `past' holds the   *)
(* nodes whose object on that list is older than the cutoff.  A heartbeat  *)
(* updates the object the registry holds, which is no longer the one on    *)
(* the list once the node was removed (`detached').                        *)
(*                                                                         *)
(* Registry methods run under its RLock and are one step each; what the    *)
(* callers do between two of them is not.                                  *)
(***************************************************************************)
EXTENDS ClusterModels, TLAPS

VARIABLES nodeStatus,  \* WorkerNode.status, "absent" when not registered
          late,        \* registered nodes silent for longer than the timeout
          mpc,         \* where the monitor thread is
          todo,        \* nodes of this pass still to be looked at
          past,        \* those of them whose object is older than the cutoff
          detached,    \* those of them whose object left the registry
          suspect      \* the node that is being evicted, or NoNode

memberVars == <<nodeStatus, late, mpc, todo, past, detached, suspect>>
monitorVars == <<mpc, todo, past, detached, suspect>>

MembershipTypeOK ==
    /\ nodeStatus \in [Nodes -> NodeStatuses]
    /\ late \subseteq Nodes
    /\ mpc \in {"idle", "check", "evict", "callback"}
    /\ todo \subseteq Nodes /\ past \subseteq todo /\ detached \subseteq todo
    /\ suspect \in Nodes \cup {NoNode}

\* Between passes nothing is left to look at; only nodes are evicted.
PassOK ==
    /\ mpc = "idle" => todo = {}
    /\ mpc \in {"evict", "callback"} => suspect \in Nodes

Registered(n) == nodeStatus[n] # "absent"

\* list_online_nodes()
Online == {n \in Nodes : nodeStatus[n] = "online"}

MembershipInit ==
    /\ nodeStatus = [n \in Nodes |-> "absent"]
    /\ late = {}
    /\ mpc = "idle"
    /\ todo = {} /\ past = {} /\ detached = {}
    /\ suspect = NoNode

---------------------------------------------------------------------------
\* register_worker: a new node comes with a fresh last_heartbeat; a node that
\* is registered already is set ONLINE and keeps the timestamp it had.
RegisterWorker(n) ==
    /\ nodeStatus' = [nodeStatus EXCEPT ![n] = "online"]
    /\ late' = IF Registered(n) THEN late ELSE late \ {n}
    /\ UNCHANGED monitorVars

\* Faulty variant: the monitor works on copies of the nodes.
HeartbeatMissesList(n) ==
    /\ Registered(n)
    /\ late' = late \ {n}
    /\ UNCHANGED <<nodeStatus, monitorVars>>

\* heartbeat: resets the timer of the registered object, never its status.
Heartbeat(n) ==
    /\ Registered(n)
    /\ late' = late \ {n}
    /\ past' = IF n \in detached THEN past ELSE past \ {n}
    /\ UNCHANGED <<nodeStatus, mpc, todo, detached, suspect>>

\* drain_worker: whatever the status was.
DrainWorker(n) ==
    /\ Registered(n)
    /\ nodeStatus' = [nodeStatus EXCEPT ![n] = "draining"]
    /\ UNCHANGED <<late, monitorVars>>

\* remove_worker: no failover, and the monitor keeps the object on its list.
RemoveWorker(n) ==
    /\ Registered(n)
    /\ nodeStatus' = [nodeStatus EXCEPT ![n] = "absent"]
    /\ late' = late \ {n}
    /\ detached' = detached \cup ({n} \cap todo)
    /\ UNCHANGED <<mpc, todo, past, suspect>>

\* The timeout of a silent node passes.
Lapse(n) ==
    /\ Registered(n)
    /\ late' = late \cup {n}
    /\ UNCHANGED <<nodeStatus, monitorVars>>

---------------------------------------------------------------------------
\* _check_nodes: the cutoff, and the list of online nodes.
StartPass ==
    /\ mpc = "idle"
    /\ mpc' = "check"
    /\ todo' = Online
    /\ past' = Online \cap late
    /\ UNCHANGED <<nodeStatus, late, detached, suspect>>

\* node.last_heartbeat < cutoff
CheckNode(n) ==
    /\ mpc = "check"
    /\ n \in todo
    /\ IF n \in past
       THEN mpc' = "evict" /\ suspect' = n
       ELSE UNCHANGED <<mpc, suspect>>
    /\ todo' = todo \ {n}
    /\ past' = past \ {n}
    /\ detached' = detached \ {n}
    /\ UNCHANGED <<nodeStatus, late>>

FinishPass ==
    /\ mpc = "check"
    /\ todo = {}
    /\ mpc' = "idle"
    /\ UNCHANGED <<nodeStatus, late, todo, past, detached, suspect>>

\* Faulty variant: only the callback learns of the eviction.
MarkNothing ==
    /\ mpc = "evict"
    /\ mpc' = "callback"
    /\ UNCHANGED <<nodeStatus, late, todo, past, detached, suspect>>

\* registry.mark_offline(node_id): by id, whatever became of the node since.
MarkOffline ==
    /\ mpc = "evict"
    /\ mpc' = "callback"
    /\ nodeStatus' = IF Registered(suspect)
                     THEN [nodeStatus EXCEPT ![suspect] = "offline"]
                     ELSE nodeStatus
    /\ UNCHANGED <<late, todo, past, detached, suspect>>

\* _on_node_offline(node_id) has returned.
CallbackDone ==
    /\ mpc = "callback"
    /\ mpc' = "check"
    /\ suspect' = NoNode
    /\ UNCHANGED <<nodeStatus, late, todo, past, detached>>

WorkerCall ==
    \E n \in Nodes : \/ RegisterWorker(n) \/ Heartbeat(n) \/ DrainWorker(n)
                     \/ RemoveWorker(n) \/ Lapse(n)

\* The thread with a callback that does nothing.
MonitorStep ==
    \/ StartPass \/ FinishPass \/ MarkOffline \/ CallbackDone
    \/ \E n \in Nodes : CheckNode(n)

\* The registry and the monitor by themselves, whatever the callback does.
MembershipSpec == MembershipInit /\ [][WorkerCall \/ MonitorStep]_memberVars

---------------------------------------------------------------------------
(* Facts about the steps above that hold wherever they are used: in        *)
(* Cluster, where the monitor's callback runs failover, and on their own   *)
(* in WorkerSilence.                                                       *)

\* Calls of workers keep the types and do not move the monitor.
LEMMA WorkerCallTypes ==
    ASSUME MembershipTypeOK, WorkerCall
    PROVE  MembershipTypeOK' /\ UNCHANGED <<mpc, todo, suspect>>
<1>1. PICK n \in Nodes : \/ RegisterWorker(n) \/ Heartbeat(n) \/ DrainWorker(n)
                         \/ RemoveWorker(n) \/ Lapse(n)
    BY DEF WorkerCall
<1> USE DEF MembershipTypeOK, NodeStatuses, monitorVars
<1>2. CASE RegisterWorker(n)
    BY <1>2 DEF RegisterWorker
<1>3. CASE Heartbeat(n)
    BY <1>3 DEF Heartbeat
<1>4. CASE DrainWorker(n)
    BY <1>4 DEF DrainWorker
<1>5. CASE RemoveWorker(n)
    BY <1>5 DEF RemoveWorker
<1>6. CASE Lapse(n)
    BY <1>6 DEF Lapse
<1>7. QED
    BY <1>1, <1>2, <1>3, <1>4, <1>5, <1>6

\* So does each step of the monitor thread, and its pass goes on in order.
LEMMA StartPassTypes ==
    ASSUME MembershipTypeOK, PassOK, StartPass PROVE MembershipTypeOK' /\ PassOK'
BY DEF MembershipTypeOK, PassOK, StartPass, Online

\* Looking at one node of the list.
LEMMA CheckNodeTypes ==
    ASSUME MembershipTypeOK, PassOK, NEW n \in Nodes, CheckNode(n)
    PROVE  MembershipTypeOK' /\ PassOK'
BY DEF MembershipTypeOK, PassOK, CheckNode

\* The end of a pass.
LEMMA FinishPassTypes ==
    ASSUME MembershipTypeOK, PassOK, FinishPass PROVE MembershipTypeOK' /\ PassOK'
BY DEF MembershipTypeOK, PassOK, FinishPass

\* The eviction of the suspect.
LEMMA MarkOfflineTypes ==
    ASSUME MembershipTypeOK, PassOK, MarkOffline
    PROVE  MembershipTypeOK' /\ PassOK'
BY DEF MembershipTypeOK, PassOK, MarkOffline, NodeStatuses

\* The return from the callback.
LEMMA CallbackDoneTypes ==
    ASSUME MembershipTypeOK, PassOK, CallbackDone PROVE MembershipTypeOK' /\ PassOK'
BY DEF MembershipTypeOK, PassOK, CallbackDone
=============================================================================
