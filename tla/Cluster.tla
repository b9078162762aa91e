------------------------------ MODULE Cluster ------------------------------
(***************************************************************************)
(* The Distributed Runtime (backend/distributed/) put together: the queue  *)
(* of PriorityFifo, the registry and the heartbeat monitor of Membership,  *)
(* the failover the monitor's callback runs (failover.py), the node        *)
(* selection (scheduler.py), and the dispatch loops of TaskDispatcher      *)
(* (task_dispatcher.py), each a thread that takes one task at a time and   *)
(* executes it synchronously.                                              *)
(*                                                                         *)
(* Threads interleave at the accesses to shared state: a queue or registry *)
(* call is one step, and so is each unlocked assignment to a task's status *)
(* or node.  A loop thread is a member of Loops; start() after a stop()    *)
(* whose join timed out leaves the old thread looping beside the new one.  *)
(***************************************************************************)
EXTENDS PriorityFifo, Membership, FiniteSets

CONSTANTS Loops,      \* the threads start() may create
          NoTask,     \* a loop that holds no task
          Capable,    \* the nodes that have a task's required_capabilities
          Policies    \* the SchedulingPolicy values in use

ASSUME ClusterAssumption ==
    /\ IsFiniteSet(Loops)
    /\ NoTask \notin Tasks
    /\ Capable \in [Tasks -> SUBSET Nodes]
    /\ Policies \subseteq {"least_loaded", "round_robin", "priority", "capability_based"}
    /\ Policies # {}

VARIABLES policy,     \* Scheduler._active_policy
          running,    \* TaskDispatcher._running
          pc,         \* where each loop thread is
          held,       \* the task it took from the queue
          cand,       \* assign(): the snapshot of online nodes
          pick,       \* assign(): the node it selected
          active,     \* TaskDispatcher._active_tasks
          orphans,    \* handle_node_failure(): tasks still to be moved
          runs        \* history: how often execute_fn was called for a task

loopVars == <<pc, held, cand, pick>>
dispatchVars == <<running, loopVars, active, runs>>
vars == <<queueVars, memberVars, dispatchVars, policy, orphans>>

LoopStates == {"off", "top", "take", "assign", "select", "putBack",
               "fire", "own", "execute", "release", "exited"}

TypeOK ==
    /\ FifoTypeOK
    /\ MembershipTypeOK
    /\ policy \in Policies
    /\ running \in BOOLEAN
    /\ pc \in [Loops -> LoopStates]
    /\ held \in [Loops -> Tasks \cup {NoTask}]
    /\ cand \in [Loops -> SUBSET Nodes]
    /\ pick \in [Loops -> Nodes \cup {NoNode}]
    /\ active \subseteq Tasks
    /\ orphans \subseteq Tasks
    /\ runs \in [Tasks -> Nat]

Init ==
    /\ FifoInit
    /\ MembershipInit
    /\ policy \in Policies
    /\ running = FALSE
    /\ pc = [l \in Loops |-> "off"]
    /\ held = [l \in Loops |-> NoTask]
    /\ cand = [l \in Loops |-> {}]
    /\ pick = [l \in Loops |-> NoNode]
    /\ active = {}
    /\ orphans = {}
    /\ runs = [t \in Tasks |-> 0]

Move(l, from, to) == pc[l] = from /\ pc' = [pc EXCEPT ![l] = to]

---------------------------------------------------------------------------
(* Client threads. *)

SubmitTask(t) ==
    /\ Submit(t)
    /\ UNCHANGED <<memberVars, dispatchVars, policy, orphans>>

CancelTask(t) ==
    /\ Cancel(t)
    /\ UNCHANGED <<memberVars, dispatchVars, policy, orphans>>

Worker ==
    /\ WorkerCall
    /\ UNCHANGED <<queueVars, dispatchVars, policy, orphans>>

SetPolicy(p) ==
    /\ policy' = p
    /\ UNCHANGED <<queueVars, memberVars, dispatchVars, orphans>>

\* start(): a new thread, unless the flag is still set.
Start(l) ==
    /\ ~running
    /\ running' = TRUE
    /\ Move(l, "off", "top")
    /\ UNCHANGED <<queueVars, memberVars, held, cand, pick, active, runs, policy, orphans>>

\* stop(): the join times out or not; nothing else changes.
Stop ==
    /\ running
    /\ running' = FALSE
    /\ UNCHANGED <<queueVars, memberVars, loopVars, active, runs, policy, orphans>>

---------------------------------------------------------------------------
(* A dispatch loop. *)

\* while self._running
LoopTop(l) ==
    /\ Move(l, "top", IF running THEN "take" ELSE "exited")
    /\ UNCHANGED <<queueVars, memberVars, running, held, cand, pick, active, runs, policy, orphans>>

TakeTask(l) ==
    /\ \E t \in Tasks :
          /\ Move(l, "take", "assign")
          /\ Dequeue(t)
          /\ held' = [held EXCEPT ![l] = t]
    /\ UNCHANGED <<memberVars, running, cand, pick, active, runs, policy, orphans>>

TakeNone(l) ==
    /\ Move(l, "take", "top")
    /\ DequeueNone
    /\ UNCHANGED <<memberVars, running, held, cand, pick, active, runs, policy, orphans>>

\* assign(): candidates = registry.list_online_nodes()
Snapshot(l) ==
    /\ Move(l, "assign", "select")
    /\ cand' = [cand EXCEPT ![l] = Online]
    /\ UNCHANGED <<queueVars, memberVars, running, held, pick, active, runs, policy, orphans>>

\* Only CapabilityBasedPolicy looks at required_capabilities; which of the
\* nodes left is returned depends on load scores or on a counter.
Eligible(l) ==
    IF policy = "capability_based" THEN cand[l] \cap Capable[held[l]] ELSE cand[l]

\* assign() returns a node and has written task.assigned_node_id.
SelectNode(l) ==
    /\ Move(l, "select", "fire")
    /\ \E n \in Eligible(l) :
          /\ assigned' = [assigned EXCEPT ![held[l]] = n]
          /\ pick' = [pick EXCEPT ![l] = n]
    /\ cand' = [cand EXCEPT ![l] = {}]
    /\ UNCHANGED <<status, attempts, line, memberVars, running, held, active, runs, policy, orphans>>

\* assign() returns None; the loop sets the task QUEUED outside the lock ...
SelectNone(l) ==
    /\ Move(l, "select", "putBack")
    /\ Eligible(l) = {}
    /\ status' = [status EXCEPT ![held[l]] = "queued"]
    /\ cand' = [cand EXCEPT ![l] = {}]
    /\ UNCHANGED <<assigned, attempts, line, memberVars, running, held, pick, active, runs, policy, orphans>>

\* Faulty variant: the task is dropped.
PutTaskBackLost(l) ==
    /\ Move(l, "putBack", "top")
    /\ held' = [held EXCEPT ![l] = NoTask]
    /\ UNCHANGED <<queueVars, memberVars, running, cand, pick, active, runs, policy, orphans>>

\* ... and calls enqueue().
PutTaskBack(l) ==
    /\ Move(l, "putBack", "top")
    /\ Enqueue(held[l])
    /\ held' = [held EXCEPT ![l] = NoTask]
    /\ UNCHANGED <<memberVars, running, cand, pick, active, runs, policy, orphans>>

\* _fire_task: status = RUNNING ...
Fire(l) ==
    /\ Move(l, "fire", "own")
    /\ status' = [status EXCEPT ![held[l]] = "running"]
    /\ UNCHANGED <<assigned, attempts, line, memberVars, running, held, cand, pick, active, runs, policy, orphans>>

\* ... assigned_node_id, _active_tasks, and the call of execute_fn ...
Own(l) ==
    /\ Move(l, "own", "execute")
    /\ assigned' = [assigned EXCEPT ![held[l]] = pick[l]]
    /\ active' = active \cup {held[l]}
    /\ runs' = [runs EXCEPT ![held[l]] = @ + 1]
    /\ pick' = [pick EXCEPT ![l] = NoNode]
    /\ UNCHANGED <<status, attempts, line, memberVars, running, held, cand, policy, orphans>>

\* Faulty variant: an exception leaves the status alone.
FinishSwallows(l) ==
    /\ Move(l, "execute", "release")
    /\ \E s \in {"completed", "running"} : status' = [status EXCEPT ![held[l]] = s]
    /\ UNCHANGED <<assigned, attempts, line, memberVars, running, held, cand, pick, active, runs, policy, orphans>>

\* ... which returns or raises ...
Finish(l) ==
    /\ Move(l, "execute", "release")
    /\ \E s \in {"completed", "failed"} : status' = [status EXCEPT ![held[l]] = s]
    /\ UNCHANGED <<assigned, attempts, line, memberVars, running, held, cand, pick, active, runs, policy, orphans>>

\* ... finally: _active_tasks.pop
Release(l) ==
    /\ Move(l, "release", "top")
    /\ active' = active \ {held[l]}
    /\ held' = [held EXCEPT ![l] = NoTask]
    /\ UNCHANGED <<queueVars, memberVars, running, cand, pick, runs, policy, orphans>>

LoopStep(l) ==
    \/ LoopTop(l) \/ TakeTask(l) \/ TakeNone(l) \/ Snapshot(l)
    \/ SelectNode(l) \/ SelectNone(l) \/ PutTaskBack(l)
    \/ Fire(l) \/ Own(l) \/ Finish(l) \/ Release(l)

---------------------------------------------------------------------------
(* The monitor thread and, in its callback, handle_node_failure(suspect). *)

\* orphaned = [...] is computed right after mark_offline returned.
Evict ==
    /\ MarkOffline
    /\ UNCHANGED <<queueVars, dispatchVars, policy, orphans>>

FindOrphans ==
    /\ mpc = "callback"
    /\ orphans = {}
    /\ orphans' = {t \in Tasks : /\ assigned[t] = suspect
                                 /\ status[t] \in {"dispatched", "running"}}
    /\ IF orphans' = {} THEN CallbackDone ELSE UNCHANGED memberVars
    /\ UNCHANGED <<queueVars, dispatchVars, policy>>

\* One turn of the loop over them; the callback ends with the last.
Requeued(t) == attempts[t] < MaxRetries /\ Requeue(t)

PermanentlyFailed(t) ==
    /\ attempts[t] >= MaxRetries
    /\ status' = [status EXCEPT ![t] = "failed"]
    /\ UNCHANGED <<assigned, attempts, line>>

MoveOrphan(t) ==
    /\ t \in orphans
    /\ Requeued(t) \/ PermanentlyFailed(t)
    /\ orphans' = orphans \ {t}
    /\ IF orphans' = {} THEN CallbackDone ELSE UNCHANGED memberVars
    /\ UNCHANGED <<dispatchVars, policy>>

PassStep ==
    /\ StartPass \/ FinishPass \/ \E n \in Nodes : CheckNode(n)
    /\ UNCHANGED <<queueVars, dispatchVars, policy, orphans>>

Monitor == PassStep \/ Evict \/ FindOrphans \/ \E t \in Tasks : MoveOrphan(t)

---------------------------------------------------------------------------
Next ==
    \/ \E t \in Tasks : SubmitTask(t) \/ CancelTask(t)
    \/ Worker
    \/ \E p \in Policies : SetPolicy(p)
    \/ \E l \in Loops : Start(l) \/ LoopStep(l)
    \/ Stop
    \/ Monitor

Spec == Init /\ [][Next]_vars

(***************************************************************************)
(* Both background threads are daemons that the operating system keeps     *)
(* scheduling; FairSpec also assumes that execute_fn returns or raises.    *)
(***************************************************************************)
FairSpec == Spec /\ WF_vars(Monitor) /\ \A l \in Loops : WF_vars(LoopStep(l))

---------------------------------------------------------------------------
(* Properties. *)

InLine(t) == Occurs(line, t)

HeldBy(t) == {l \in Loops : held[l] = t}

\* A QUEUED task can still be dequeued: it has an entry in the heap, unless a
\* dispatch loop stands between setting it QUEUED (task_dispatcher.py:91) and
\* the push of enqueue().
QueuedIsReachable ==
    \A t \in Tasks : status[t] = "queued" =>
        InLine(t) \/ \E l \in HeldBy(t) : pc[l] = "putBack"

\* Two dispatch loops, as stop() and start() can leave behind, never work on
\* the same task, whatever entries of it failover pushed meanwhile.
HeldByOneLoop ==
    \A l, m \in Loops : l # m /\ held[l] # NoTask => held[l] # held[m]

\* execute_fn is called at most once for a task: neither the retries of
\* failover nor a second dispatch loop nor a late cancel runs it again.
AtMostOnce == \A t \in Tasks : runs[t] <= 1

\* A task shown as DISPATCHED or RUNNING has a thread at work on it: no
\* order of eviction, failover and dispatch leaves one behind.
InFlightIsHeld ==
    \A t \in Tasks : status[t] \in {"dispatched", "running"} => HeldBy(t) # {}

\* So the loss of a node, a late result, an exception or a second loop never
\* strands a task: queued, it can be taken; in flight, a thread is at work on it.
NoTaskIsStranded == QueuedIsReachable /\ InFlightIsHeld

\* list_active_tasks() shows exactly the tasks inside _fire_task's try block.
ActiveIsExecuting ==
    active = {held[l] : l \in {m \in Loops : pc[m] \in {"execute", "release"}}}

\* A task that was executed, failed or was cancelled, and that neither a loop
\* nor the failover in progress still has in hand, keeps its status for good.
SettledStaysSettled ==
    [][\A t \in Tasks :
          /\ status[t] \in {"completed", "failed", "cancelled"}
          /\ HeldBy(t) = {} /\ t \notin orphans
          => status'[t] = status[t]]_vars

\* While a node stays online that the policy may give every task, a submitted
\* task is executed, cancelled, or caught by a failover.
QueuedTaskMovesOn ==
    \A n \in Nodes, t \in Tasks :
        <>[](/\ nodeStatus[n] = "online" /\ running
             /\ policy = "capability_based" => \A u \in Tasks : n \in Capable[u])
            => [](status[t] = "queued" =>
                    <>(status[t] \in {"running", "cancelled", "retrying", "failed"}))

---------------------------------------------------------------------------
\* A claim of the documentation that the code does not keep.

\* "Re-enqueues a failed task for retry." (distributed_queue.py:77): the entry
\* requeue() pushed leaves the heap by handing the task to a dispatcher.
RetryIsDispatched ==
    [][\A t \in Tasks : status[t] = "retrying" /\ InLine(t) /\ ~InLine(t)'
          => status'[t] = "dispatched"]_vars

---------------------------------------------------------------------------
\* The tasks inside execute_fn, and the abstract specification they obey.
Executing == {held[l] : l \in {m \in Loops : pc[m] = "execute"}}

Execution == INSTANCE TaskExecution
    WITH executing <- Executing,
         ended <- {t \in Tasks : runs[t] > 0} \ Executing,
         Width <- Cardinality(Loops)

\* The waiting line the cluster's threads see, whoever else they write down as
\* the node of a task.
Queue == INSTANCE PriorityFifo WITH assigned <- [t \in Tasks |-> NoNode]

\* Put together, the parts keep to what they promise by themselves: whoever
\* calls them here does what the queue's and the registry's own modules let
\* their callers do, and execute_fn is called as TaskExecution says.
PartsKeepTheirSpecs == Execution!Spec /\ Queue!FifoSpec /\ MembershipSpec
============================================================================
