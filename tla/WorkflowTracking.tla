-------------------------- MODULE WorkflowTracking --------------------------
(***************************************************************************)
(* ClusterManager.submit_task (cluster_manager.py) against the state of    *)
(* ExecutionCoordinator (execution_coordinator.py).  Each call of          *)
(* submit_task runs in a thread of its own and makes one task: it looks,   *)
(* without the coordinator's lock, whether the workflow is tracked,        *)
(* registers it if not, adds the task to it and enqueues the task.  The    *)
(* coordinator's own methods hold its lock and are one step each.          *)
(***************************************************************************)
EXTENDS Integers, Sequences, FiniteSets

CONSTANTS Calls,        \* the calls of submit_task, and the tasks they make
          Workflows,
          WorkflowOf,   \* the workflow_id argument of each call
          NoState       \* a workflow that is not in _workflows

ASSUME TrackingAssumption ==
    /\ WorkflowOf \in [Calls -> Workflows]
    /\ \A ids \in SUBSET Calls, s \in {"pending", "running"} :
          NoState # [tasks |-> ids, status |-> s]

VARIABLES workflows,    \* _workflows; the task list of a state as a set
          at,           \* where each call is
          found,        \* history: what the check of each call found
          queue         \* tasks that were enqueued

trackingVars == <<workflows, at, found, queue>>

States == [tasks : SUBSET Calls, status : {"pending", "running"}]

TrackingTypeOK ==
    /\ workflows \in [Workflows -> States \cup {NoState}]
    /\ at \in [Calls -> {"check", "register", "add", "enqueue", "returned"}]
    /\ found \in [Calls -> {"nothing yet", "tracked", "missing"}]
    /\ queue \subseteq Calls

Tracked(w) == workflows[w] # NoState

TrackingInit ==
    /\ workflows = [w \in Workflows |-> NoState]
    /\ at = [c \in Calls |-> "check"]
    /\ found = [c \in Calls |-> "nothing yet"]
    /\ queue = {}

Step(c, from, to) == at[c] = from /\ at' = [at EXCEPT ![c] = to]

\* Faulty variant: the check and the registration are one step, but whatever
\* state there is gets replaced.
AlwaysRegister(c) ==
    /\ Step(c, "check", "add")
    /\ found' = [found EXCEPT ![c] = IF Tracked(WorkflowOf[c]) THEN "tracked" ELSE "missing"]
    /\ workflows' = [workflows EXCEPT ![WorkflowOf[c]] = [tasks |-> {}, status |-> "pending"]]
    /\ UNCHANGED queue

\* if not self.coordinator._workflows.get(workflow_id)
Check(c) ==
    /\ IF Tracked(WorkflowOf[c])
       THEN Step(c, "check", "add") /\ found' = [found EXCEPT ![c] = "tracked"]
       ELSE Step(c, "check", "register") /\ found' = [found EXCEPT ![c] = "missing"]
    /\ UNCHANGED <<workflows, queue>>

\* register_workflow(workflow_id): a new state, whether or not there is one.
RegisterWorkflow(c) ==
    /\ Step(c, "register", "add")
    /\ workflows' = [workflows EXCEPT ![WorkflowOf[c]] = [tasks |-> {}, status |-> "pending"]]
    /\ UNCHANGED <<found, queue>>

\* add_task_to_workflow(workflow_id, task)
AddTask(c) ==
    /\ Step(c, "add", "enqueue")
    /\ workflows' = IF Tracked(WorkflowOf[c])
                    THEN [workflows EXCEPT ![WorkflowOf[c]].tasks = @ \cup {c}]
                    ELSE workflows
    /\ UNCHANGED <<found, queue>>

\* queue.enqueue(task); return task_id
EnqueueTask(c) ==
    /\ Step(c, "enqueue", "returned")
    /\ queue' = queue \cup {c}
    /\ UNCHANGED <<workflows, found>>

\* update_workflow_status(workflow_id, status)
UpdateStatus(w, s) ==
    /\ Tracked(w)
    /\ workflows' = [workflows EXCEPT ![w].status = s]
    /\ UNCHANGED <<at, found, queue>>

TrackingNext ==
    \/ \E c \in Calls : Check(c) \/ RegisterWorkflow(c) \/ AddTask(c) \/ EnqueueTask(c)
    \/ \E w \in Workflows, s \in {"pending", "running"} : UpdateStatus(w, s)

TrackingSpec == TrackingInit /\ [][TrackingNext]_trackingVars

---------------------------------------------------------------------------
CallsFor(w) == {c \in Calls : WorkflowOf[c] = w}
FoundMissing(w) == {c \in CallsFor(w) : found[c] = "missing"}
Lost(c) == at[c] \in {"enqueue", "returned"} /\ c \notin workflows[WorkflowOf[c]].tasks

\* A task is missing from the progress of its workflow only when two calls
\* for that workflow both found it untracked.
OnlyARaceLosesTasks ==
    \A c \in Calls : Lost(c) => \E d, e \in FoundMissing(WorkflowOf[c]) : d # e

\* Registration never wipes a workflow for good: when the calls for it have
\* all returned, the one that registered it last is still tracked.
LastRegistrationIsTracked ==
    \A w \in Workflows :
        CallsFor(w) # {} /\ (\A c \in CallsFor(w) : at[c] = "returned")
            => Tracked(w) /\ workflows[w].tasks \cap FoundMissing(w) # {}

\* So the progress of a workflow leaves out a task only for that race, and
\* never all of them.
TrackingKeepsTasks == OnlyARaceLosesTasks /\ LastRegistrationIsTracked
============================================================================
