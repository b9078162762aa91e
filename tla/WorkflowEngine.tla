--------------------------- MODULE WorkflowEngine ---------------------------
(***************************************************************************)
(* WorkflowEngine (backend/workflow/workflow.py) and one of its workflows: *)
(* execute() turns a loop that looks at the workflow's status, submits the *)
(* nodes whose predecessors succeeded to a thread pool, and waits for one  *)
(* of them; pause(), resume() and cancel() write the status from other     *)
(* threads under the engine's lock.  The status belongs to the workflow;   *)
(* the node statuses, the futures and the pool belong to one call of       *)
(* execute(), and the same workflow may be executed again.                 *)
(*                                                                         *)
(* What a node's plan does is reduced to how Executor.execute comes back:  *)
(* with a successful Result or with anything else (Executor.tla).          *)
(***************************************************************************)
EXTENDS Integers, FiniteSets

CONSTANTS Calls,     \* calls of execute() with this workflow
          Nodes,     \* workflow.nodes
          Preds,     \* what dependencies and edges put before each node
          Width      \* max_workers of the ThreadPoolExecutor

\* validate(): no cycle, so every non-empty set of nodes has one without a
\* predecessor in the set.
ASSUME WorkflowAssumption ==
    /\ IsFiniteSet(Nodes) /\ Nodes # {}
    /\ Preds \in [Nodes -> SUBSET Nodes]
    /\ \A S \in SUBSET Nodes : S # {} => \E n \in S : Preds[n] \cap S = {}
    /\ Width \in Nat \ {0}

VARIABLES wstatus,   \* _workflow_statuses[w_id]
          at,        \* where each call is
          nstatus,   \* node_statuses
          job,       \* the future of each node and what became of it
          result     \* overall_status of the WorkflowResult

engineVars == <<wstatus, at, nstatus, job, result>>

Ended == {"completed", "failed", "cancelled"}

EngineTypeOK ==
    /\ wstatus \in {"created", "running", "paused"} \cup Ended
    /\ at \in [Calls -> {"uncalled", "turn", "submit", "wait", "drain", "finish", "returned"}]
    /\ nstatus \in [Calls -> [Nodes -> {"pending", "running", "success", "failed", "cancelled"}]]
    /\ job \in [Calls -> [Nodes -> {"none", "submitted", "executing", "ok", "bad"}]]
    /\ result \in [Calls -> Ended \cup {"none"}]

EngineInit ==
    /\ wstatus = "created"
    /\ at = [c \in Calls |-> "uncalled"]
    /\ nstatus = [c \in Calls |-> [n \in Nodes |-> "pending"]]
    /\ job = [c \in Calls |-> [n \in Nodes |-> "none"]]
    /\ result = [c \in Calls |-> "none"]

Advance(c, from, to) == at[c] = from /\ at' = [at EXCEPT ![c] = to]

---------------------------------------------------------------------------
(* Other threads. *)

Pause ==
    /\ wstatus = "running"
    /\ wstatus' = "paused"
    /\ UNCHANGED <<at, nstatus, job, result>>

Resume ==
    /\ wstatus = "paused"
    /\ wstatus' = "running"
    /\ UNCHANGED <<at, nstatus, job, result>>

Cancel ==
    /\ wstatus \notin Ended
    /\ wstatus' = "cancelled"
    /\ UNCHANGED <<at, nstatus, job, result>>

---------------------------------------------------------------------------
(* The thread that calls execute(). *)

\* RUNNING is written whatever the status was.
Execute(c) ==
    /\ Advance(c, "uncalled", "turn")
    /\ wstatus' = "running"
    /\ UNCHANGED <<nstatus, job, result>>

\* The top of a turn: a paused call sleeps and looks again.
GoOn(c) ==
    /\ Advance(c, "turn", "submit")
    /\ wstatus \notin {"cancelled", "paused"}
    /\ UNCHANGED <<wstatus, nstatus, job, result>>

\* _cancel_remaining_nodes, and out of the loop.
SeeCancel(c) ==
    /\ Advance(c, "turn", "drain")
    /\ wstatus = "cancelled"
    /\ nstatus' = [nstatus EXCEPT ![c] = [n \in Nodes |->
                      IF @[n] \in {"pending", "running"} THEN "cancelled" ELSE @[n]]]
    /\ UNCHANGED <<wstatus, job, result>>

\* Faulty variant: a predecessor that is no longer running is enough.
EligibleWhenEnded(c) ==
    {n \in Nodes : /\ nstatus[c][n] = "pending"
                   /\ \A p \in Preds[n] : nstatus[c][p] \in {"success", "failed"}}

Eligible(c) ==
    {n \in Nodes : /\ nstatus[c][n] = "pending"
                   /\ \A p \in Preds[n] : nstatus[c][p] = "success"}

Running(c) == {n \in Nodes : nstatus[c][n] = "running"}

\* The eligible nodes go to the pool ...
Submit(c) ==
    /\ Advance(c, "submit", "wait")
    /\ Eligible(c) \cup Running(c) # {}
    /\ nstatus' = [nstatus EXCEPT ![c] = [n \in Nodes |->
                      IF n \in Eligible(c) THEN "running" ELSE @[n]]]
    /\ job' = [job EXCEPT ![c] = [n \in Nodes |->
                      IF n \in Eligible(c) THEN "submitted" ELSE @[n]]]
    /\ UNCHANGED <<wstatus, result>>

\* Faulty variant: the loop gives up at the first failed node.
GiveUpOnFailure(c) ==
    /\ Advance(c, "submit", "drain")
    /\ \/ Eligible(c) \cup Running(c) = {}
       \/ \E n \in Nodes : nstatus[c][n] = "failed"
    /\ nstatus' = [nstatus EXCEPT ![c] = [n \in Nodes |->
                      IF @[n] = "pending" THEN "failed" ELSE @[n]]]
    /\ UNCHANGED <<wstatus, job, result>>

\* ... or nothing runs and nothing can: pending nodes count as failed.
NothingLeft(c) ==
    /\ Advance(c, "submit", "drain")
    /\ Eligible(c) \cup Running(c) = {}
    /\ nstatus' = [nstatus EXCEPT ![c] = [n \in Nodes |->
                      IF @[n] = "pending" THEN "failed" ELSE @[n]]]
    /\ UNCHANGED <<wstatus, job, result>>

SubmitStep(c) == Submit(c) \/ NothingLeft(c)

\* Faulty variant: the loop waits for successful futures only.
CollectRetrying(c) ==
    /\ Advance(c, "wait", "turn")
    /\ \E n \in Running(c) : job[c][n] = "ok"
    /\ nstatus' = [nstatus EXCEPT ![c] = [n \in Nodes |->
                      IF n \in Running(c) /\ job[c][n] = "ok" THEN "success" ELSE @[n]]]
    /\ UNCHANGED <<wstatus, job, result>>

\* concurrent.futures.wait(..., FIRST_COMPLETED), and the loop over `done'.
Done(c) == {n \in Running(c) : job[c][n] \in {"ok", "bad"}}

Collect(c) ==
    /\ Advance(c, "wait", "turn")
    /\ Done(c) # {}
    /\ nstatus' = [nstatus EXCEPT ![c] = [n \in Nodes |->
                      IF n \notin Done(c) THEN @[n]
                      ELSE IF job[c][n] = "ok" THEN "success" ELSE "failed"]]
    /\ UNCHANGED <<wstatus, job, result>>

\* Faulty variant: the pool is shut down without waiting.
DrainAtOnce(c) ==
    /\ Advance(c, "drain", "finish")
    /\ UNCHANGED <<wstatus, nstatus, job, result>>

\* The end of the `with' block waits for every future.
Drain(c) ==
    /\ Advance(c, "drain", "finish")
    /\ \A n \in Nodes : job[c][n] \notin {"submitted", "executing"}
    /\ UNCHANGED <<wstatus, nstatus, job, result>>

AllSuccess(c) == \A n \in Nodes : nstatus[c][n] = "success"

\* Faulty variant: the outcome is written over a cancel.
FinishAnyway(c) ==
    /\ Advance(c, "finish", "returned")
    /\ wstatus' = IF AllSuccess(c) THEN "completed" ELSE "failed"
    /\ result' = [result EXCEPT ![c] = wstatus']
    /\ UNCHANGED <<nstatus, job>>

\* Faulty variant: the workflow completes when its last node does.
FinishOnAnySuccess(c) ==
    /\ Advance(c, "finish", "returned")
    /\ wstatus' = IF wstatus = "cancelled" THEN "cancelled"
                  ELSE IF \E n \in Nodes : nstatus[c][n] = "success" THEN "completed" ELSE "failed"
    /\ result' = [result EXCEPT ![c] = wstatus']
    /\ UNCHANGED <<nstatus, job>>

\* Resolve overall status: anything but CANCELLED is overwritten.
Finish(c) ==
    /\ Advance(c, "finish", "returned")
    /\ wstatus' = IF wstatus = "cancelled" THEN "cancelled"
                  ELSE IF AllSuccess(c) THEN "completed" ELSE "failed"
    /\ result' = [result EXCEPT ![c] = wstatus']
    /\ UNCHANGED <<nstatus, job>>

CallStep(c) ==
    GoOn(c) \/ SeeCancel(c) \/ SubmitStep(c) \/ Collect(c) \/ Drain(c) \/ Finish(c)

---------------------------------------------------------------------------
(* The threads of the pool. *)

Busy(c) == {n \in Nodes : job[c][n] = "executing"}

StartJob(c, n) ==
    /\ job[c][n] = "submitted"
    /\ Cardinality(Busy(c)) < Width
    /\ job' = [job EXCEPT ![c][n] = "executing"]
    /\ UNCHANGED <<wstatus, at, nstatus, result>>

EndJob(c, n) ==
    /\ job[c][n] = "executing"
    /\ \E r \in {"ok", "bad"} : job' = [job EXCEPT ![c][n] = r]
    /\ UNCHANGED <<wstatus, at, nstatus, result>>

PoolStep(c) == \E n \in Nodes : StartJob(c, n) \/ EndJob(c, n)

EngineNext ==
    \/ Pause \/ Resume \/ Cancel
    \/ \E c \in Calls : Execute(c) \/ CallStep(c) \/ PoolStep(c)

EngineSpec == EngineInit /\ [][EngineNext]_engineVars

\* The calling thread and the pool's threads keep running, and each plan
\* comes back (ExecutionEnds of Executor.tla).
EngineFairSpec ==
    EngineSpec /\ \A c \in Calls : WF_engineVars(CallStep(c)) /\ WF_engineVars(PoolStep(c))

---------------------------------------------------------------------------
(* Properties. *)

\* A node is handed to the pool only after everything before it, by its
\* dependencies or by an edge, really came back successful.
NodesWaitForPredecessors ==
    \A c \in Calls, n \in Nodes :
        job[c][n] # "none" => \A p \in Preds[n] : job[c][p] = "ok"

\* Nothing of an execute() that returned is left running in the background.
NothingOutlivesExecute ==
    \A c \in Calls, n \in Nodes :
        at[c] \in {"finish", "returned"} => job[c][n] \in {"none", "ok", "bad"}

\* So a node's plan runs only inside the time the graph and the call give it.
NodesKeepToTheirTime == NodesWaitForPredecessors /\ NothingOutlivesExecute

\* No other call has begun: nobody else writes this workflow's status.
OnlyCall(c) == \A e \in Calls \ {c} : at[e] = "uncalled"

\* A failure holds up its descendants and nothing else: without a cancel, the
\* nodes never run are the ones behind a node that failed or never ran.
FailureStopsDescendantsOnly ==
    \A c \in Calls : OnlyCall(c) /\ result[c] \in {"completed", "failed"} =>
        \A n \in Nodes :
            job[c][n] = "none" <=> \E p \in Preds[n] : job[c][p] \in {"none", "bad"}

\* execute() returns COMPLETED when every plan succeeded, and FAILED only when
\* one did not, never because the graph got stuck.
ResultReflectsTheNodes ==
    \A c \in Calls :
        /\ result[c] = "completed" => \A n \in Nodes : job[c][n] = "ok"
        /\ OnlyCall(c) /\ result[c] = "failed" => \E n \in Nodes : job[c][n] = "bad"

\* Once the calls of execute() have begun, a cancel that returned True is
\* never overwritten by an outcome.
CancelStands ==
    wstatus = "cancelled" /\ (\A c \in Calls : at[c] # "uncalled") => wstatus' = "cancelled"

CancelIsFinal == [][CancelStands]_engineVars

\* So each step leaves an outcome that stands and is what the nodes did:
\* failures, outcomes and cancels alike.
OutcomeStands ==
    [][FailureStopsDescendantsOnly' /\ ResultReflectsTheNodes' /\ CancelStands]_engineVars

\* What a call's pool does with the nodes, as TaskExecution says it.
Pool(c) == INSTANCE TaskExecution
    WITH Tasks <- Nodes,
         executing <- Busy(c),
         ended <- {n \in Nodes : job[c][n] \in {"ok", "bad"}}

\* execute() returns unless somebody keeps pausing the workflow: neither a
\* failed node nor a pool with too few threads hangs it.
ExecuteReturns ==
    \A c \in Calls :
        <>[](wstatus # "paused") => [](at[c] = "turn" => <>(at[c] = "returned"))
============================================================================
