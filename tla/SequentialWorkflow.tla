------------------------- MODULE SequentialWorkflow -------------------------
(***************************************************************************)
(* One execution by backend/workflows: WorkflowEngine.execute_workflow and *)
(* WorkflowExecutor.execute.  The steps of the definition run one after    *)
(* the other in the caller's thread, the main lane; when all went well the *)
(* parallel branches run, each a lane of its own, on a pool of MaxWorkers  *)
(* threads.  Every attempt at a step runs its handler on a pool of one     *)
(* thread, and leaving that pool waits for the handler.  Variables, step   *)
(* outputs, metrics and events are left out; a condition has any outcome.  *)
(***************************************************************************)
EXTENDS Integers, Sequences, FiniteSets

CONSTANTS Lanes, Main,  \* the branches, and the definition's own steps
          LaneLength,   \* the number of steps of each lane
          MaxRetries,   \* max_retries of every step
          MaxWorkers    \* max_workers of the branches' pool

ASSUME SequentialAssumption ==
    /\ Main \in Lanes
    /\ IsFiniteSet(Lanes)
    /\ LaneLength \in [Lanes -> Nat]
    /\ MaxRetries \in Nat
    /\ MaxWorkers \in Nat \ {0}

VARIABLES outcome,      \* execution.status; NONE before the execution
          lane,         \* where each lane is: place, step and attempt
          results,      \* step_results, by lane
          collected,    \* branches whose future was waited for
          branchErrors, \* some of them came with an error
          isCancelled,  \* context.is_cancelled
          contexts,     \* the keys of _active_contexts
          asked,        \* history: cancel_workflow was called with the published id
          begunAfter    \* history: steps each lane began after the cancellation

seqVars == <<outcome, lane, results, collected, branchErrors, isCancelled,
             contexts, asked, begunAfter>>
engineOnly == <<isCancelled, contexts, asked>>

Branches == Lanes \ {Main}
StepResults == {"COMPLETED", "FAILED", "TIMED_OUT", "SKIPPED"}
Outcomes == {"COMPLETED", "FAILED", "TIMED_OUT", "CANCELLED"}

SequentialTypeOK ==
    /\ outcome \in {"NONE", "RUNNING"} \cup Outcomes
    /\ lane \in [Lanes -> [at : {"idle", "check", "try", "handler", "overdue", "collect", "over"},
                           step : Nat, attempt : 0..MaxRetries]]
    /\ results \in [Lanes -> Seq(StepResults)]
    /\ collected \subseteq Branches
    /\ branchErrors \in BOOLEAN
    /\ isCancelled \in BOOLEAN
    /\ contexts \subseteq {"engine's id", "executor's id"}
    /\ asked \in BOOLEAN
    /\ begunAfter \in [Lanes -> Nat]

SequentialInit ==
    /\ outcome = "NONE"
    /\ lane = [l \in Lanes |-> [at |-> "idle", step |-> 1, attempt |-> 0]]
    /\ results = [l \in Lanes |-> <<>>]
    /\ collected = {}
    /\ branchErrors = FALSE
    /\ isCancelled = FALSE
    /\ contexts = {}
    /\ asked = FALSE
    /\ begunAfter = [l \in Lanes |-> 0]

Ran == {"COMPLETED", "SKIPPED"}
AllRan(l) == Len(results[l]) = LaneLength[l] /\ \A i \in DOMAIN results[l] : results[l][i] \in Ran

---------------------------------------------------------------------------
\* execute_workflow: the context is stored under the id of a record that the
\* executor's record, with an id of its own, then replaces.  The finally clause
\* looks for that id, and so the context is never removed.
ExecuteWorkflow ==
    /\ outcome = "NONE"
    /\ outcome' = "RUNNING"
    /\ contexts' = {"engine's id"}
    /\ lane' = [lane EXCEPT ![Main].at = "check"]
    /\ UNCHANGED <<results, collected, branchErrors, isCancelled, asked, begunAfter>>

\* context.cancel() by whoever shares the context
CancelContext ==
    /\ ~isCancelled
    /\ isCancelled' = TRUE
    /\ UNCHANGED <<outcome, lane, results, collected, branchErrors, contexts, asked, begunAfter>>

\* cancel_workflow with the id that workflow.started publishes
CancelWorkflow ==
    /\ outcome = "RUNNING"
    /\ asked' = TRUE
    /\ isCancelled' = (isCancelled \/ "executor's id" \in contexts)
    /\ UNCHANGED <<outcome, lane, results, collected, branchErrors, contexts, begunAfter>>

---------------------------------------------------------------------------
\* The head of a lane's loop: no step is left, ...
LaneEnds(l) ==
    /\ lane[l].at = "check"
    /\ lane[l].step > LaneLength[l]
    /\ lane' = [lane EXCEPT ![l].at = IF l = Main THEN "collect" ELSE "over"]
    /\ UNCHANGED <<outcome, results, collected, branchErrors, engineOnly, begunAfter>>

\* ... the context is cancelled, ...
LaneCancelled(l) ==
    /\ lane[l].at = "check"
    /\ lane[l].step <= LaneLength[l]
    /\ isCancelled
    /\ lane' = [lane EXCEPT ![l].at = "over"]
    /\ outcome' = IF l = Main THEN "CANCELLED" ELSE outcome
    /\ UNCHANGED <<results, collected, branchErrors, engineOnly, begunAfter>>

\* Faulty variant: a branch does not look whether it is cancelled.
BeginLaneStepAnyway(l) ==
    /\ lane[l].at = "check"
    /\ lane[l].step <= LaneLength[l]
    /\ ~isCancelled \/ l # Main
    /\ lane' = [lane EXCEPT ![l] = [at |-> "try", step |-> @.step, attempt |-> 0]]
    /\ begunAfter' = [begunAfter EXCEPT ![l] = IF isCancelled THEN @ + 1 ELSE @]
    /\ UNCHANGED <<outcome, results, collected, branchErrors, engineOnly>>

\* ... or _run_step begins with the next step.
BeginLaneStep(l) ==
    /\ lane[l].at = "check"
    /\ lane[l].step <= LaneLength[l]
    /\ ~isCancelled
    /\ lane' = [lane EXCEPT ![l] = [at |-> "try", step |-> @.step, attempt |-> 0]]
    /\ UNCHANGED <<outcome, results, collected, branchErrors, engineOnly, begunAfter>>

\* A handler is submitted, in the first attempt or a later one.
SubmitHandler(l) ==
    /\ lane[l].at = "try"
    /\ lane' = [lane EXCEPT ![l].at = "handler"]
    /\ begunAfter' = [begunAfter EXCEPT ![l] = IF isCancelled /\ lane[l].attempt = 0 THEN @ + 1 ELSE @]
    /\ UNCHANGED <<outcome, results, collected, branchErrors, engineOnly>>

\* A step comes to its result: the lane goes on if that is good.
Comes(l, r) ==
    /\ results' = [results EXCEPT ![l] = Append(@, r)]
    /\ lane' = [lane EXCEPT ![l] = [at |-> IF r \in Ran THEN "check" ELSE "over",
                                    step |-> @.step + 1, attempt |-> 0]]
    /\ outcome' = IF l = Main /\ r \notin Ran THEN r ELSE outcome
    /\ UNCHANGED <<collected, branchErrors, engineOnly, begunAfter>>

\* The condition says no, or there is no handler for the step's type.
NoHandlerRuns(l) ==
    /\ lane[l].at = "try" /\ lane[l].attempt = 0
    /\ \E r \in {"SKIPPED", "FAILED"} : Comes(l, r)

\* The handler returns in time.
HandlerReturns(l) ==
    /\ lane[l].at = "handler"
    /\ Comes(l, "COMPLETED")

\* The handler raises: another attempt if one is left, whether cancelled or not.
HandlerRaises(l) ==
    /\ lane[l].at = "handler"
    /\ IF lane[l].attempt < MaxRetries
       THEN /\ lane' = [lane EXCEPT ![l] = [at |-> "try", step |-> @.step, attempt |-> @.attempt + 1]]
            /\ UNCHANGED <<outcome, results, collected, branchErrors, engineOnly, begunAfter>>
       ELSE Comes(l, "FAILED")

\* future.result times out; the lane waits for the handler all the same, ...
HandlerOverruns(l) ==
    /\ lane[l].at = "handler"
    /\ lane' = [lane EXCEPT ![l].at = "overdue"]
    /\ UNCHANGED <<outcome, results, collected, branchErrors, engineOnly, begunAfter>>

\* ... and a timeout is final, whatever the handler comes to.
OverdueHandlerEnds(l) ==
    /\ lane[l].at = "overdue"
    /\ Comes(l, "TIMED_OUT")

---------------------------------------------------------------------------
\* _run_parallel_branches: all branches are submitted at once; each starts
\* when a thread of the pool is free.
InPool == {b \in Branches : lane[b].at \notin {"idle", "over"}}
StartBranch(b) ==
    /\ lane[Main].at = "collect"
    /\ lane[b].at = "idle"
    /\ Cardinality(InPool) < MaxWorkers
    /\ lane' = [lane EXCEPT ![b].at = "check"]
    /\ UNCHANGED <<outcome, results, collected, branchErrors, engineOnly, begunAfter>>

\* future.result(timeout=300) of a branch: its errors, or that of the wait.
CollectBranch(b) ==
    /\ lane[Main].at = "collect"
    /\ b \notin collected
    /\ collected' = collected \cup {b}
    /\ \/ /\ lane[b].at = "over"
          /\ branchErrors' = (branchErrors \/ \E i \in DOMAIN results[b] : results[b][i] \notin Ran)
       \/ /\ lane[b].at # "over"
          /\ branchErrors' = TRUE
    /\ UNCHANGED <<outcome, lane, results, engineOnly, begunAfter>>

\* Faulty variant: execute() does not wait for branches it gave up on.
EndBranchesEarly ==
    /\ lane[Main].at = "collect"
    /\ collected = Branches
    /\ lane' = [lane EXCEPT ![Main].at = "over"]
    /\ outcome' = IF branchErrors THEN "FAILED" ELSE "COMPLETED"
    /\ UNCHANGED <<results, collected, branchErrors, engineOnly, begunAfter>>

\* Leaving the pool waits for every branch; then the final status is set.
EndBranches ==
    /\ lane[Main].at = "collect"
    /\ collected = Branches
    /\ \A b \in Branches : lane[b].at = "over"
    /\ lane' = [lane EXCEPT ![Main].at = "over"]
    /\ outcome' = IF branchErrors THEN "FAILED" ELSE "COMPLETED"
    /\ UNCHANGED <<results, collected, branchErrors, engineOnly, begunAfter>>

SequentialNext ==
    \/ ExecuteWorkflow \/ CancelContext \/ CancelWorkflow \/ EndBranches
    \/ \E l \in Lanes :
          \/ LaneEnds(l) \/ LaneCancelled(l) \/ BeginLaneStep(l) \/ SubmitHandler(l)
          \/ NoHandlerRuns(l) \/ HandlerReturns(l) \/ HandlerRaises(l)
          \/ HandlerOverruns(l) \/ OverdueHandlerEnds(l)
    \/ \E b \in Branches : StartBranch(b) \/ CollectBranch(b)

SequentialSpec == SequentialInit /\ [][SequentialNext]_seqVars

---------------------------------------------------------------------------
\* After a cancellation each lane submits at most one further step to its
\* handler, the one whose turn had come; what retries that step has left are
\* still used.  This holds for the branches, which start later, too.
CancelStopsEachLane == \A l \in Lanes : begunAfter[l] <= 1

\* When execute() has returned, no handler of any lane runs on, and its status
\* is what the results say: COMPLETED only with nothing failed and nothing left
\* out except by a cancellation the main lane was too far on to see; CANCELLED
\* only if the main lane stopped short and no branch ran; FAILED and TIMED_OUT
\* only with a result, or a branch that took too long, to show for it.
StatusReflectsLanes ==
    outcome \in Outcomes =>
        /\ \A l \in Lanes : lane[l].at \in {"idle", "over"}
        /\ outcome = "COMPLETED" =>
              /\ AllRan(Main)
              /\ \A l \in Branches : AllRan(l) \/ isCancelled
              /\ \A l \in Lanes : \A i \in DOMAIN results[l] : results[l][i] \in Ran
        /\ outcome # "COMPLETED" /\ ~branchErrors =>
              /\ \A b \in Branches : results[b] = <<>>
              /\ outcome = "CANCELLED" => isCancelled /\ Len(results[Main]) < LaneLength[Main]
              /\ outcome # "CANCELLED" => results[Main][Len(results[Main])] = outcome
        /\ branchErrors => outcome = "FAILED"

\* So the lanes stop when they are told to, and the status tells what they did.
LanesAreAccountedFor == CancelStopsEachLane /\ StatusReflectsLanes

\* "Signals a running execution to stop after its current step": a caller with
\* the id the execution published reaches it.  It does not: the context is
\* known under another id.
CancelReachesTheExecution == asked => isCancelled
=============================================================================
