----------------------------- MODULE Automation -----------------------------
(***************************************************************************)
(* WorkflowExecutor of backend/workflow/automation_engine.py: one instance *)
(* of a stored workflow, its row and its approvals in the database         *)
(* (backend/api/sqlite_mock.py), and the threads that work on it.  A call  *)
(* is execute() or approve_step(); each starts a thread _run_instance,     *)
(* which goes by the name of its call.  A thread reads the row, goes on    *)
(* with its own copy of the step statuses and writes all of them back.     *)
(* Every database call is a step; no two of them are in one transaction.   *)
(*                                                                         *)
(* Nothing looks whether the names in "dependencies" and in the branches   *)
(* of a condition are steps.  A restart of the process ends all threads    *)
(* and keeps the database: a file, as DBStorage has it by default.  With   *)
(* ":memory:", as in the server, the instance is gone with its threads.    *)
(* Results, variables, the history table and the event bus are left out.   *)
(* A step comes back successful or not, after whatever retries.            *)
(***************************************************************************)
EXTENDS Integers

CONSTANTS Calls,        \* calls of execute and approve_step
          Steps,
          Position,     \* the order of the steps in the definition
          Strangers,    \* names that no step has
          Deps,         \* "dependencies" of each step
          Approvals,    \* the steps of type "approval"
          Skips,        \* a condition's two branches, one of which it skips
          NoStep, NoCall,
          MaxRestarts   \* bound on the restarts of the process

ASSUME AutomationAssumption ==
    /\ Position \in [Steps -> Nat]
    /\ \A s, t \in Steps : Position[s] = Position[t] => s = t
    /\ Strangers \cap Steps = {}
    /\ Deps \in [Steps -> SUBSET (Steps \cup Strangers)]
    /\ Skips \in [Steps -> SUBSET (Steps \cup Strangers)]
    /\ Approvals \subseteq Steps
    /\ NoStep \notin Steps
    /\ NoCall \notin Calls
    /\ MaxRestarts \in Nat

VARIABLES row,          \* the instance's row in workflow_instances
          approval,     \* the row in workflow_approvals that each thread wrote
          thread,       \* the calls' threads and their local variables
          restarts,
          runs,         \* history: how often each step was carried out
          settled,      \* history: steps done, approved or skipped
          raced         \* history: two decisions, or one too early, met an approval

autoVars == <<row, approval, thread, restarts, runs, settled, raced>>
history == <<restarts, runs, settled, raced>>

StepStatuses == {"PENDING", "RUNNING", "PAUSED", "COMPLETED", "FAILED"}
InstanceStatuses == {"NONE"} \cup StepStatuses
Ended == {"COMPLETED", "FAILED"}
Decisions == {"APPROVED", "REJECTED"}
NoApproval == [step |-> NoStep, status |-> "NONE"]

Deciding == {"decide", "load", "store"}
Working == {"read", "claim", "look", "begin", "ask", "pause", "perform", "save", "conclude"}

ThreadStates ==
    [at : {"idle", "returned", "killed"} \cup Deciding \cup Working,
     copy : [Steps -> StepStatuses],
     ready : SUBSET Steps,
     step : Steps \cup {NoStep},
     about : Calls \cup {NoCall},
     decision : Decisions]

AutomationTypeOK ==
    /\ row \in [status : InstanceStatuses, steps : [Steps -> StepStatuses]]
    /\ approval \in [Calls -> [step : Approvals \cup {NoStep},
                               status : Decisions \cup {"NONE", "PENDING"}]]
    /\ thread \in [Calls -> ThreadStates]
    /\ restarts \in 0..MaxRestarts
    /\ runs \in [Steps -> Nat]
    /\ settled \subseteq Steps
    /\ raced \in BOOLEAN

AllPending == [s \in Steps |-> "PENDING"]
Outside(at) == [at |-> at, copy |-> AllPending, ready |-> {}, step |-> NoStep,
                about |-> NoCall, decision |-> "APPROVED"]

AutomationInit ==
    /\ row = [status |-> "NONE", steps |-> AllPending]
    /\ approval = [c \in Calls |-> NoApproval]
    /\ thread = [c \in Calls |-> Outside("idle")]
    /\ restarts = 0
    /\ runs = [s \in Steps |-> 0]
    /\ settled = {}
    /\ raced = FALSE

Becomes(c, t) == thread' = [thread EXCEPT ![c] = t]
Goes(c, from, to) == thread[c].at = from /\ Becomes(c, [thread[c] EXCEPT !.at = to])
Returns(c, from) == thread[c].at = from /\ Becomes(c, Outside("returned"))
Writes(status, steps) == row' = [status |-> status, steps |-> steps]

---------------------------------------------------------------------------
\* execute(): create_workflow_instance, then the thread is started.
ExecuteDefinition(c) ==
    /\ row.status = "NONE"
    /\ Goes(c, "idle", "read")
    /\ Writes("PENDING", AllPending)
    /\ UNCHANGED <<approval, history>>

\* Faulty variant: the status of the approval is not compared.
CheckAnyApproval(c, a, d) ==
    /\ thread[c].at = "idle"
    /\ approval[a].status # "NONE"
    /\ Becomes(c, [thread[c] EXCEPT !.at = "decide", !.about = a, !.decision = d])
    /\ raced' = (raced \/ \E e \in Calls : thread[e].about = a /\ thread[e].at = "decide")
    /\ UNCHANGED <<row, approval, restarts, runs, settled>>

\* approve_step(): get_workflow_approval and the comparison with PENDING.
\* A call that finds the approval decided returns False and changes nothing.
CheckApproval(c, a, d) ==
    /\ thread[c].at = "idle"
    /\ approval[a].status = "PENDING"
    /\ Becomes(c, [thread[c] EXCEPT !.at = "decide", !.about = a, !.decision = d])
    /\ raced' = (raced \/ \E e \in Calls : thread[e].about = a /\ thread[e].at = "decide")
    /\ UNCHANGED <<row, approval, restarts, runs, settled>>

\* update_workflow_approval, which looks at no status
Decide(c) ==
    LET a == thread[c].about IN
    /\ Goes(c, "decide", "load")
    /\ approval' = [approval EXCEPT ![a] = [step |-> @.step, status |-> thread[c].decision]]
    /\ settled' = IF thread[c].decision = "APPROVED"
                  THEN settled \cup {approval[a].step} ELSE settled
    /\ UNCHANGED <<row, restarts, runs, raced>>

\* get_workflow_instance; the decision goes into the copy that was read.
LoadInstance(c) ==
    LET a == thread[c].about IN
    /\ thread[c].at = "load"
    /\ Becomes(c, [thread[c] EXCEPT !.at = "store",
                       !.copy = [row.steps EXCEPT ![approval[a].step] =
                           IF thread[c].decision = "APPROVED" THEN "COMPLETED" ELSE "FAILED"]])
    /\ raced' = (raced \/ thread[a].at = "pause")
    /\ UNCHANGED <<row, approval, restarts, runs, settled>>

\* update_workflow_instance(RUNNING), then a new thread is started.
StoreDecision(c) ==
    /\ Goes(c, "store", "read")
    /\ Writes("RUNNING", thread[c].copy)
    /\ UNCHANGED <<approval, history>>

---------------------------------------------------------------------------
\* _run_instance: get_workflow_instance
ReadInstance(c) ==
    /\ IF row.status \in Ended
       THEN Returns(c, "read")
       ELSE /\ thread[c].at = "read"
            /\ Becomes(c, [thread[c] EXCEPT !.at = "claim", !.copy = row.steps])
    /\ UNCHANGED <<row, approval, history>>

\* update_workflow_instance(RUNNING), before the loop
ClaimInstance(c) ==
    /\ Goes(c, "claim", "look")
    /\ Writes("RUNNING", thread[c].copy)
    /\ UNCHANGED <<approval, history>>

\* Faulty variant: a dependency that failed is over, too.
ReadyStepsAfterFailure(copy) ==
    {s \in Steps : copy[s] = "PENDING" /\ \A d \in Deps[s] : d \in Steps /\ copy[d] \in Ended}

\* step_statuses.get(d) is None for what is no step, and so never COMPLETED.
ReadySteps(copy) ==
    {s \in Steps : copy[s] = "PENDING"
                    /\ \A d \in Deps[s] : d \in Steps /\ copy[d] = "COMPLETED"}

\* The head of the loop.  The thread returns without a word when nothing is
\* ready and some step is RUNNING.
LookForSteps(c) ==
    LET copy == thread[c].copy
        ready == ReadySteps(copy) IN
    /\ \/ /\ ready # {}
          /\ thread[c].at = "look"
          /\ Becomes(c, [thread[c] EXCEPT !.at = "begin", !.ready = ready])
       \/ /\ ready = {}
          /\ IF \E s \in Steps : copy[s] = "RUNNING"
             THEN Returns(c, "look") ELSE Goes(c, "look", "conclude")
    /\ UNCHANGED <<row, approval, history>>

\* Faulty variant: what is not pending is taken for completed.
ConcludeUnlessPending(c) ==
    LET copy == thread[c].copy IN
    /\ Returns(c, "conclude")
    /\ Writes(IF \E s \in Steps : copy[s] = "PENDING" THEN "FAILED" ELSE "COMPLETED", copy)
    /\ UNCHANGED <<approval, history>>

\* The final status is written.
Conclude(c) ==
    LET copy == thread[c].copy IN
    /\ Returns(c, "conclude")
    /\ Writes(IF \E s \in Steps : copy[s] = "FAILED" THEN "FAILED" ELSE "COMPLETED", copy)
    /\ UNCHANGED <<approval, history>>

IsFirst(s, ready) == s \in ready /\ \A t \in ready : Position[s] <= Position[t]

\* The next of the ready steps is stored as RUNNING.
BeginStep(c) ==
    \E s \in Steps :
        LET copy == [thread[c].copy EXCEPT ![s] = "RUNNING"] IN
        /\ thread[c].at = "begin"
        /\ IsFirst(s, thread[c].ready)
        /\ Becomes(c, [thread[c] EXCEPT !.at = IF s \in Approvals THEN "ask" ELSE "perform",
                                        !.copy = copy, !.step = s, !.ready = @ \ {s}])
        /\ Writes("RUNNING", copy)
        /\ UNCHANGED <<approval, history>>

\* create_workflow_approval
AskForApproval(c) ==
    /\ Goes(c, "ask", "pause")
    /\ approval' = [approval EXCEPT ![c] = [step |-> thread[c].step, status |-> "PENDING"]]
    /\ UNCHANGED <<row, history>>

\* update_workflow_instance(PAUSED); the thread returns, other ready steps or not.
PauseInstance(c) ==
    /\ Returns(c, "pause")
    /\ Writes("PAUSED", [thread[c].copy EXCEPT ![thread[c].step] = "PAUSED"])
    /\ UNCHANGED <<approval, history>>

\* The branch that a condition does not select is skipped if it is a step.
SkippedBy(s) == IF Skips[s] = {} THEN {{}} ELSE {{b} \cap Steps : b \in Skips[s]}

\* _execute_step_safely succeeds ...
StepSucceeds(c) ==
    LET s == thread[c].step IN
    /\ thread[c].at = "perform"
    /\ \E skipped \in SkippedBy(s) :
          LET done == skipped \cup {s} IN
          /\ Becomes(c, [thread[c] EXCEPT !.at = "save",
                !.copy = [t \in Steps |-> IF t \in done THEN "COMPLETED" ELSE @[t]]])
          /\ settled' = settled \cup done
    /\ runs' = [runs EXCEPT ![s] = @ + 1]
    /\ UNCHANGED <<row, approval, restarts, raced>>


\* ... or fails for good.
StepFails(c) ==
    LET s == thread[c].step IN
    /\ thread[c].at = "perform"
    /\ Becomes(c, [thread[c] EXCEPT !.at = "save", !.copy = [@ EXCEPT ![s] = "FAILED"]])
    /\ runs' = [runs EXCEPT ![s] = @ + 1]
    /\ UNCHANGED <<row, approval, restarts, settled, raced>>

\* update_workflow_instance(RUNNING) after a step
SaveStep(c) ==
    /\ Goes(c, "save", IF thread[c].ready = {} THEN "look" ELSE "begin")
    /\ Writes("RUNNING", thread[c].copy)
    /\ UNCHANGED <<approval, history>>

\* The process is restarted: the database is all that is left.
Restart ==
    /\ restarts < MaxRestarts
    /\ restarts' = restarts + 1
    /\ thread' = [c \in Calls |-> IF thread[c].at \in Deciding \cup Working
                                  THEN Outside("killed") ELSE thread[c]]
    /\ UNCHANGED <<row, approval, runs, settled, raced>>

ThreadStep(c) ==
    \/ Decide(c) \/ LoadInstance(c) \/ StoreDecision(c)
    \/ ReadInstance(c) \/ ClaimInstance(c) \/ LookForSteps(c) \/ Conclude(c)
    \/ BeginStep(c) \/ AskForApproval(c) \/ PauseInstance(c)
    \/ StepSucceeds(c) \/ StepFails(c) \/ SaveStep(c)

AutomationNext ==
    \/ \E c \in Calls : ExecuteDefinition(c) \/ ThreadStep(c)
    \/ \E c, a \in Calls, d \in Decisions : CheckApproval(c, a, d)
    \/ Restart

AutomationSpec == AutomationInit /\ [][AutomationNext]_autoVars
AutomationFairSpec == AutomationSpec /\ \A c \in Calls : WF_autoVars(ThreadStep(c))

---------------------------------------------------------------------------
\* A step is begun only when each of its dependencies was carried out with
\* success, approved or skipped, however stale the copy that says so and
\* whatever a restart lost.
StepsWaitForDependencies ==
    \A c \in Calls : thread[c].at \in {"ask", "pause", "perform", "save"}
        => Deps[thread[c].step] \subseteq settled

\* A step is carried out twice only after two approvers both found its
\* approval pending, or one decided before the instance was stored as PAUSED.
\* Restarts cause no repetition.
OnlyARaceRepeatsAStep == raced \/ \A s \in Steps : runs[s] <= 1

\* Nothing in the engine refuses circular dependencies, or one on what is no
\* step.  The steps that depend, however far, on neither: in each set of them
\* some step depends on none of the set.
Complete(D) ==
    /\ \A s \in D : Deps[s] \subseteq D
    /\ \A P \in SUBSET D : P # {} => \E s \in P : Deps[s] \cap P = {}
Feasible == UNION {D \in SUBSET Steps : Complete(D)}

\* Without such a race the final status is what the steps say, and nothing
\* that could still be done is given up.  An instance that is COMPLETED has
\* left out only steps that wait for each other or for what is no step.
EndReflectsTheSteps ==
    ~raced =>
        /\ row.status = "COMPLETED" => Feasible \subseteq settled
        /\ row.status \in Ended => ReadySteps(row.steps) = {}
        /\ row.status = "FAILED" => \E s \in Steps : row.steps[s] = "FAILED"

\* So every step is carried out in its turn and once, and the end is the one
\* they make.
StepsRunInOrder == StepsWaitForDependencies /\ OnlyARaceRepeatsAStep /\ EndReflectsTheSteps

\* A thread that starts on the instance brings it to its end or to a pause
\* for an approval, unless it is killed or a race spoils it: what an earlier
\* restart left in the database is enough to go on from.
Killed(c) == thread[c].at = "killed"
=============================================================================
