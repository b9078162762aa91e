------------------------------ MODULE Executor ------------------------------
(***************************************************************************)
(* Executor (backend/execution/executor.py): the synchronous runs of       *)
(* execute(plan), one thread each, and cancel(), which any other thread    *)
(* may call.  Every block under self._lock is a step; so is every check    *)
(* of the cancellation set.  A handler runs in a daemon thread that        *)
(* _run_with_timeout abandons when it is still alive after plan.timeout.   *)
(*                                                                         *)
(* The handler's outcome is a choice: it returns, raises an exception that *)
(* the retry policy lists or one that it does not list, raises             *)
(* CancellationError, or overruns the timeout.                             *)
(***************************************************************************)
EXTENDS Integers

CONSTANTS Executions,   \* the calls of execute()
          MaxRetries    \* plan.retry_policy.max_retries

ASSUME ExecutorAssumption == MaxRetries \in Nat

VARIABLES status,       \* _statuses ("NONE": not in the map yet)
          flagged,      \* _cancellations
          metrics,      \* _metrics[e].retries, or NoMetrics
          pc,           \* where the thread of execute() is
          attempt,      \* its local variable
          result,       \* the status of the Result it returned, or "NONE"
          calls,        \* history: handler calls started
          alive,        \* handler threads that have not ended
          allowed       \* history: the handler calls made, or due, when first cancelled

vars == <<status, flagged, metrics, pc, attempt, result, calls, alive, allowed>>

NoMetrics == -1
Final == {"SUCCESS", "FAILED", "TIMEOUT", "CANCELLED"}
Outcomes == {"returned", "retryable", "fatal", "cancellation"}

Points == {"idle", "check", "run", "join", "retry", "delay", "done"}
            \cup Outcomes \cup Final

TypeOK ==
    /\ status \in [Executions -> Final \cup {"NONE", "CREATED", "RUNNING", "RETRYING"}]
    /\ flagged \subseteq Executions
    /\ metrics \in [Executions -> Nat \cup {NoMetrics}]
    /\ pc \in [Executions -> Points]
    /\ attempt \in [Executions -> 1..(MaxRetries + 1)]
    /\ result \in [Executions -> Final \cup {"NONE"}]
    /\ calls \in [Executions -> Nat]
    /\ alive \in [Executions -> Nat]
    /\ allowed \in [Executions -> Nat]

Init ==
    /\ status = [e \in Executions |-> "NONE"]
    /\ flagged = {}
    /\ metrics = [e \in Executions |-> NoMetrics]
    /\ pc = [e \in Executions |-> "idle"]
    /\ attempt = [e \in Executions |-> 1]
    /\ result = [e \in Executions |-> "NONE"]
    /\ calls = [e \in Executions |-> 0]
    /\ alive = [e \in Executions |-> 0]
    /\ allowed = [e \in Executions |-> 0]

Goto(e, from, to) == pc[e] = from /\ pc' = [pc EXCEPT ![e] = to]

---------------------------------------------------------------------------
\* The context is stored and the status CREATED.
Create(e) ==
    /\ Goto(e, "idle", "check")
    /\ status' = [status EXCEPT ![e] = "CREATED"]
    /\ UNCHANGED <<flagged, metrics, attempt, result, calls, alive, allowed>>

\* if self.is_cancelled(execution_id), before an attempt
CheckBeforeAttempt(e) ==
    /\ Goto(e, "check", IF e \in flagged THEN "CANCELLED" ELSE "run")
    /\ UNCHANGED <<status, flagged, metrics, attempt, result, calls, alive, allowed>>

\* The status is set RUNNING, whatever it was, and the handler is started.
StartAttempt(e) ==
    /\ Goto(e, "run", "join")
    /\ status' = [status EXCEPT ![e] = "RUNNING"]
    /\ calls' = [calls EXCEPT ![e] = @ + 1]
    /\ alive' = [alive EXCEPT ![e] = @ + 1]
    /\ UNCHANGED <<flagged, metrics, attempt, result, allowed>>

\* thread.join() returned because the handler ended (it may itself have raised
\* an ExecutionTimeoutError) ...
HandlerEnds(e, outcome) ==
    /\ Goto(e, "join", outcome)
    /\ alive' = [alive EXCEPT ![e] = @ - 1]
    /\ UNCHANGED <<status, flagged, metrics, attempt, result, calls, allowed>>

\* Faulty variant: an overrun is retried like any listed exception.
OverrunRetried(e) ==
    /\ Goto(e, "join", "retryable")
    /\ UNCHANGED <<status, flagged, metrics, attempt, result, calls, alive, allowed>>

\* ... or because the timeout passed: a TIMEOUT, and the handler lives on.
HandlerOverruns(e) ==
    /\ Goto(e, "join", "TIMEOUT")
    /\ UNCHANGED <<status, flagged, metrics, attempt, result, calls, alive, allowed>>

\* An abandoned handler ends; nobody looks at what it produced.
AbandonedHandlerEnds(e) ==
    /\ pc[e] # "join"
    /\ alive[e] > 0
    /\ alive' = [alive EXCEPT ![e] = @ - 1]
    /\ UNCHANGED <<status, flagged, metrics, pc, attempt, result, calls, allowed>>

\* "Verification check if cancelled during run"
CheckAfterRun(e) ==
    /\ Goto(e, "returned", IF e \in flagged THEN "CANCELLED" ELSE "SUCCESS")
    /\ UNCHANGED <<status, flagged, metrics, attempt, result, calls, alive, allowed>>

\* except Exception: cancelled, to be retried, or failed for good.
CheckAfterError(e, outcome) ==
    /\ outcome # "returned"
    /\ Goto(e, outcome,
            IF e \in flagged \/ outcome = "cancellation" THEN "CANCELLED"
            ELSE IF outcome = "retryable" /\ attempt[e] <= MaxRetries THEN "retry"
            ELSE "FAILED")
    /\ UNCHANGED <<status, flagged, metrics, attempt, result, calls, alive, allowed>>

AnnounceRetry(e) ==
    /\ Goto(e, "retry", "delay")
    /\ status' = [status EXCEPT ![e] = "RETRYING"]
    /\ UNCHANGED <<flagged, metrics, attempt, result, calls, alive, allowed>>

\* _sleep_with_cancellation_check looks at the set between naps ...
DelayInterrupted(e) ==
    /\ e \in flagged
    /\ Goto(e, "delay", "CANCELLED")
    /\ UNCHANGED <<status, flagged, metrics, attempt, result, calls, alive, allowed>>

\* Faulty variant: the next attempt starts without another check.
DelayOverUnchecked(e) ==
    /\ Goto(e, "delay", "run")
    /\ attempt' = [attempt EXCEPT ![e] = @ + 1]
    /\ UNCHANGED <<status, flagged, metrics, result, calls, alive, allowed>>

\* Faulty variant: the naps do not add up.
NapForever(e) ==
    /\ Goto(e, "delay", "delay")
    /\ UNCHANGED <<status, flagged, metrics, attempt, result, calls, alive, allowed>>

\* ... and not after the last one.
DelayOver(e) ==
    /\ Goto(e, "delay", "check")
    /\ attempt' = [attempt EXCEPT ![e] = @ + 1]
    /\ UNCHANGED <<status, flagged, metrics, result, calls, alive, allowed>>

\* ExecutionMetrics.retries; _finalize_cancelled leaves it at its default.
RetriesReported(e, final) == IF final = "CANCELLED" THEN 0 ELSE attempt[e] - 1

\* _finalize_success, _finalize_failure, _finalize_timeout, _finalize_cancelled
Finalize(e, final) ==
    /\ Goto(e, final, "done")
    /\ status' = [status EXCEPT ![e] = final]
    /\ metrics' = [metrics EXCEPT ![e] = RetriesReported(e, final)]
    /\ result' = [result EXCEPT ![e] = final]
    /\ UNCHANGED <<flagged, attempt, calls, alive, allowed>>

\* The calls a first cancel leaves: those made, and the one past its check.
CallsDue(e) ==
    IF e \in flagged THEN allowed[e]
    ELSE calls[e] + (IF pc[e] = "run" THEN 1 ELSE 0)

\* Faulty variant: a finished execution can still be cancelled.
CancelAnytime(e) ==
    /\ status[e] # "NONE"
    /\ status' = [status EXCEPT ![e] = "CANCELLED"]
    /\ flagged' = flagged \cup {e}
    /\ allowed' = [allowed EXCEPT ![e] = CallsDue(e)]
    /\ UNCHANGED <<metrics, pc, attempt, result, calls, alive>>

\* cancel(execution_id) that returns True
Cancel(e) ==
    /\ status[e] \notin Final \cup {"NONE"}
    /\ status' = [status EXCEPT ![e] = "CANCELLED"]
    /\ flagged' = flagged \cup {e}
    /\ allowed' = [allowed EXCEPT ![e] = CallsDue(e)]
    /\ UNCHANGED <<metrics, pc, attempt, result, calls, alive>>

Run(e) ==
    \/ CheckBeforeAttempt(e) \/ StartAttempt(e) \/ HandlerOverruns(e)
    \/ CheckAfterRun(e) \/ AnnounceRetry(e) \/ DelayInterrupted(e) \/ DelayOver(e)
    \/ \E outcome \in Outcomes \cup {"TIMEOUT"} : HandlerEnds(e, outcome)
    \/ \E outcome \in Outcomes : CheckAfterError(e, outcome)
    \/ \E final \in Final : Finalize(e, final)

Next == \E e \in Executions :
            Create(e) \/ Run(e) \/ Cancel(e) \/ AbandonedHandlerEnds(e)

Spec == Init /\ [][Next]_vars

\* A thread inside execute() goes on: join() waits no longer than the timeout.
FairSpec == Spec /\ \A e \in Executions : WF_vars(Run(e))

---------------------------------------------------------------------------
\* The retries of one execution never overlap: when a handler is called, the
\* handler of the attempt before has ended.  (An abandoned handler may well
\* outlive its execution.)
OneHandlerAtATime == \A e \in Executions : alive[e] <= 1

\* After cancel() returned True no handler call is started but one whose check
\* of the cancellation set came before it, however the retry delay ends.
CancelStopsRetries == \A e \in flagged : calls[e] <= allowed[e]

\* The retries in the metrics of an execution that was not cancelled are the
\* handler calls it made after the first, and no more than the policy allows.
MetricsCountRetries ==
    \A e \in Executions :
        result[e] \notin {"NONE", "CANCELLED"} =>
            metrics[e] = calls[e] - 1 /\ metrics[e] <= MaxRetries

\* What status() answers once execute() returned is what execute() returned,
\* whichever cancels came in between and after.
StatusMatchesResult ==
    \A e \in Executions : pc[e] = "done" => status[e] = result[e] /\ result[e] # "NONE"

\* What an execution reports of itself, in its metrics and in its status, is
\* what it did.
ReportsAgree == MetricsCountRetries /\ StatusMatchesResult

\* So the attempts of an execution come one at a time, stop when they are told
\* to, and are reported as they were.
AttemptsAreOrderly == OneHandlerAtATime /\ CancelStopsRetries /\ ReportsAgree

\* Every execution ends, and so does every cancelled one.
ExecutionEnds == \A e \in Executions : (pc[e] # "idle") ~> (pc[e] = "done")
=============================================================================
