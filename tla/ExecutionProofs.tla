--------------------------- MODULE ExecutionProofs ---------------------------
(***************************************************************************)
(* Executor, AgentRequests, StagePipeline and Orchestration, each for      *)
(* every value of its constants.                                           *)
(***************************************************************************)
EXTENDS Executor, AgentRequests, StagePipeline, Orchestration, FiniteSetTheorems, TLAPS

---------------------------------------------------------------------------
(* Executor.  The invariant ties the place an execution's thread has       *)
(* reached to the handler calls it made, to whether the latest can still   *)
(* be running, and to what status(), metrics() and the Result say.         *)
PointInv(e) ==
    /\ pc[e] = "idle" => calls[e] = 0 /\ alive[e] = 0 /\ attempt[e] = 1
                         /\ status[e] = "NONE" /\ e \notin flagged
    /\ pc[e] \in {"check", "run"} => calls[e] = attempt[e] - 1 /\ alive[e] = 0
    /\ pc[e] = "join" => calls[e] = attempt[e] /\ alive[e] = 1
    /\ pc[e] \in Outcomes \cup {"retry", "delay"} => calls[e] = attempt[e] /\ alive[e] = 0
    /\ pc[e] \in {"retry", "delay"} => attempt[e] <= MaxRetries
    /\ pc[e] \in {"SUCCESS", "FAILED", "TIMEOUT"} => calls[e] = attempt[e]
    /\ alive[e] <= 1

ResultInv(e) ==
    /\ pc[e] = "done" <=> result[e] # "NONE"
    /\ pc[e] = "done" => status[e] = result[e]
    /\ result[e] \notin {"NONE", "CANCELLED"} =>
          metrics[e] = calls[e] - 1 /\ calls[e] = attempt[e]

CancelInv(e) ==
    e \in flagged =>
        /\ calls[e] <= allowed[e]
        /\ pc[e] = "run" => calls[e] + 1 <= allowed[e]

ExecutorInv ==
    /\ TypeOK
    /\ \A e \in Executions : PointInv(e) /\ ResultInv(e) /\ CancelInv(e)

---------------------------------------------------------------------------
\* No execution has been created yet.
LEMMA InitInv == Init => ExecutorInv
BY ExecutorAssumption
   DEF Init, ExecutorInv, TypeOK, PointInv, ResultInv, CancelInv, Points, Final, Outcomes, NoMetrics

\* No step breaks the types.
LEMMA TypeStep == ExecutorInv /\ [Next]_vars => TypeOK'
<1> SUFFICES ASSUME ExecutorInv, [Next]_vars PROVE TypeOK'
    OBVIOUS
<1> USE ExecutorAssumption DEF ExecutorInv, TypeOK, PointInv, Points, Final, Outcomes, NoMetrics, Goto
<1>1. CASE UNCHANGED vars
    BY <1>1 DEF vars
<1>2. ASSUME NEW e \in Executions, Create(e) PROVE TypeOK'
    BY <1>2 DEF Create
<1>3. ASSUME NEW e \in Executions, Run(e) PROVE TypeOK'
  <2>1. CASE CheckBeforeAttempt(e)
      BY <2>1 DEF CheckBeforeAttempt
  <2>2. CASE StartAttempt(e)
      BY <2>2 DEF StartAttempt
  <2>3. CASE HandlerOverruns(e)
      BY <2>3 DEF HandlerOverruns
  <2>4. CASE CheckAfterRun(e)
      BY <2>4 DEF CheckAfterRun
  <2>5. CASE AnnounceRetry(e)
      BY <2>5 DEF AnnounceRetry
  <2>6. CASE DelayInterrupted(e)
      BY <2>6 DEF DelayInterrupted
  <2>7. CASE DelayOver(e)
      BY <2>7 DEF DelayOver
  <2>8. ASSUME NEW ended \in Outcomes \cup {"TIMEOUT"}, HandlerEnds(e, ended) PROVE TypeOK'
      BY <2>8 DEF HandlerEnds
  <2>9. ASSUME NEW ended \in Outcomes, CheckAfterError(e, ended) PROVE TypeOK'
      BY <2>9 DEF CheckAfterError
  <2>10. ASSUME NEW final \in Final, Finalize(e, final) PROVE TypeOK'
      BY <2>10 DEF Finalize, RetriesReported
  <2>11. QED
      BY <1>3, <2>1, <2>2, <2>3, <2>4, <2>5, <2>6, <2>7, <2>8, <2>9, <2>10 DEF Run
<1>4. ASSUME NEW e \in Executions, Cancel(e) PROVE TypeOK'
    BY <1>4 DEF Cancel, CallsDue
<1>5. ASSUME NEW e \in Executions, AbandonedHandlerEnds(e) PROVE TypeOK'
    BY <1>5 DEF AbandonedHandlerEnds
<1>6. QED
    BY <1>1, <1>2, <1>3, <1>4, <1>5 DEF Next

\* A step of one execution leaves the others as they were.
Same(f) ==
    /\ status'[f] = status[f] /\ (f \in flagged' <=> f \in flagged)
    /\ metrics'[f] = metrics[f] /\ pc'[f] = pc[f] /\ attempt'[f] = attempt[f]
    /\ result'[f] = result[f] /\ calls'[f] = calls[f] /\ alive'[f] = alive[f]
    /\ allowed'[f] = allowed[f]

EInv(e) == PointInv(e) /\ ResultInv(e) /\ CancelInv(e)

\* An execution none of whose fields changed keeps its part of the invariant.
LEMMA SameKeepsInv ==
    ASSUME NEW f \in Executions, EInv(f), Same(f)
    PROVE  EInv(f)'
BY DEF EInv, PointInv, ResultInv, CancelInv, Same

\* No step breaks the per-execution part of the invariant.
LEMMA EInvStep ==
    ASSUME ExecutorInv, [Next]_vars, NEW f \in Executions
    PROVE  EInv(f)'
<1>0. EInv(f)
    BY DEF ExecutorInv, EInv
<1> USE ExecutorAssumption DEF ExecutorInv, TypeOK, Points, Final, Outcomes, NoMetrics, Goto
<1>1. CASE UNCHANGED vars
    BY <1>1, <1>0, SameKeepsInv DEF vars, Same
<1>2. ASSUME NEW e \in Executions, Create(e) PROVE EInv(f)'
  <2>1. CASE f = e BY <1>0, <1>2, <2>1 DEF Create, EInv, PointInv, ResultInv, CancelInv
  <2>2. CASE f # e BY <1>0, <1>2, <2>2, SameKeepsInv DEF Create, Same
  <2>3. QED BY <2>1, <2>2
<1>3. ASSUME NEW e \in Executions, Run(e) PROVE EInv(f)'
  <2>1. CASE CheckBeforeAttempt(e)
    <3>1. CASE f = e BY <1>0, <2>1, <3>1 DEF CheckBeforeAttempt, EInv, PointInv, ResultInv, CancelInv
    <3>2. CASE f # e BY <1>0, <2>1, <3>2, SameKeepsInv DEF CheckBeforeAttempt, Same
    <3>3. QED BY <3>1, <3>2
  <2>2. CASE StartAttempt(e)
    <3>1. CASE f = e BY <1>0, <2>2, <3>1 DEF StartAttempt, EInv, PointInv, ResultInv, CancelInv
    <3>2. CASE f # e BY <1>0, <2>2, <3>2, SameKeepsInv DEF StartAttempt, Same
    <3>3. QED BY <3>1, <3>2
  <2>3. CASE HandlerOverruns(e)
    <3>1. CASE f = e BY <1>0, <2>3, <3>1 DEF HandlerOverruns, EInv, PointInv, ResultInv, CancelInv
    <3>2. CASE f # e BY <1>0, <2>3, <3>2, SameKeepsInv DEF HandlerOverruns, Same
    <3>3. QED BY <3>1, <3>2
  <2>4. CASE CheckAfterRun(e)
    <3>1. CASE f = e BY <1>0, <2>4, <3>1 DEF CheckAfterRun, EInv, PointInv, ResultInv, CancelInv
    <3>2. CASE f # e BY <1>0, <2>4, <3>2, SameKeepsInv DEF CheckAfterRun, Same
    <3>3. QED BY <3>1, <3>2
  <2>5. CASE AnnounceRetry(e)
    <3>1. CASE f = e BY <1>0, <2>5, <3>1 DEF AnnounceRetry, EInv, PointInv, ResultInv, CancelInv
    <3>2. CASE f # e BY <1>0, <2>5, <3>2, SameKeepsInv DEF AnnounceRetry, Same
    <3>3. QED BY <3>1, <3>2
  <2>6. CASE DelayInterrupted(e)
    <3>1. CASE f = e BY <1>0, <2>6, <3>1 DEF DelayInterrupted, EInv, PointInv, ResultInv, CancelInv
    <3>2. CASE f # e BY <1>0, <2>6, <3>2, SameKeepsInv DEF DelayInterrupted, Same
    <3>3. QED BY <3>1, <3>2
  <2>7. CASE DelayOver(e)
    <3>1. CASE f = e BY <1>0, <2>7, <3>1 DEF DelayOver, EInv, PointInv, ResultInv, CancelInv
    <3>2. CASE f # e BY <1>0, <2>7, <3>2, SameKeepsInv DEF DelayOver, Same
    <3>3. QED BY <3>1, <3>2
  <2>8. ASSUME NEW ended \in Outcomes \cup {"TIMEOUT"}, HandlerEnds(e, ended) PROVE EInv(f)'
    <3>1. CASE f = e BY <1>0, <2>8, <3>1 DEF HandlerEnds, EInv, PointInv, ResultInv, CancelInv
    <3>2. CASE f # e BY <1>0, <2>8, <3>2, SameKeepsInv DEF HandlerEnds, Same
    <3>3. QED BY <3>1, <3>2
  <2>9. ASSUME NEW ended \in Outcomes, CheckAfterError(e, ended) PROVE EInv(f)'
    <3>1. CASE f = e BY <1>0, <2>9, <3>1 DEF CheckAfterError, EInv, PointInv, ResultInv, CancelInv
    <3>2. CASE f # e BY <1>0, <2>9, <3>2, SameKeepsInv DEF CheckAfterError, Same
    <3>3. QED BY <3>1, <3>2
  <2>10. ASSUME NEW final \in Final, Finalize(e, final) PROVE EInv(f)'
    <3>1. CASE f = e BY <1>0, <2>10, <3>1 DEF Finalize, RetriesReported, EInv, PointInv, ResultInv, CancelInv
    <3>2. CASE f # e BY <1>0, <2>10, <3>2, SameKeepsInv DEF Finalize, RetriesReported, Same
    <3>3. QED BY <3>1, <3>2
  <2>11. QED
      BY <1>3, <2>1, <2>2, <2>3, <2>4, <2>5, <2>6, <2>7, <2>8, <2>9, <2>10 DEF Run
<1>4. ASSUME NEW e \in Executions, Cancel(e) PROVE EInv(f)'
  <2>1. CASE f = e BY <1>0, <1>4, <2>1 DEF Cancel, CallsDue, EInv, PointInv, ResultInv, CancelInv
  <2>2. CASE f # e BY <1>0, <1>4, <2>2, SameKeepsInv DEF Cancel, CallsDue, Same
  <2>3. QED BY <2>1, <2>2
<1>5. ASSUME NEW e \in Executions, AbandonedHandlerEnds(e) PROVE EInv(f)'
  <2>1. CASE f = e BY <1>0, <1>5, <2>1 DEF AbandonedHandlerEnds, EInv, PointInv, ResultInv, CancelInv
  <2>2. CASE f # e BY <1>0, <1>5, <2>2, SameKeepsInv DEF AbandonedHandlerEnds, Same
  <2>3. QED BY <2>1, <2>2
<1>6. QED
    BY <1>1, <1>2, <1>3, <1>4, <1>5 DEF Next

\* The inductive invariant of every behaviour.
THEOREM ExecutorInvariance == Spec => []ExecutorInv
<1>1. ExecutorInv /\ [Next]_vars => ExecutorInv'
    BY TypeStep, EInvStep DEF ExecutorInv, EInv
<1>2. QED
    BY InitInv, <1>1, PTL DEF Spec

---------------------------------------------------------------------------
\* Type correctness.
THEOREM ExecutorTypeCorrect == Spec => []TypeOK
<1>1. ExecutorInv => TypeOK
    BY DEF ExecutorInv
<1>2. QED
    BY <1>1, ExecutorInvariance, PTL

\* Two handler calls of one execution never run at the same time.
THEOREM HandlersDoNotOverlap == Spec => []OneHandlerAtATime
<1>1. ExecutorInv => OneHandlerAtATime
    BY DEF ExecutorInv, PointInv, OneHandlerAtATime
<1>2. QED
    BY <1>1, ExecutorInvariance, PTL

\* A cancel that returned True stops the retries.
THEOREM CancelIsEffective == Spec => []CancelStopsRetries
<1>1. ExecutorInv => CancelStopsRetries
    BY DEF ExecutorInv, TypeOK, CancelInv, CancelStopsRetries
<1>2. QED
    BY <1>1, ExecutorInvariance, PTL

\* The reported retries are the ones made, within the policy's limit, and
\* status() agrees with the Result that was returned.
THEOREM ReportsAreTrue == Spec => []ReportsAgree
<1>1. ExecutorInv => MetricsCountRetries
    BY ExecutorAssumption DEF ExecutorInv, TypeOK, ResultInv, MetricsCountRetries
<1>2. ExecutorInv => StatusMatchesResult
    BY DEF ExecutorInv, ResultInv, StatusMatchesResult
<1>3. ExecutorInv => ReportsAgree
    BY <1>1, <1>2 DEF ReportsAgree
<1>4. QED
    BY <1>3, ExecutorInvariance, PTL

\* All three together: attempts are made in order and reported as they were.
THEOREM AttemptsKeepOrder == Spec => []AttemptsAreOrderly
<1>1. OneHandlerAtATime /\ CancelStopsRetries /\ ReportsAgree => AttemptsAreOrderly
    BY DEF AttemptsAreOrderly
<1>2. QED
    BY <1>1, HandlersDoNotOverlap, CancelIsEffective, ReportsAreTrue, PTL

---------------------------------------------------------------------------
(* Why an execution ends.  Six steps for each attempt the policy allows,   *)
(* two more, and the thread is out of execute(): cancels and abandoned     *)
(* handlers, which come from elsewhere, take no step away from it and give *)
(* it none.  (That its thread goes on is the fairness of FairSpec.)        *)
PointsLeft ==
    [p \in Points |->
        CASE p = "idle" -> 8 [] p = "check" -> 7 [] p = "run" -> 6 [] p = "join" -> 5
          [] p \in Outcomes -> 4 [] p = "retry" -> 3 [] p = "delay" -> 2
          [] p \in Final -> 1 [] p = "done" -> 0]

AttemptsLeft(e) == 6 * (MaxRetries + 1 - attempt[e]) + PointsLeft[pc[e]]

EveryAttemptCounts ==
    \A e \in Executions :
        /\ AttemptsLeft(e)' <= AttemptsLeft(e)
        /\ Create(e) \/ Run(e) => AttemptsLeft(e)' < AttemptsLeft(e)

\* The table, point by point.
LEMMA PointsLeftAre ==
    /\ PointsLeft["idle"] = 8 /\ PointsLeft["check"] = 7 /\ PointsLeft["run"] = 6
    /\ PointsLeft["join"] = 5 /\ PointsLeft["retry"] = 3 /\ PointsLeft["delay"] = 2
    /\ PointsLeft["done"] = 0
    /\ \A p \in Outcomes : PointsLeft[p] = 4
    /\ \A p \in Final : PointsLeft[p] = 1
    /\ \A p \in Points : PointsLeft[p] \in 0..8
BY DEF PointsLeft, Points, Outcomes, Final

\* Within an attempt the thread only goes forward; the next one is the policy's.
LEMMA ThreadGoesForward ==
    ASSUME ExecutorInv, NEW e \in Executions, Create(e) \/ Run(e)
    PROVE  \/ attempt'[e] = attempt[e] /\ PointsLeft[pc'[e]] < PointsLeft[pc[e]]
           \/ attempt'[e] = attempt[e] + 1 /\ pc[e] = "delay" /\ pc'[e] = "check"
<1> USE DEF ExecutorInv, TypeOK, Goto
<1>1. CASE Create(e)
    BY <1>1, PointsLeftAre DEF Create
<1>2. CASE CheckBeforeAttempt(e)
    BY <1>2, PointsLeftAre DEF CheckBeforeAttempt, Final
<1>3. CASE StartAttempt(e) \/ HandlerOverruns(e)
    BY <1>3, PointsLeftAre DEF StartAttempt, HandlerOverruns, Final
<1>4. CASE CheckAfterRun(e)
    BY <1>4, PointsLeftAre DEF CheckAfterRun, Outcomes, Final
<1>5. CASE AnnounceRetry(e) \/ DelayInterrupted(e)
    BY <1>5, PointsLeftAre DEF AnnounceRetry, DelayInterrupted, Final
<1>6. CASE DelayOver(e)
    BY <1>6 DEF DelayOver
<1>7. ASSUME NEW came \in Outcomes \cup {"TIMEOUT"}, HandlerEnds(e, came)
      PROVE  attempt'[e] = attempt[e] /\ PointsLeft[pc'[e]] < PointsLeft[pc[e]]
  <2>1. pc[e] = "join" /\ pc'[e] = came /\ attempt' = attempt
      BY <1>7 DEF HandlerEnds
  <2>2. PointsLeft[came] \in {1, 4}
      BY PointsLeftAre DEF Final
  <2>3. QED
      BY <2>1, <2>2, PointsLeftAre
<1>8. ASSUME NEW came \in Outcomes, CheckAfterError(e, came)
      PROVE  attempt'[e] = attempt[e] /\ PointsLeft[pc'[e]] < PointsLeft[pc[e]]
  <2>1. pc[e] = came /\ pc'[e] \in {"CANCELLED", "retry", "FAILED"} /\ attempt' = attempt
      BY <1>8 DEF CheckAfterError
  <2>2. PointsLeft[pc'[e]] \in {1, 3}
      BY <2>1, PointsLeftAre DEF Final
  <2>3. QED
      BY <2>1, <2>2, PointsLeftAre
<1>9. ASSUME NEW final \in Final, Finalize(e, final)
       PROVE  attempt'[e] = attempt[e] /\ PointsLeft[pc'[e]] < PointsLeft[pc[e]]
  <2>1. pc[e] = final /\ pc'[e] = "done" /\ attempt' = attempt
      BY <1>9 DEF Finalize
  <2>2. QED
      BY <2>1, PointsLeftAre
<1>10. QED
    BY <1>1, <1>2, <1>3, <1>4, <1>5, <1>6, <1>7, <1>8, <1>9 DEF Run

\* An execution takes at most six steps per attempt and two more, and no step of
\* anybody else gives it more to do.
THEOREM ExecutionIsBounded ==
    Spec => /\ [](\A e \in Executions : AttemptsLeft(e) \in 0..(6 * MaxRetries + 8))
            /\ [][EveryAttemptCounts]_vars
<1>1. ASSUME TypeOK, NEW e \in Executions PROVE AttemptsLeft(e) \in 0..(6 * MaxRetries + 8)
  <2>1. attempt[e] \in 1..(MaxRetries + 1) /\ PointsLeft[pc[e]] \in 0..8
      BY <1>1, PointsLeftAre DEF TypeOK
  <2>2. QED
      BY <2>1, ExecutorAssumption DEF AttemptsLeft
<1>2. ASSUME ExecutorInv, ExecutorInv', NEW e \in Executions, Create(e) \/ Run(e)
      PROVE  AttemptsLeft(e)' < AttemptsLeft(e)
  <2>1. /\ attempt[e] \in 1..(MaxRetries + 1) /\ PointsLeft[pc[e]] \in 0..8
        /\ attempt'[e] \in 1..(MaxRetries + 1) /\ PointsLeft[pc'[e]] \in 0..8
      BY <1>2, PointsLeftAre DEF ExecutorInv, TypeOK
  <2>2. AttemptsLeft(e)' = 6 * (MaxRetries + 1 - attempt'[e]) + PointsLeft[pc'[e]]
      BY DEF AttemptsLeft, PointsLeft
  <2>3. CASE attempt'[e] = attempt[e] /\ PointsLeft[pc'[e]] < PointsLeft[pc[e]]
      BY <2>1, <2>2, <2>3, ExecutorAssumption DEF AttemptsLeft
  <2>4. CASE attempt'[e] = attempt[e] + 1 /\ pc[e] = "delay" /\ pc'[e] = "check"
    <3>1. PointsLeft[pc[e]] = 2 /\ PointsLeft[pc'[e]] = 7
        BY <2>4, PointsLeftAre
    <3>2. QED
        BY <2>1, <2>2, <2>4, <3>1, ExecutorAssumption DEF AttemptsLeft
  <2>5. QED
      BY <1>2, <2>3, <2>4, ThreadGoesForward
<1>3. ASSUME ExecutorInv, [Next]_vars, NEW e \in Executions, ~(Create(e) \/ Run(e))
      PROVE  AttemptsLeft(e)' = AttemptsLeft(e)
  <2>1. pc'[e] = pc[e] /\ attempt'[e] = attempt[e]
    <3>1. CASE UNCHANGED vars
        BY <3>1 DEF vars
    <3>2. ASSUME NEW f \in Executions, Cancel(f) \/ AbandonedHandlerEnds(f)
          PROVE  pc'[e] = pc[e] /\ attempt'[e] = attempt[e]
        BY <3>2 DEF Cancel, AbandonedHandlerEnds
    <3>3. ASSUME NEW f \in Executions, f # e, Create(f) \/ Run(f)
          PROVE  pc'[e] = pc[e] /\ attempt'[e] = attempt[e]
        BY <1>3, <3>3 DEF ExecutorInv, TypeOK, Goto, Create, Run, CheckBeforeAttempt, StartAttempt,
                          HandlerOverruns, CheckAfterRun, AnnounceRetry, DelayInterrupted, DelayOver,
                          HandlerEnds, CheckAfterError, Finalize
    <3>4. QED
        BY <1>3, <3>1, <3>2, <3>3 DEF Next
  <2>2. QED
      BY <2>1 DEF AttemptsLeft, PointsLeft
<1>4. ExecutorInv /\ ExecutorInv' /\ [Next]_vars => [EveryAttemptCounts]_vars
  <2> SUFFICES ASSUME ExecutorInv, ExecutorInv', [Next]_vars, NEW e \in Executions
               PROVE  /\ AttemptsLeft(e)' <= AttemptsLeft(e)
                      /\ Create(e) \/ Run(e) => AttemptsLeft(e)' < AttemptsLeft(e)
      BY DEF EveryAttemptCounts
  <2>1. AttemptsLeft(e) \in Int
      BY <1>1 DEF ExecutorInv
  <2>2. CASE Create(e) \/ Run(e)
    <3>1. AttemptsLeft(e)' \in Int
      <4>1. attempt'[e] \in 1..(MaxRetries + 1) /\ PointsLeft[pc'[e]] \in 0..8
          BY PointsLeftAre DEF ExecutorInv, TypeOK
      <4>2. AttemptsLeft(e)' = 6 * (MaxRetries + 1 - attempt'[e]) + PointsLeft[pc'[e]]
          BY DEF AttemptsLeft, PointsLeft
      <4>3. QED
          BY <4>1, <4>2, ExecutorAssumption
    <3>2. QED
        BY <1>2, <2>1, <2>2, <3>1
  <2>3. CASE ~(Create(e) \/ Run(e))
      BY <1>3, <2>1, <2>3
  <2>4. QED
      BY <2>2, <2>3
<1>5. ExecutorInv => \A e \in Executions : AttemptsLeft(e) \in 0..(6 * MaxRetries + 8)
    BY <1>1 DEF ExecutorInv
<1>6. QED
    BY <1>4, <1>5, ExecutorInvariance, PTL DEF Spec

---------------------------------------------------------------------------
(* AgentRequests.  A write of an agent's state goes by a look that came    *)
(* before it: as long as it is still right, nobody's task is in the agent. *)

AgentsInv ==
    /\ AgentsTypeOK
    /\ \A r \in Requests : /\ place[r] = "start" => saw[r] = "IDLE"
                           /\ place[r] = "initialized" => saw[r] = "UNINITIALIZED"
    /\ BusyIsOneTask

\* A request that has a plan runs one of the agents.
LEMMA CurrentIsAgent ==
    ASSUME AgentsTypeOK, NEW r \in Requests, place[r] \in Running
    PROVE  Current(r) \in Agents /\ plan[r] \in Seq(Agents) /\ plan[r] # <<>>
BY DEF AgentsTypeOK, Current

\* What is left of a sequence without its head.
LEMMA TailFacts ==
    ASSUME NEW S, NEW s \in Seq(S), s # <<>>
    PROVE  Tail(s) \in Seq(S) /\ (Len(s) # 1 => Tail(s) # <<>>)
<1>1. Len(s) \in Nat /\ Len(s) # 0
  OBVIOUS
<1>2. Tail(s) \in Seq(S) /\ Len(Tail(s)) = Len(s) - 1
  BY <1>1
<1>3. Len(s) # 1 => Len(Tail(s)) # 0
  BY <1>1, <1>2
<1>4. Tail(s) = <<>> => Len(Tail(s)) = 0
  <2>1. Len(<<>>) = 0
    OBVIOUS
  <2> QED BY <2>1, Zenon
<1> QED BY <1>2, <1>3, <1>4

\* The places that the steps go to are places.
LEMMA PlaceTypes ==
    ASSUME AgentsTypeOK, NEW r \in Requests, NEW to \in Running \cup Answers,
           place[r] \in Running, place' = [place EXCEPT ![r] = to],
           agentState' \in [Agents -> AgentStates], agentStatus' \in [Agents -> HealthStatuses],
           saw' \in [Requests -> AgentStates], overtaken' \subseteq Agents,
           again' \subseteq Requests, UNCHANGED planning,
           plan' \in [Requests -> Seq(Agents)],
           \A s \in Requests : s # r => plan'[s] = plan[s],
           to \in Running => plan'[r] # <<>>
    PROVE  AgentsTypeOK'
<1>1. \A s \in Requests : place'[s] = IF s = r THEN to ELSE place[s]
  BY DEF AgentsTypeOK
<1>2. to \notin Selecting
  BY DEF Running, Answers, Selecting
<1>3. place' \in [Requests -> Selecting \cup Running \cup Answers]
  BY DEF AgentsTypeOK
<1>4. ASSUME NEW s \in Requests
      PROVE  /\ place'[s] \in Running => plan'[s] # <<>>
             /\ place'[s] \in Selecting => caps'[s] # <<>>
  BY <1>1, <1>2 DEF AgentsTypeOK, planning
<1> QED BY <1>3, <1>4 DEF AgentsTypeOK, planning

\* The looks.
LEMMA LookTypes ==
    ASSUME AgentsTypeOK, NEW r \in Requests,
           Prepare(r) \/ Initialize(r) \/ ValidateTask(r) \/ CheckIdle(r)
    PROVE  AgentsTypeOK'
<1>1. place[r] \in Running
  BY DEF Prepare, Initialize, ValidateTask, CheckIdle, Looks, Comes, Running
<1>2. Current(r) \in Agents /\ plan[r] # <<>>
  BY <1>1, CurrentIsAgent
<1>3. StateOf(r) \in AgentStates
  BY <1>2 DEF StateOf, AgentsTypeOK
<1>4. PICK to \in Running \cup Answers : place' = [place EXCEPT ![r] = to]
  BY DEF Prepare, Initialize, ValidateTask, CheckIdle, Looks, Comes, Running, Answers
<1>5. /\ saw' = [saw EXCEPT ![r] = StateOf(r)]
      /\ UNCHANGED <<agentState, agentStatus, planning, plan, again, overtaken>>
  BY DEF Prepare, Initialize, ValidateTask, CheckIdle, Looks
<1>6. saw' \in [Requests -> AgentStates]
  BY <1>3, <1>5 DEF AgentsTypeOK
<1> QED BY <1>1, <1>2, <1>4, <1>5, <1>6, PlaceTypes DEF AgentsTypeOK

\* The writes that leave the plan alone.
LEMMA WriteTypes ==
    ASSUME AgentsTypeOK, NEW r \in Requests,
           SetInitialized(r) \/ SetIdle(r) \/ StartTask(r) \/ TaskFails(r) \/ ResetState(r)
    PROVE  AgentsTypeOK'
<1>1. place[r] \in Running
  BY DEF SetInitialized, SetIdle, StartTask, TaskFails, ResetState, Comes, Running
<1>2. Current(r) \in Agents /\ plan[r] # <<>>
  BY <1>1, CurrentIsAgent
<1>3. PICK to \in Running : place' = [place EXCEPT ![r] = to]
  BY DEF SetInitialized, SetIdle, StartTask, TaskFails, ResetState, Comes, Running
<1>4. PICK v \in AgentStates : agentState' = [agentState EXCEPT ![Current(r)] = v]
  BY DEF SetInitialized, SetIdle, StartTask, TaskFails, ResetState, SetState, AgentStates
<1>5. /\ overtaken' \subseteq overtaken \cup {Current(r)}
      /\ UNCHANGED <<planning, plan, saw>>
      /\ again' \subseteq again \cup {r}
  BY DEF SetInitialized, SetIdle, StartTask, TaskFails, ResetState, SetState
<1>6. agentStatus' = agentStatus \/ agentStatus' = [agentStatus EXCEPT ![Current(r)] = "HEALTHY"]
  BY DEF SetInitialized, SetIdle, StartTask, TaskFails, ResetState
<1>7. agentState' \in [Agents -> AgentStates] /\ agentStatus' \in [Agents -> HealthStatuses]
  BY <1>2, <1>4, <1>6 DEF AgentsTypeOK, HealthStatuses
<1>8. again' \subseteq Requests /\ overtaken' \subseteq Agents
  BY <1>2, <1>5 DEF AgentsTypeOK
<1> QED BY <1>1, <1>2, <1>3, <1>5, <1>7, <1>8, PlaceTypes DEF AgentsTypeOK

\* The end of an agent's part in a plan.
LEMMA GoesOnTypes ==
    ASSUME AgentsTypeOK, NEW r \in Requests, TaskSucceeds(r) \/ Ignore(r)
    PROVE  AgentsTypeOK'
<1>1. place[r] \in Running
  BY DEF TaskSucceeds, Ignore, GoesOn, Comes, Running
<1>2. Current(r) \in Agents /\ plan[r] # <<>> /\ plan[r] \in Seq(Agents)
  BY <1>1, CurrentIsAgent
<1>3. /\ place' = [place EXCEPT ![r] = IF Len(plan[r]) = 1 THEN "SUCCESS" ELSE "prepare"]
      /\ plan' = [plan EXCEPT ![r] = Tail(plan[r])]
      /\ again' = again \ {r}
      /\ UNCHANGED <<agentStatus, planning, saw>>
  BY DEF TaskSucceeds, Ignore, GoesOn, Comes
<1>4. /\ agentState' = agentState \/ agentState' = [agentState EXCEPT ![Current(r)] = "IDLE"]
      /\ overtaken' = overtaken
  BY DEF TaskSucceeds, Ignore, SetState
<1>5. Tail(plan[r]) \in Seq(Agents) /\ (Len(plan[r]) # 1 => Tail(plan[r]) # <<>>)
  BY <1>2, TailFacts
<1>6. /\ plan' \in [Requests -> Seq(Agents)] /\ plan'[r] = Tail(plan[r])
      /\ \A s \in Requests : s # r => plan'[s] = plan[s]
  BY <1>3, <1>5 DEF AgentsTypeOK
<1>7. agentState' \in [Agents -> AgentStates]
  BY <1>2, <1>4 DEF AgentsTypeOK, AgentStates
<1> DEFINE to == IF Len(plan[r]) = 1 THEN "SUCCESS" ELSE "prepare"
<1>8. to \in Running \cup Answers /\ (to \in Running => plan'[r] # <<>>)
  BY <1>5, <1>6 DEF Running, Answers
<1> QED BY <1>1, <1>3, <1>4, <1>6, <1>7, <1>8, PlaceTypes DEF AgentsTypeOK

\* The rest of a run: a failure and what follows it.
LEMMA FallbackTypes ==
    ASSUME AgentsTypeOK, NEW r \in Requests,
           MarkUnhealthy(r) \/ Abort(r) \/ MarkHealthy(r)
    PROVE  AgentsTypeOK'
<1>1. place[r] \in Running
  BY DEF MarkUnhealthy, Abort, MarkHealthy, Comes, Running
<1>2. Current(r) \in Agents /\ plan[r] # <<>>
  BY <1>1, CurrentIsAgent
<1>3. PICK to \in Running \cup Answers : place' = [place EXCEPT ![r] = to]
  BY DEF MarkUnhealthy, Abort, MarkHealthy, Comes, Running, Answers
<1>4. UNCHANGED <<agentState, planning, plan, again, saw, overtaken>>
  BY DEF MarkUnhealthy, Abort, MarkHealthy
<1>5. \/ agentStatus' = agentStatus
      \/ \E v \in HealthStatuses : agentStatus' = [agentStatus EXCEPT ![Current(r)] = v]
  BY DEF MarkUnhealthy, Abort, MarkHealthy, HealthStatuses
<1>6. agentStatus' \in [Agents -> HealthStatuses]
  BY <1>2, <1>5 DEF AgentsTypeOK
<1> QED BY <1>1, <1>2, <1>3, <1>4, <1>6, PlaceTypes DEF AgentsTypeOK

\* The planning of a request.
LEMMA SelectTypes ==
    ASSUME AgentsTypeOK, NEW r \in Requests,
           Receive(r) \/ FilterHealthy(r) \/ (\E a \in Agents : SortByState(r, a))
    PROVE  AgentsTypeOK'
<1>1. place[r] \in Selecting /\ caps[r] \in Seq(SUBSET Agents) /\ caps[r] # <<>>
  BY DEF Receive, FilterHealthy, SortByState, Comes, Selecting, AgentsTypeOK
<1>2. CASE Receive(r)
  <2>1. place' = [place EXCEPT ![r] = "filter"]
    BY <1>2 DEF Receive, Comes
  <2> QED BY <2>1, <1>1, <1>2 DEF Receive, AgentsTypeOK, planning, Selecting, Running, Answers
<1>3. CASE FilterHealthy(r)
  <2>1. PICK to \in {"FAILURE", "sort"} : place' = [place EXCEPT ![r] = to]
    BY <1>3 DEF FilterHealthy, Comes
  <2>2. candidates' \in [Requests -> SUBSET Agents]
    BY <1>1, <1>3 DEF FilterHealthy, AgentsTypeOK
  <2> QED BY <2>1, <2>2, <1>1, <1>3 DEF FilterHealthy, AgentsTypeOK, Selecting, Running, Answers
<1>4. ASSUME NEW a \in Agents, SortByState(r, a) PROVE AgentsTypeOK'
  <2> DEFINE to == IF Len(caps[r]) = 1 THEN "prepare" ELSE "filter"
             p == IF Contains(plan[r], a) THEN plan[r] ELSE Append(plan[r], a)
  <2>1. /\ place' = [place EXCEPT ![r] = to]
        /\ plan' = [plan EXCEPT ![r] = p]
        /\ caps' = [caps EXCEPT ![r] = Tail(caps[r])]
        /\ UNCHANGED <<agentState, agentStatus, strategy, candidates, again, saw, overtaken>>
    BY <1>4 DEF SortByState, Comes
  <2>2. plan[r] \in Seq(Agents)
    BY DEF AgentsTypeOK
  <2>3. p \in Seq(Agents) /\ p # <<>>
    <3>1. CASE Contains(plan[r], a)
      <4>1. plan[r] # <<>>
        BY <3>1 DEF Contains
      <4> QED BY <4>1, <3>1, <2>2
    <3>2. CASE ~Contains(plan[r], a)
      <4>1. Append(plan[r], a) \in Seq(Agents) /\ Len(Append(plan[r], a)) = Len(plan[r]) + 1
        BY <2>2
      <4> QED BY <4>1, <3>2, <2>2
    <3> QED BY <3>1, <3>2
  <2>4. Tail(caps[r]) \in Seq(SUBSET Agents) /\ (Len(caps[r]) # 1 => Tail(caps[r]) # <<>>)
    BY <1>1, TailFacts
  <2> HIDE DEF p
  <2>5. plan' \in [Requests -> Seq(Agents)] /\ plan'[r] # <<>>
        /\ \A s \in Requests : s # r => plan'[s] = plan[s]
    BY <2>1, <2>3 DEF AgentsTypeOK
  <2>6. caps' \in [Requests -> Seq(SUBSET Agents)] /\ (Len(caps[r]) # 1 => caps'[r] # <<>>)
        /\ \A s \in Requests : s # r => caps'[s] = caps[s]
    BY <2>1, <2>4 DEF AgentsTypeOK
  <2>7. place' \in [Requests -> Selecting \cup Running \cup Answers]
    BY <2>1 DEF AgentsTypeOK, Selecting, Running
  <2>8. ASSUME NEW s \in Requests
        PROVE  /\ place'[s] \in Running => plan'[s] # <<>>
               /\ place'[s] \in Selecting => caps'[s] # <<>>
    <3>1. CASE s # r
      BY <3>1, <2>1, <2>5, <2>6 DEF AgentsTypeOK
    <3>2. CASE s = r
      <4>1. place'[r] = to
        BY <2>1 DEF AgentsTypeOK
      <4> QED BY <4>1, <3>2, <2>5, <2>6 DEF Selecting, Running
    <3> QED BY <3>1, <3>2
  <2> QED BY <2>1, <2>5, <2>6, <2>7, <2>8 DEF AgentsTypeOK
<1> QED BY <1>2, <1>3, <1>4

\* No step breaks the types.
LEMMA AgentsTypeStep == AgentsTypeOK /\ [AgentsNext]_agentVars => AgentsTypeOK'
<1> SUFFICES ASSUME AgentsTypeOK, [AgentsNext]_agentVars PROVE AgentsTypeOK'
  OBVIOUS
<1>1. ASSUME NEW r \in Requests, RequestStep(r) PROVE AgentsTypeOK'
  BY <1>1, SelectTypes, LookTypes, WriteTypes, GoesOnTypes, FallbackTypes DEF RequestStep
<1>2. CASE UNCHANGED agentVars
  BY <1>2 DEF agentVars, AgentsTypeOK
<1> QED BY <1>1, <1>2 DEF AgentsNext

\* A step that starts and ends no task, and leaves the agents to their tasks: it
\* writes no state, or another one than BUSY where it is expected or owned up.
LEMMA OtherStep ==
    ASSUME BusyIsOneTask, NEW a \in Agents,
           agentState \in [Agents -> AgentStates],
           overtaken \subseteq overtaken',
           \/ agentState' = agentState
           \/ \E v \in AgentStates \ {"BUSY"} : agentState' = [agentState EXCEPT ![a] = v],
           agentState' # agentState => a \in overtaken' \/ agentState[a] # "BUSY",
           \A s \in Requests : place'[s] = "execute" <=> place[s] = "execute",
           \A s \in Requests : place[s] = "execute" => plan'[s] = plan[s]
    PROVE  BusyIsOneTask'
<1>1. \A b \in Agents : AtWork(b)' = AtWork(b)
  BY DEF AtWork, Current
<1>2. ASSUME NEW b \in Agents
      PROVE  /\ agentState'[b] = "BUSY" => agentState[b] = "BUSY"
             /\ b \notin overtaken' /\ agentState[b] = "BUSY" => agentState'[b] = "BUSY"
  OBVIOUS
<1> QED BY <1>1, <1>2 DEF BusyIsOneTask

\* So the looks, the planning, the initialization and the fallbacks.
LEMMA OtherStepsKeep ==
    ASSUME AgentsInv, NEW r \in Requests, RequestStep(r),
           ~StartTask(r), ~TaskSucceeds(r), ~TaskFails(r)
    PROVE  BusyIsOneTask'
<1> DEFINE Quiet == /\ UNCHANGED <<agentState, overtaken>>
                    /\ place[r] # "execute"
                    /\ \E to \in Selecting \cup Running \cup Answers :
                          to # "execute" /\ place' = [place EXCEPT ![r] = to]
                    /\ \A s \in Requests : s # r => plan'[s] = plan[s]
<1>1. ASSUME Quiet PROVE BusyIsOneTask'
  <2>1. \A s \in Requests : place'[s] = "execute" <=> place[s] = "execute"
    BY <1>1 DEF AgentsInv, AgentsTypeOK
  <2>2. \A s \in Requests : place[s] = "execute" => plan'[s] = plan[s]
    BY <1>1
  <2>3. \A b \in Agents : AtWork(b)' = AtWork(b)
    BY <2>1, <2>2 DEF AtWork, Current
  <2> QED BY <2>3, <1>1 DEF AgentsInv, BusyIsOneTask
<1>2. ASSUME Receive(r) \/ FilterHealthy(r) PROVE Quiet
  BY <1>2 DEF Receive, FilterHealthy, Comes, Selecting, Answers
<1>3. ASSUME NEW a \in Agents, SortByState(r, a) PROVE Quiet
  BY <1>3 DEF SortByState, Comes, Selecting, Running, AgentsInv, AgentsTypeOK
<1>4. ASSUME Prepare(r) \/ Initialize(r) \/ ValidateTask(r) \/ CheckIdle(r) PROVE Quiet
  BY <1>4 DEF Prepare, Initialize, ValidateTask, CheckIdle, Looks, Comes, Running, Answers
<1>5. ASSUME MarkUnhealthy(r) \/ Abort(r) \/ MarkHealthy(r) PROVE Quiet
  BY <1>5 DEF MarkUnhealthy, Abort, MarkHealthy, Comes, Running, Answers
<1>6. ASSUME Ignore(r) PROVE Quiet
  BY <1>6 DEF Ignore, GoesOn, Comes, Running, Answers, AgentsInv, AgentsTypeOK
<1>7. ASSUME SetInitialized(r) \/ SetIdle(r) \/ ResetState(r) PROVE BusyIsOneTask'
  <2>1. place[r] \in Running
    BY <1>7 DEF SetInitialized, SetIdle, ResetState, Comes, Running
  <2>2. Current(r) \in Agents
    BY <2>1, CurrentIsAgent DEF AgentsInv
  <2>3. PICK to \in Running : to # "execute" /\ place' = [place EXCEPT ![r] = to]
    BY <1>7 DEF SetInitialized, SetIdle, ResetState, Comes, Running
  <2>4. place[r] # "execute" /\ plan' = plan
    BY <1>7 DEF SetInitialized, SetIdle, ResetState, Comes
  <2>5. \A s \in Requests : place'[s] = "execute" <=> place[s] = "execute"
    BY <2>3, <2>4 DEF AgentsInv, AgentsTypeOK
  <2>6. PICK v \in AgentStates \ {"BUSY"} : agentState' = [agentState EXCEPT ![Current(r)] = v]
    BY <1>7 DEF SetInitialized, SetIdle, ResetState, SetState, AgentStates
  <2>7. overtaken \subseteq overtaken' /\ (Current(r) \in overtaken' \/ StateOf(r) # "BUSY")
    <3>1. CASE SetInitialized(r)
      <4>1. saw[r] = "UNINITIALIZED"
        BY <3>1 DEF SetInitialized, Comes, AgentsInv
      <4> QED BY <3>1, <4>1 DEF SetInitialized, SetState
    <3>2. CASE SetIdle(r) \/ ResetState(r)
      BY <3>2 DEF SetIdle, ResetState, SetState
    <3> QED BY <1>7, <3>1, <3>2
  <2> QED BY <2>2, <2>4, <2>5, <2>6, <2>7, OtherStep DEF AgentsInv, AgentsTypeOK, StateOf
<1> QED BY <1>1, <1>2, <1>3, <1>4, <1>5, <1>6, <1>7 DEF RequestStep

\* A task starts.
LEMMA StartTaskKeeps ==
    ASSUME AgentsInv, NEW r \in Requests, StartTask(r) PROVE BusyIsOneTask'
<1> DEFINE a == Current(r)
<1>1. a \in Agents
  BY CurrentIsAgent DEF StartTask, Comes, Running, AgentsInv
<1>2. /\ place[r] = "start" /\ place' = [place EXCEPT ![r] = "execute"] /\ plan' = plan
      /\ agentState' = [agentState EXCEPT ![a] = "BUSY"]
      /\ overtaken' = IF StateOf(r) = saw[r] THEN overtaken ELSE overtaken \cup {a}
  BY DEF StartTask, Comes, SetState
<1>3. saw[r] = "IDLE"
  BY <1>2 DEF AgentsInv
<1>4. \A b \in Agents : AtWork(b)' = IF b = a THEN AtWork(b) \cup {r} ELSE AtWork(b)
  BY <1>2 DEF AtWork, Current, AgentsInv, AgentsTypeOK
<1>5. a \notin overtaken' => AtWork(a) = {}
  <2>1. a \notin overtaken' => a \notin overtaken /\ agentState[a] = "IDLE"
    BY <1>2, <1>3 DEF StateOf
  <2> QED BY <2>1, <1>1 DEF AgentsInv, BusyIsOneTask
<1>6. \A b \in Agents : agentState'[b] = IF b = a THEN "BUSY" ELSE agentState[b]
  BY <1>2 DEF AgentsInv, AgentsTypeOK
<1>7. \A b \in Agents : b \notin overtaken' => b \notin overtaken
  BY <1>2
<1> HIDE DEF a
<1>8. ASSUME NEW b \in Agents
      PROVE  /\ agentState'[b] = "BUSY" => AtWork(b)' # {}
             /\ b \notin overtaken' =>
                   /\ AtWork(b)' # {} => agentState'[b] = "BUSY"
                   /\ \A s, t \in AtWork(b)' : s = t
  <2>1. CASE b = a
    BY <2>1, <1>4, <1>5, <1>6
  <2>2. CASE b # a
    BY <2>2, <1>4, <1>6, <1>7 DEF AgentsInv, BusyIsOneTask
  <2> QED BY <2>1, <2>2
<1> QED BY <1>8 DEF BusyIsOneTask

\* A task ends.
LEMMA EndTaskKeeps ==
    ASSUME AgentsInv, NEW r \in Requests, TaskSucceeds(r) \/ TaskFails(r)
    PROVE  BusyIsOneTask'
<1> DEFINE a == Current(r)
<1>1. a \in Agents
  BY CurrentIsAgent DEF TaskSucceeds, TaskFails, GoesOn, Comes, Running, AgentsInv
<1>2. /\ place[r] = "execute"
      /\ \A s \in Requests : s # r => plan'[s] = plan[s]
      /\ overtaken' = overtaken
  BY DEF TaskSucceeds, TaskFails, GoesOn, Comes, SetState, AgentsInv, AgentsTypeOK
<1>3. PICK to \in Running \cup Answers : to # "execute" /\ place' = [place EXCEPT ![r] = to]
  BY DEF TaskSucceeds, TaskFails, GoesOn, Comes, Running, Answers
<1>4. PICK v \in AgentStates \ {"BUSY"} : agentState' = [agentState EXCEPT ![a] = v]
  BY DEF TaskSucceeds, TaskFails, SetState, AgentStates
<1>5. \A b \in Agents : AtWork(b)' = IF b = a THEN AtWork(b) \ {r} ELSE AtWork(b)
  BY <1>2, <1>3 DEF AtWork, Current, AgentsInv, AgentsTypeOK
<1>6. r \in AtWork(a)
  BY <1>2 DEF AtWork
<1>7. \A b \in Agents : agentState'[b] = IF b = a THEN v ELSE agentState[b]
  BY <1>4 DEF AgentsInv, AgentsTypeOK
<1> HIDE DEF a
<1>8. ASSUME NEW b \in Agents
      PROVE  /\ agentState'[b] = "BUSY" => AtWork(b)' # {}
             /\ b \notin overtaken' =>
                   /\ AtWork(b)' # {} => agentState'[b] = "BUSY"
                   /\ \A s, t \in AtWork(b)' : s = t
  <2>1. CASE b = a
    BY <2>1, <1>2, <1>5, <1>6, <1>7 DEF AgentsInv, BusyIsOneTask
  <2>2. CASE b # a
    BY <2>2, <1>2, <1>5, <1>7 DEF AgentsInv, BusyIsOneTask
  <2> QED BY <2>1, <2>2
<1> QED BY <1>8 DEF BusyIsOneTask

\* What the last look of a request saw.
LEMMA LooksAreRemembered ==
    ASSUME AgentsInv, NEW r \in Requests, RequestStep(r), NEW s \in Requests
    PROVE  /\ place'[s] = "start" => saw'[s] = "IDLE"
           /\ place'[s] = "initialized" => saw'[s] = "UNINITIALIZED"
<1> USE DEF AgentsInv, AgentsTypeOK, Comes
<1>1. CASE Receive(r) \/ FilterHealthy(r) \/ MarkUnhealthy(r) \/ Abort(r) \/ MarkHealthy(r)
  BY <1>1 DEF Receive, FilterHealthy, MarkUnhealthy, Abort, MarkHealthy
<1>2. ASSUME NEW a \in Agents, SortByState(r, a)
      PROVE  /\ place'[s] = "start" => saw'[s] = "IDLE"
             /\ place'[s] = "initialized" => saw'[s] = "UNINITIALIZED"
  BY <1>2 DEF SortByState
<1>3. CASE Prepare(r) \/ Initialize(r) \/ ValidateTask(r) \/ CheckIdle(r)
  BY <1>3 DEF Prepare, Initialize, ValidateTask, CheckIdle, Looks
<1>4. CASE SetInitialized(r) \/ SetIdle(r) \/ StartTask(r) \/ TaskFails(r) \/ ResetState(r)
  BY <1>4 DEF SetInitialized, SetIdle, StartTask, TaskFails, ResetState
<1>5. CASE TaskSucceeds(r) \/ Ignore(r)
  BY <1>5 DEF TaskSucceeds, Ignore, GoesOn
<1> QED BY <1>1, <1>2, <1>3, <1>4, <1>5 DEF RequestStep

\* The invariant holds for good.
THEOREM AgentsInvariance == AgentsSpec => []AgentsInv
<1>1. AgentsInit => AgentsInv
  <2> SUFFICES ASSUME AgentsInit PROVE AgentsInv
    OBVIOUS
  <2>1. AgentsTypeOK
    BY AgentsAssumption
       DEF AgentsInit, AgentsTypeOK, AgentStates, HealthStatuses, Selecting, Running
  <2>2. BusyIsOneTask
    BY DEF AgentsInit, BusyIsOneTask, AtWork
  <2> QED BY <2>1, <2>2 DEF AgentsInit, AgentsInv
<1>2. AgentsInv /\ [AgentsNext]_agentVars => AgentsInv'
  <2> SUFFICES ASSUME AgentsInv, [AgentsNext]_agentVars PROVE AgentsInv'
    OBVIOUS
  <2>1. AgentsTypeOK'
    BY AgentsTypeStep DEF AgentsInv
  <2>2. ASSUME NEW r \in Requests, RequestStep(r) PROVE AgentsInv'
    <3>1. BusyIsOneTask'
      BY <2>2, OtherStepsKeep, StartTaskKeeps, EndTaskKeeps
    <3>2. \A s \in Requests : /\ place'[s] = "start" => saw'[s] = "IDLE"
                              /\ place'[s] = "initialized" => saw'[s] = "UNINITIALIZED"
      BY <2>2, LooksAreRemembered
    <3> QED BY <2>1, <3>1, <3>2 DEF AgentsInv
  <2>3. CASE UNCHANGED agentVars
    <3>1. \A a \in Agents : AtWork(a)' = AtWork(a)
      BY <2>3 DEF agentVars, AtWork, Current
    <3> QED BY <2>1, <2>3, <3>1 DEF AgentsInv, BusyIsOneTask, agentVars
  <2> QED BY <2>2, <2>3 DEF AgentsNext
<1> QED BY <1>1, <1>2, PTL DEF AgentsSpec

\* The types of the agents' and requests' state hold for good.
THEOREM AgentsTypeCorrect == AgentsSpec => []AgentsTypeOK
<1>1. AgentsInv => AgentsTypeOK
  BY DEF AgentsInv
<1> QED BY <1>1, AgentsInvariance, PTL

\* No agent stays BUSY without a task; and without a race or the reset of a busy
\* agent, it runs one task at a time.
THEOREM BusyAgentsWork == AgentsSpec => []BusyIsOneTask
<1>1. AgentsInv => BusyIsOneTask
  BY DEF AgentsInv
<1> QED BY <1>1, AgentsInvariance, PTL
-----------------------------------------------------------------------------
(* The pipeline: the stages outside the current round are either waiting or  *)
(* back, the records agree with where each stage's thread is, and only a     *)
(* timeout leaves the loop with a stage that could run.                      *)

StagesInRounds ==
    /\ turn # "round" => \A s \in pending : stageAt[s] = "waiting"
    /\ \A s \in Stages \ pending : stageAt[s] \in Back
    /\ completed = {s \in Stages \ pending : stageAt[s] = "passed"}

RecordsAgree ==
    /\ \A s \in failedStages : tries[s] = MaxTries[s] /\ stageAt[s] = "raised"
    /\ \A s \in completedStages : stageAt[s] = "passed"
    /\ \A s \in Stages : stageAt[s] \in {"attempt", "action"} => tries[s] < MaxTries[s]
    /\ \A s \in Stages : stageAt[s] \in {"waiting", "gate"} => tries[s] = 0

LoopEndsInOrder ==
    /\ timedOut => \/ turn = "map" /\ runStatus = "cancelled"
                   \/ turn = "over" /\ report = "cancelled"
    /\ ~timedOut => /\ turn \in {"map", "over"} => Runnable = {}
                    /\ turn # "over" => runStatus # "cancelled"
                    /\ turn = "over" => report # "cancelled"
    /\ turn = "over" /\ report = "completed" => failedStages = {}

PipelineInv == PipelineTypeOK /\ StagesInRounds /\ RecordsAgree /\ LoopEndsInOrder

\* Only during a round is a stage between its gate and its end.
LEMMA StagesMoveInRounds ==
    ASSUME PipelineInv, NEW s \in Stages, stageAt[s] \in {"gate", "attempt", "action"}
    PROVE  turn = "round" /\ s \in pending
BY DEF PipelineInv, StagesInRounds, Back

\* The steps of the thread of run().
LEMMA MainStepKeeps ==
    ASSUME PipelineInv, MainStep PROVE PipelineInv'
<1> USE DEF PipelineInv, PipelineTypeOK, StagesInRounds, RecordsAgree, LoopEndsInOrder,
            Back, Reports
<1>1. CASE GiveUpOnTimeout
  BY <1>1 DEF GiveUpOnTimeout, Runnable
<1>2. CASE LeaveLoop
  <2>1. Runnable' = Runnable
    BY <1>2 DEF LeaveLoop, Runnable
  <2> QED BY <1>2, <2>1 DEF LeaveLoop
<1>3. CASE StartRound
  <2>1. Runnable \subseteq pending
    BY DEF Runnable
  <2>2. \A s \in Stages : stageAt'[s] = IF s \in Runnable THEN "gate" ELSE stageAt[s]
    BY <1>3 DEF StartRound
  <2>3. \A s \in Runnable : stageAt[s] = "waiting" /\ tries[s] = 0
    BY <1>3, <2>1 DEF StartRound
  <2>4. PipelineTypeOK'
    BY <1>3 DEF StartRound
  <2>5. StagesInRounds'
    BY <1>3, <2>1, <2>2 DEF StartRound
  <2>6. RecordsAgree'
    <3>1. \A s \in failedStages \cup completedStages : s \notin Runnable
      BY <2>3
    <3> QED BY <1>3, <2>2, <2>3, <3>1 DEF StartRound
  <2>7. LoopEndsInOrder'
    BY <1>3 DEF StartRound
  <2> QED BY <2>4, <2>5, <2>6, <2>7
<1>4. CASE EndRound
  <2>1. /\ turn' = "look" /\ pending' = pending \ Round
        /\ completed' = completed \cup {s \in Round : stageAt[s] = "passed"}
        /\ \A s \in Round : stageAt[s] \in Back
    BY <1>4 DEF EndRound
  <2>2. /\ Round \subseteq pending
        /\ \A s \in pending \ Round : stageAt[s] = "waiting"
    BY DEF Round
  <2>3. UNCHANGED <<stageAt, tries, completedStages, failedStages, runStatus, report, timedOut>>
    BY <1>4 DEF EndRound
  <2>4. PipelineTypeOK'
    BY <2>1, <2>2, <2>3
  <2>5. StagesInRounds'
    BY <2>1, <2>2, <2>3
  <2>6. RecordsAgree'
    BY <2>3
  <2>7. LoopEndsInOrder'
    BY <1>4, <2>1, <2>3 DEF EndRound
  <2> QED BY <2>4, <2>5, <2>6, <2>7
<1>5. CASE MapStatus
  <2>1. Runnable' = Runnable
    BY <1>5 DEF MapStatus, Runnable
  <2>2. /\ report' \in Reports /\ runStatus' = report'
        /\ report' = "cancelled" <=> runStatus = "cancelled"
        /\ report' = "completed" => failedStages = {}
    BY <1>5 DEF MapStatus
  <2> QED BY <1>5, <2>1, <2>2 DEF MapStatus
<1> QED BY <1>1, <1>2, <1>3, <1>4, <1>5 DEF MainStep

\* The steps of a stage's thread.
LEMMA StageStepKeeps ==
    ASSUME PipelineInv, NEW s \in Stages, StageStep(s) PROVE PipelineInv'
<1>1. stageAt[s] \in {"gate", "attempt", "action"}
  BY DEF StageStep, PassGate, StopAtGate, StartStage, CompleteStage, RecordRetry, FailStage,
         StageComes
<1>2. turn = "round" /\ s \in pending
  BY <1>1, StagesMoveInRounds
<1>3. UNCHANGED main
  BY DEF StageStep, PassGate, StopAtGate, StartStage, CompleteStage, RecordRetry, FailStage
<1>4. PICK to \in {"attempt", "action"} \cup Back : stageAt' = [stageAt EXCEPT ![s] = to]
  BY DEF StageStep, PassGate, StopAtGate, StartStage, CompleteStage, RecordRetry, FailStage,
         StageComes, Back
<1>5. \A t \in Stages : stageAt'[t] = IF t = s THEN to ELSE stageAt[t]
  BY <1>4 DEF PipelineInv, PipelineTypeOK
<1>6. StagesInRounds'
  BY <1>2, <1>3, <1>5 DEF PipelineInv, StagesInRounds, main
<1>7. s \notin failedStages /\ s \notin completedStages
  BY <1>1 DEF PipelineInv, RecordsAgree
<1>8. MaxTries[s] \in Nat /\ tries[s] \in Nat
  BY PipelineAssumption DEF PipelineInv, PipelineTypeOK
<1> USE DEF PipelineInv, PipelineTypeOK, StageComes, main
<1>9. PipelineTypeOK' /\ LoopEndsInOrder'
  <2>1. /\ runStatus' \in {"started", "running"} \cup Reports
        /\ runStatus' = "cancelled" => runStatus = "cancelled"
    BY DEF StageStep, PassGate, StopAtGate, StartStage, CompleteStage, RecordRetry, FailStage,
           Reports
  <2>2. tries' \in [Stages -> Nat] /\ completedStages' \subseteq Stages
        /\ failedStages' \subseteq Stages
    BY <1>8 DEF StageStep, PassGate, StopAtGate, StartStage, CompleteStage, RecordRetry,
                FailStage
  <2>3. PipelineTypeOK'
    BY <1>3, <1>4, <2>1, <2>2
  <2> QED BY <1>2, <1>3, <2>1, <2>3 DEF LoopEndsInOrder
<1>10. RecordsAgree'
  <2> USE DEF RecordsAgree
  <2>1. CASE PassGate(s)
    <3>1. tries[s] = 0
      BY <2>1 DEF PassGate
    <3> QED BY <2>1, <3>1, <1>5, <1>7, <1>8 DEF PassGate
  <2>2. CASE StopAtGate(s)
    BY <2>2, <1>5, <1>7 DEF StopAtGate
  <2>3. CASE StartStage(s)
    BY <2>3, <1>5, <1>7 DEF StartStage
  <2>4. CASE CompleteStage(s)
    BY <2>4, <1>5, <1>7 DEF CompleteStage
  <2>5. CASE RecordRetry(s)
    BY <2>5, <1>5, <1>7, <1>8 DEF RecordRetry
  <2>6. CASE FailStage(s)
    <3>1. tries[s] + 1 = MaxTries[s]
      BY <2>6, <1>8 DEF FailStage
    <3> QED BY <2>6, <3>1, <1>5, <1>7 DEF FailStage
  <2> QED BY <2>1, <2>2, <2>3, <2>4, <2>5, <2>6 DEF StageStep
<1> QED BY <1>6, <1>9, <1>10

\* The invariant holds for good.
THEOREM PipelineInvariance == PipelineSpec => []PipelineInv
<1>1. PipelineInit => PipelineInv
  <2> SUFFICES ASSUME PipelineInit PROVE PipelineInv
    OBVIOUS
  <2>1. PipelineTypeOK
    BY DEF PipelineInit, PipelineTypeOK
  <2>2. StagesInRounds
    <3>1. {s \in Stages \ pending : stageAt[s] = "passed"} = {}
      BY DEF PipelineInit
    <3> QED BY <3>1 DEF PipelineInit, StagesInRounds
  <2>3. RecordsAgree /\ LoopEndsInOrder
    BY DEF PipelineInit, RecordsAgree, LoopEndsInOrder
  <2> QED BY <2>1, <2>2, <2>3 DEF PipelineInv
<1>2. PipelineInv /\ [PipelineNext]_pipelineVars => PipelineInv'
  <2> SUFFICES ASSUME PipelineInv, [PipelineNext]_pipelineVars PROVE PipelineInv'
    OBVIOUS
  <2>1. CASE UNCHANGED pipelineVars
    BY <2>1 DEF pipelineVars, PipelineInv, PipelineTypeOK, StagesInRounds, RecordsAgree,
                LoopEndsInOrder, Runnable
  <2> QED BY <2>1, MainStepKeeps, StageStepKeeps DEF PipelineNext
<1> QED BY <1>1, <1>2, PTL DEF PipelineSpec

\* The types of the pipeline's state hold for good.
THEOREM PipelineTypeCorrect == PipelineSpec => []PipelineTypeOK
<1>1. PipelineInv => PipelineTypeOK
  BY DEF PipelineInv
<1> QED BY <1>1, PipelineInvariance, PTL

\* Whatever the stages, their dependencies and their attempts, the report leaves
\* out a stage only after a timeout or behind one that was lost or never there.
THEOREM PipelineReportsAreTrue == PipelineSpec => []ReportAccountsForStages
<1>1. PipelineInv => ReportAccountsForStages
  <2> SUFFICES ASSUME PipelineInv, turn = "over"
               PROVE  /\ report = "cancelled" <=> timedOut
                      /\ ~timedOut => \A s \in Stages : stageAt[s] = "waiting" =>
                            \E d \in DependsOn[s] :
                               d \notin Stages \/ Lost(d) \/ stageAt[d] = "waiting"
                      /\ \A s \in Stages : stageAt[s] \in {"waiting"} \cup Back
                      /\ report = "completed" => failedStages = {}
                      /\ \A s \in failedStages : /\ tries[s] = MaxTries[s]
                                                 /\ s \notin completedStages
    BY DEF ReportAccountsForStages
  <2>1. /\ report = "cancelled" <=> timedOut
        /\ report = "completed" => failedStages = {}
    BY DEF PipelineInv, LoopEndsInOrder
  <2>2. \A s \in Stages : stageAt[s] = IF s \in pending THEN "waiting" ELSE stageAt[s]
    BY DEF PipelineInv, StagesInRounds
  <2>3. \A s \in Stages : stageAt[s] \in {"waiting"} \cup Back
    BY <2>2 DEF PipelineInv, StagesInRounds
  <2>4. \A s \in failedStages : tries[s] = MaxTries[s] /\ s \notin completedStages
    BY DEF PipelineInv, RecordsAgree
  <2>5. ASSUME ~timedOut, NEW s \in Stages, stageAt[s] = "waiting"
        PROVE  \E d \in DependsOn[s] : d \notin Stages \/ Lost(d) \/ stageAt[d] = "waiting"
    <3>1. s \in pending
      BY <2>5 DEF PipelineInv, StagesInRounds, Back
    <3>2. PICK d \in DependsOn[s] : d \notin completed \cup failedStages
      BY <3>1, <2>5 DEF PipelineInv, LoopEndsInOrder, Runnable
    <3>3. d \in Stages \ pending => Lost(d)
      BY <3>2 DEF PipelineInv, StagesInRounds, Back, Lost
    <3> QED BY <2>2, <3>2, <3>3
  <2> QED BY <2>1, <2>3, <2>4, <2>5
<1> QED BY <1>1, PipelineInvariance, PTL
-----------------------------------------------------------------------------
(* The orchestrator: the batches are disjoint, no node's parents are in its  *)
(* own batch or a later one, and the statuses of the nodes say which batches *)
(* have run.                                                                 *)

BatchesAreInOrder ==
    /\ \A i \in DOMAIN batches : \A n \in batches[i] :
          /\ parents[n] \subseteq nodes
          /\ \A j \in DOMAIN batches : i <= j => parents[n] \cap batches[j] = {}
    /\ \A i, j \in DOMAIN batches : i # j => batches[i] \cap batches[j] = {}
    /\ stage = "sort" => /\ \A m \in Modules : awaited[m] = parents[m] \ Sorted
                         /\ \A n \in Sorted : parents[n] \subseteq Sorted
                         /\ ~Cyclic(nodes, parents)

StatusesFitTheStage ==
    /\ stage # "pool" => pool = {}
    /\ stage \in {"plan", "over"} => batches = <<>>
    /\ stage # "plan" => nodes # {}
    /\ stage \in {"plan", "sort"} => \A m \in Modules : nodeStatus[m] = "PENDING"
    /\ stage = "run" => \A n \in Sorted : nodeStatus[n] = "PENDING"
    /\ stage \in {"run", "pool", "over"} => \A n \in nodes \ Sorted : nodeStatus[n] \in Settled
    /\ stage \in {"cyclic", "stuck"} => \A m \in Modules : nodeStatus[m] = "PENDING"
    /\ stage = "pool" =>
          /\ batches # <<>> /\ pool \subseteq Head(batches)
          /\ \A n \in Head(batches) \ pool : nodeStatus[n] = "SKIPPED"
          /\ \A n \in Sorted \ Head(batches) : nodeStatus[n] = "PENDING"
          /\ \A n \in pool : \A d \in parents[n] : d \in nodes /\ nodeStatus[d] = "COMPLETED"
    /\ \A m \in Modules : nodeStatus[m] \in {"PENDING", "RUNNING"} => attempts[m] < MaxAttempts

OrchestrationInv ==
    /\ OrchestrationTypeOK /\ BatchesAreInOrder /\ StatusesFitTheStage
    /\ NodesFollowTheirParents

\* What a sequence is with one more element, and without its first one.
LEMMA AppendIs ==
    ASSUME NEW S, NEW s \in Seq(S), NEW e \in S
    PROVE  /\ Append(s, e) \in Seq(S)
           /\ Len(s) \in Nat /\ DOMAIN s = 1..Len(s)
           /\ DOMAIN Append(s, e) = 1..(Len(s) + 1)
           /\ \A i \in 1..Len(s) : Append(s, e)[i] = s[i]
           /\ Append(s, e)[Len(s) + 1] = e
OBVIOUS

LEMMA TailIs ==
    ASSUME NEW S, NEW s \in Seq(S), s # <<>>
    PROVE  /\ Tail(s) \in Seq(S)
           /\ Len(s) \in Nat \ {0} /\ DOMAIN s = 1..Len(s)
           /\ DOMAIN Tail(s) = 1..(Len(s) - 1)
           /\ \A i \in 1..(Len(s) - 1) : Tail(s)[i] = s[i + 1]
           /\ Head(s) = s[1] /\ Head(s) \in S
<1>1. Len(s) \in Nat /\ Len(s) # 0
  OBVIOUS
<1> QED BY <1>1

LEMMA SortedAreNodes ==
    ASSUME OrchestrationTypeOK PROVE Sorted \subseteq nodes
BY DEF OrchestrationTypeOK, Sorted

\* The first batch is apart from the rest.
LEMMA FirstBatch ==
    ASSUME OrchestrationTypeOK, BatchesAreInOrder, batches # <<>>
    PROVE  /\ Head(batches) \subseteq Sorted
           /\ UNION {Tail(batches)[i] : i \in DOMAIN Tail(batches)} = Sorted \ Head(batches)
           /\ \A n \in Head(batches) : parents[n] \subseteq nodes \ Sorted
<1> DEFINE k == Len(batches)
<1>1. /\ k \in Nat \ {0} /\ DOMAIN batches = 1..k /\ Head(batches) = batches[1]
      /\ DOMAIN Tail(batches) = 1..(k - 1)
      /\ \A i \in 1..(k - 1) : Tail(batches)[i] = batches[i + 1]
  BY TailIs DEF OrchestrationTypeOK
<1> HIDE DEF k
<1>2. 1 \in DOMAIN batches
  BY <1>1
<1>3. Head(batches) \subseteq Sorted
  BY <1>1, <1>2 DEF Sorted
<1>4. ASSUME NEW n \in Sorted \ Head(batches)
      PROVE  \E i \in DOMAIN Tail(batches) : n \in Tail(batches)[i]
  <2>1. PICK j \in 1..k : n \in batches[j]
    BY <1>1 DEF Sorted
  <2>2. j # 1
    BY <2>1, <1>1
  <2>3. j - 1 \in 1..(k - 1) /\ Tail(batches)[j - 1] = batches[j]
    BY <2>2, <1>1
  <2> QED BY <2>1, <2>3, <1>1
<1>5. ASSUME NEW i \in DOMAIN Tail(batches), NEW n \in Tail(batches)[i]
      PROVE  n \in Sorted \ Head(batches)
  <2>1. i + 1 \in DOMAIN batches /\ i + 1 # 1 /\ n \in batches[i + 1]
    BY <1>1
  <2>2. batches[i + 1] \cap batches[1] = {}
    BY <2>1, <1>2 DEF BatchesAreInOrder
  <2> QED BY <2>1, <2>2, <1>1 DEF Sorted
<1>6. ASSUME NEW n \in Head(batches) PROVE parents[n] \subseteq nodes \ Sorted
  <2>1. parents[n] \subseteq nodes
    BY <1>1, <1>2 DEF BatchesAreInOrder
  <2>2. \A j \in DOMAIN batches : parents[n] \cap batches[j] = {}
    BY <1>1, <1>2 DEF BatchesAreInOrder
  <2> QED BY <2>1, <2>2 DEF Sorted
<1>7. UNION {Tail(batches)[i] : i \in DOMAIN Tail(batches)} = Sorted \ Head(batches)
  BY <1>4, <1>5
<1> QED BY <1>3, <1>6, <1>7

\* Pruning leaves at least one of the modules asked for.
LEMMA SomeAreKept ==
    ASSUME NEW asked \in SUBSET Modules, asked # {}, NEW p \in Policies
    PROVE  Kept(asked, p) # {} /\ Kept(asked, p) \subseteq asked
<1>1. ASSUME Cardinality(asked) > 1 PROVE asked \ Prunes[p] # {}
  <2> SUFFICES ASSUME asked \subseteq Prunes[p] PROVE FALSE
    OBVIOUS
  <2>1. PICK x : x \in asked
    OBVIOUS
  <2>2. asked = {x}
    BY <2>1, OrchestrationAssumption
  <2>3. Cardinality(asked) = 1
    BY <2>2, FS_Singleton
  <2> QED BY <1>1, <2>3
<1> QED BY <1>1 DEF Kept

\* The steps before any node has run.
LEMMA PlanKeeps ==
    ASSUME OrchestrationInv, NEW asked \in SUBSET Modules, NEW p \in Policies,
           PlanAndOptimize(asked, p)
    PROVE  OrchestrationInv'
<1>1. nodes' # {} /\ nodes' \subseteq Modules
  BY SomeAreKept DEF PlanAndOptimize
<1>2. parents' \in [Modules -> SUBSET Modules] /\ awaited' = parents'
  BY OrchestrationAssumption DEF PlanAndOptimize
<1>3. /\ batches' = <<>> /\ UNCHANGED <<nodeStatus, pool, attempts, outcome>> /\ stage = "plan"
      /\ stage' \in {"cyclic", "sort"}
      /\ stage' = "sort" => ~Cyclic(nodes', parents')
  BY DEF PlanAndOptimize, OrchestrationInv, StatusesFitTheStage
<1>4. Sorted' = {} /\ DOMAIN batches' = {}
  BY <1>3 DEF Sorted
<1>5. pool = {} /\ \A m \in Modules : nodeStatus[m] = "PENDING"
  BY <1>3 DEF OrchestrationInv, StatusesFitTheStage
<1>6. OrchestrationTypeOK'
  BY <1>1, <1>2, <1>3, <1>5 DEF OrchestrationInv, OrchestrationTypeOK
<1>7. BatchesAreInOrder'
  <2>1. stage' = "sort" => ~Cyclic(nodes, parents)'
    BY <1>3 DEF Cyclic
  <2> QED BY <1>2, <1>4, <2>1 DEF BatchesAreInOrder
<1>8. StatusesFitTheStage'
  BY <1>1, <1>3, <1>4, <1>5 DEF OrchestrationInv, StatusesFitTheStage
<1>9. NodesFollowTheirParents'
  BY <1>1, <1>3, <1>5 DEF NodesFollowTheirParents
<1> QED BY <1>6, <1>7, <1>8, <1>9 DEF OrchestrationInv

\* A node whose parents are all in the graph is never what stops the sort.
LEMMA StuckOnMissing ==
    ASSUME OrchestrationInv, stage = "sort", Sorted # nodes, Free = {}
    PROVE  \E n \in nodes : ~(parents[n] \subseteq nodes)
<1> SUFFICES ASSUME \A n \in nodes : parents[n] \subseteq nodes PROVE FALSE
  OBVIOUS
<1> DEFINE left == nodes \ Sorted
<1>1. left # {} /\ left \in SUBSET nodes
  BY SortedAreNodes DEF OrchestrationInv
<1>2. ASSUME NEW n \in left PROVE parents[n] \cap left # {}
  <2>1. awaited[n] = parents[n] \ Sorted /\ awaited[n] # {}
    BY DEF OrchestrationInv, OrchestrationTypeOK, BatchesAreInOrder, Free
  <2> QED BY <2>1
<1>3. Cyclic(nodes, parents)
  BY <1>1, <1>2 DEF Cyclic
<1> QED BY <1>3 DEF OrchestrationInv, BatchesAreInOrder
LEMMA SortKeeps ==
    ASSUME OrchestrationInv, TakeBatch PROVE OrchestrationInv'
<1>1. /\ stage = "sort" /\ Sorted # nodes
      /\ UNCHANGED <<nodes, parents, nodeStatus, pool, attempts, outcome>>
  BY DEF TakeBatch
<1>2. pool = {} /\ nodes # {} /\ \A m \in Modules : nodeStatus[m] = "PENDING"
  BY <1>1 DEF OrchestrationInv, StatusesFitTheStage
<1>3. CASE Free = {}
  <2>1. stage' = "stuck" /\ UNCHANGED <<batches, awaited>>
    BY <1>3 DEF TakeBatch
  <2>2. OrchestrationTypeOK' /\ BatchesAreInOrder'
    BY <1>1, <2>1 DEF OrchestrationInv, OrchestrationTypeOK, BatchesAreInOrder
  <2>3. StatusesFitTheStage'
    BY <1>1, <1>2, <2>1 DEF OrchestrationInv, StatusesFitTheStage
  <2>4. \E n \in nodes : ~(parents[n] \subseteq nodes)
    BY <1>1, <1>3, StuckOnMissing
  <2>5. NodesFollowTheirParents'
    BY <1>1, <2>1, <2>4 DEF OrchestrationInv, NodesFollowTheirParents
  <2> QED BY <2>2, <2>3, <2>5 DEF OrchestrationInv
<1>4. CASE Free # {}
  <2>1. /\ stage' = stage /\ batches' = Append(batches, Free)
        /\ awaited' = [m \in Modules |-> awaited[m] \ Free]
    BY <1>4 DEF TakeBatch
  <2> DEFINE k == Len(batches)
  <2>2. /\ batches' \in Seq(SUBSET nodes) /\ k \in Nat /\ DOMAIN batches = 1..k
        /\ DOMAIN batches' = 1..(k + 1)
        /\ \A i \in 1..k : batches'[i] = batches[i]
        /\ batches'[k + 1] = Free
    <3>1. Free \in SUBSET nodes /\ batches \in Seq(SUBSET nodes)
      BY DEF Free, OrchestrationInv, OrchestrationTypeOK
    <3> QED BY <2>1, <3>1, AppendIs
  <2> HIDE DEF k
  <2>3. Free \cap Sorted = {} /\ Free \subseteq nodes
    BY DEF Free
  <2>4. Sorted' = Sorted \cup Free
    <3>1. \A n \in Sorted' : n \in Sorted \cup Free
      <4> SUFFICES ASSUME NEW n \in Sorted' PROVE n \in Sorted \cup Free
        OBVIOUS
      <4>1. PICK i \in 1..(k + 1) : n \in batches'[i]
        BY <2>2 DEF Sorted
      <4>2. i \in 1..k \/ i = k + 1
        BY <2>2
      <4> QED BY <4>1, <4>2, <2>2 DEF Sorted
    <3>2. \A n \in Sorted : n \in Sorted'
      <4> SUFFICES ASSUME NEW n \in Sorted PROVE n \in Sorted'
        OBVIOUS
      <4>1. PICK i \in 1..k : n \in batches[i]
        BY <2>2 DEF Sorted
      <4>2. i \in 1..(k + 1)
        BY <2>2
      <4> QED BY <4>1, <4>2, <2>2 DEF Sorted
    <3>3. \A n \in Free : n \in Sorted'
      <4>1. k + 1 \in 1..(k + 1)
        BY <2>2
      <4> QED BY <4>1, <2>2 DEF Sorted
    <3> QED BY <3>1, <3>2, <3>3
  <2>5. \A n \in Free : parents[n] \subseteq Sorted
    BY <1>1 DEF Free, OrchestrationInv, OrchestrationTypeOK, BatchesAreInOrder
  <2>6. \A n \in Sorted : parents[n] \subseteq Sorted
    BY <1>1 DEF OrchestrationInv, BatchesAreInOrder
  <2>7. Sorted \subseteq nodes
    BY SortedAreNodes DEF OrchestrationInv
  <2>8. OrchestrationTypeOK'
    BY <1>1, <2>1, <2>2 DEF OrchestrationInv, OrchestrationTypeOK
  <2>9. BatchesAreInOrder'
    <3>1. ASSUME NEW i \in DOMAIN batches', NEW n \in batches'[i]
          PROVE  /\ parents[n] \subseteq nodes
                 /\ \A j \in DOMAIN batches' : i <= j => parents[n] \cap batches'[j] = {}
      <4>1. CASE i = k + 1
        <5>1. n \in Free
          BY <4>1, <3>1, <2>2
        <5>2. \A j \in DOMAIN batches' : i <= j => j = k + 1
          BY <4>1, <2>2
        <5> QED BY <5>1, <5>2, <2>2, <2>3, <2>5, <2>7
      <4>2. CASE i \in 1..k
        <5>1. n \in batches[i] /\ i \in DOMAIN batches
          BY <4>2, <3>1, <2>2
        <5>2. n \in Sorted
          BY <5>1 DEF Sorted
        <5>3. parents[n] \cap Free = {} /\ parents[n] \subseteq nodes
          BY <5>2, <2>3, <2>6, <2>7
        <5>4. \A j \in 1..k : i <= j => parents[n] \cap batches'[j] = {}
          BY <5>1, <2>2 DEF OrchestrationInv, BatchesAreInOrder
        <5>5. \A j \in 1..(k + 1) : j \in 1..k \/ j = k + 1
          BY <2>2
        <5> QED BY <5>3, <5>4, <5>5, <2>2
      <4>3. i \in 1..k \/ i = k + 1
        BY <3>1, <2>2
      <4> QED BY <4>1, <4>2, <4>3
    <3>2. ASSUME NEW i \in DOMAIN batches', NEW j \in DOMAIN batches', i # j
          PROVE  batches'[i] \cap batches'[j] = {}
      <4>1. \A l \in DOMAIN batches' : l \in 1..k \/ l = k + 1
        BY <2>2
      <4>2. \A l \in 1..k : batches'[l] \subseteq Sorted
        BY <2>2 DEF Sorted
      <4>3. CASE i \in 1..k /\ j \in 1..k
        BY <4>3, <3>2, <2>2 DEF OrchestrationInv, BatchesAreInOrder
      <4>4. CASE i = k + 1 \/ j = k + 1
        BY <4>1, <4>2, <4>4, <3>2, <2>2, <2>3
      <4> QED BY <4>1, <4>3, <4>4
    <3>3. \A m \in Modules : awaited'[m] = parents[m] \ Sorted'
      BY <1>1, <2>1, <2>4 DEF OrchestrationInv, BatchesAreInOrder
    <3>4. \A n \in Sorted' : parents[n] \subseteq Sorted'
      BY <2>4, <2>5, <2>6
    <3>5. ~Cyclic(nodes, parents)'
      BY <1>1 DEF OrchestrationInv, BatchesAreInOrder, Cyclic
    <3> QED BY <1>1, <2>1, <3>1, <3>2, <3>3, <3>4, <3>5 DEF BatchesAreInOrder
  <2>10. StatusesFitTheStage'
    BY <1>1, <1>2, <2>1 DEF OrchestrationInv, StatusesFitTheStage
  <2>11. NodesFollowTheirParents'
    BY <1>1, <2>1 DEF OrchestrationInv, NodesFollowTheirParents
  <2> QED BY <2>8, <2>9, <2>10, <2>11 DEF OrchestrationInv
<1> QED BY <1>3, <1>4

LEMMA SortedAllKeeps ==
    ASSUME OrchestrationInv, SortedAll PROVE OrchestrationInv'
<1>1. /\ stage = "sort" /\ stage' = "run" /\ Sorted = nodes
      /\ UNCHANGED <<nodes, parents, awaited, batches, nodeStatus, pool, attempts, outcome>>
  BY DEF SortedAll, graphVars
<1>2. Sorted' = Sorted
  BY <1>1 DEF Sorted
<1>3. nodes \subseteq Modules
  BY DEF OrchestrationInv, OrchestrationTypeOK
<1>4. OrchestrationTypeOK' /\ BatchesAreInOrder'
  BY <1>1 DEF OrchestrationInv, OrchestrationTypeOK, BatchesAreInOrder
<1>5. StatusesFitTheStage'
  BY <1>1, <1>2, <1>3 DEF OrchestrationInv, StatusesFitTheStage
<1>6. NodesFollowTheirParents'
  BY <1>1 DEF OrchestrationInv, NodesFollowTheirParents
<1> QED BY <1>4, <1>5, <1>6 DEF OrchestrationInv
\* The steps of ParallelExecutor.
LEMMA StartBatchKeeps ==
    ASSUME OrchestrationInv, StartBatch PROVE OrchestrationInv'
<1> DEFINE H == Head(batches)
<1>1. /\ stage = "run" /\ stage' = "pool" /\ batches # <<>>
      /\ pool' = {n \in H : ~HasBadParent(n)}
      /\ nodeStatus' = [m \in Modules |-> IF m \in H \ pool' THEN "SKIPPED" ELSE nodeStatus[m]]
      /\ UNCHANGED <<nodes, parents, awaited, batches, attempts, outcome>>
  BY DEF StartBatch, graphVars
<1>2. /\ H \subseteq Sorted /\ Sorted \subseteq nodes /\ nodes \subseteq Modules
      /\ \A n \in H : parents[n] \subseteq nodes \ Sorted
  BY <1>1, FirstBatch, SortedAreNodes DEF OrchestrationInv, OrchestrationTypeOK
<1>3. Sorted' = Sorted
  BY <1>1 DEF Sorted
<1>4. H' = H
  BY <1>1
<1> HIDE DEF H
<1>5. /\ \A n \in Sorted : nodeStatus[n] = "PENDING"
      /\ \A n \in nodes \ Sorted : nodeStatus[n] \in Settled
  BY <1>1 DEF OrchestrationInv, StatusesFitTheStage
<1>6. \A m \in Modules : nodeStatus'[m] = IF m \in H \ pool' THEN "SKIPPED" ELSE nodeStatus[m]
  BY <1>1
<1>7. pool' \subseteq H
  BY <1>1
<1>8. \A n \in pool' : \A d \in parents[n] : d \in nodes /\ nodeStatus'[d] = "COMPLETED"
  <2> SUFFICES ASSUME NEW n \in pool', NEW d \in parents[n]
               PROVE  d \in nodes /\ nodeStatus'[d] = "COMPLETED"
    OBVIOUS
  <2>1. d \in nodes \ Sorted /\ d \in Modules /\ d \notin H
    BY <1>2, <1>7
  <2>2. nodeStatus[d] \in Settled /\ nodeStatus[d] \notin Bad
    BY <2>1, <1>1, <1>5 DEF HasBadParent
  <2> QED BY <2>1, <2>2, <1>6 DEF Settled, Bad
<1>9. OrchestrationTypeOK'
  BY <1>1, <1>2, <1>7 DEF OrchestrationInv, OrchestrationTypeOK, Settled
<1>10. BatchesAreInOrder'
  BY <1>1 DEF OrchestrationInv, BatchesAreInOrder
<1>11. StatusesFitTheStage'
  <2>1. /\ \A n \in H \ pool' : nodeStatus'[n] = "SKIPPED"
        /\ \A n \in Sorted \ H : nodeStatus'[n] = "PENDING"
        /\ \A n \in nodes \ Sorted : nodeStatus'[n] \in Settled
    BY <1>2, <1>5, <1>6
  <2>2. \A m \in Modules : nodeStatus'[m] \in {"PENDING", "RUNNING"} => attempts[m] < MaxAttempts
    BY <1>6 DEF OrchestrationInv, StatusesFitTheStage
  <2> QED BY <1>1, <1>3, <1>4, <1>7, <1>8, <2>1, <2>2
          DEF OrchestrationInv, StatusesFitTheStage, H
<1>12. NodesFollowTheirParents'
  <2>1. \A n \in nodes : nodeStatus[n] = "COMPLETED" => nodeStatus'[n] = "COMPLETED"
    BY <1>2, <1>5, <1>6
  <2>2. \A n \in nodes : nodeStatus[n] \in Bad => nodeStatus'[n] \in Bad
    BY <1>2, <1>6 DEF Bad
  <2>3. ASSUME NEW n \in nodes
        PROVE  /\ nodeStatus'[n] \in {"RUNNING", "COMPLETED", "FAILED"} =>
                     \A d \in parents[n] : d \in nodes /\ nodeStatus'[d] = "COMPLETED"
               /\ nodeStatus'[n] = "SKIPPED" => \E d \in parents[n] : nodeStatus'[d] \in Bad
               /\ nodeStatus'[n] = "FAILED" => attempts[n] = MaxAttempts
    <3>1. CASE n \in H \ pool'
      <4>1. PICK d \in parents[n] \cap nodes : nodeStatus[d] \in Bad
        BY <3>1, <1>1 DEF HasBadParent
      <4>2. nodeStatus'[n] = "SKIPPED"
        BY <3>1, <1>2, <1>6
      <4> QED BY <4>1, <4>2, <2>2
    <3>2. CASE n \notin H \ pool'
      <4>1. nodeStatus'[n] = nodeStatus[n]
        BY <3>2, <1>2, <1>6
      <4>2. nodeStatus[n] = "SKIPPED" => \E d \in parents[n] : nodeStatus'[d] \in Bad
        <5> SUFFICES ASSUME nodeStatus[n] = "SKIPPED"
                     PROVE  \E d \in parents[n] : nodeStatus'[d] \in Bad
          OBVIOUS
        <5>1. PICK d \in parents[n] : nodeStatus[d] \in Bad
          BY DEF OrchestrationInv, NodesFollowTheirParents
        <5>2. d \in Modules
          BY <1>2 DEF OrchestrationInv, OrchestrationTypeOK
        <5>3. nodeStatus'[d] \in Bad
          BY <5>1, <5>2, <1>6 DEF Bad
        <5> QED BY <5>3
      <4> QED BY <4>1, <4>2, <2>1 DEF OrchestrationInv, NodesFollowTheirParents
    <3> QED BY <3>1, <3>2
  <2> QED BY <1>1, <2>3 DEF NodesFollowTheirParents
<1> QED BY <1>9, <1>10, <1>11, <1>12 DEF OrchestrationInv

LEMMA NodeStepKeeps ==
    ASSUME OrchestrationInv, NEW n \in Modules,
           StartNode(n) \/ NodeSucceeds(n) \/ AttemptFails(n)
    PROVE  OrchestrationInv'
<1> DEFINE H == Head(batches)
<1>1. /\ n \in pool /\ nodeStatus[n] \in {"PENDING", "RUNNING"}
      /\ UNCHANGED <<stage, nodes, parents, awaited, batches, pool, outcome>>
  BY DEF StartNode, NodeSucceeds, AttemptFails, graphVars
<1>2. stage = "pool"
  BY <1>1 DEF OrchestrationInv, StatusesFitTheStage
<1>3. batches # <<>> /\ pool \subseteq H
  BY <1>2 DEF OrchestrationInv, StatusesFitTheStage
<1>4. n \in H /\ H \subseteq Sorted /\ Sorted \subseteq nodes /\ nodes \subseteq Modules
  BY <1>1, <1>3, FirstBatch, SortedAreNodes DEF OrchestrationInv, OrchestrationTypeOK
<1>5. /\ attempts[n] < MaxAttempts /\ attempts[n] \in Nat /\ MaxAttempts \in Nat
  BY <1>1, OrchestrationAssumption
     DEF OrchestrationInv, OrchestrationTypeOK, StatusesFitTheStage
<1>6. PICK v \in {"RUNNING", "COMPLETED", "FAILED"}, a \in 0..MaxAttempts :
         /\ nodeStatus' = [nodeStatus EXCEPT ![n] = v]
         /\ attempts' = [attempts EXCEPT ![n] = a]
         /\ v = "RUNNING" => a < MaxAttempts
         /\ v = "FAILED" => a = MaxAttempts
  <2>1. CASE StartNode(n) \/ NodeSucceeds(n)
    <3>1. /\ \E v \in {"RUNNING", "COMPLETED"} : nodeStatus' = [nodeStatus EXCEPT ![n] = v]
          /\ attempts' = attempts
      BY <2>1 DEF StartNode, NodeSucceeds
    <3>2. attempts' = [attempts EXCEPT ![n] = attempts[n]]
      BY <3>1 DEF OrchestrationInv, OrchestrationTypeOK
    <3>3. attempts[n] \in 0..MaxAttempts
      BY DEF OrchestrationInv, OrchestrationTypeOK
    <3>4. PICK v \in {"RUNNING", "COMPLETED"} : nodeStatus' = [nodeStatus EXCEPT ![n] = v]
      BY <3>1
    <3>5. v \in {"RUNNING", "COMPLETED", "FAILED"} /\ v # "FAILED"
      BY <3>4
    <3> QED BY <3>2, <3>3, <3>4, <3>5, <1>5
  <2>2. CASE AttemptFails(n)
    <3>1. /\ attempts' = [attempts EXCEPT ![n] = attempts[n] + 1]
          /\ attempts'[n] = attempts[n] + 1
          /\ nodeStatus' = [nodeStatus EXCEPT ![n] =
                              IF attempts[n] + 1 = MaxAttempts THEN "FAILED" ELSE "RUNNING"]
      BY <2>2 DEF AttemptFails, OrchestrationInv, OrchestrationTypeOK
    <3>2. attempts[n] + 1 \in 0..MaxAttempts
      BY <1>5
    <3>3. CASE attempts[n] + 1 = MaxAttempts
      BY <3>1, <3>2, <3>3
    <3>4. CASE attempts[n] + 1 # MaxAttempts
      <4>1. attempts[n] + 1 < MaxAttempts
        BY <3>4, <1>5
      <4> QED BY <3>1, <3>2, <3>4, <4>1
    <3> QED BY <3>3, <3>4
  <2> QED BY <2>1, <2>2
<1>7. /\ Sorted' = Sorted /\ H' = H
  BY <1>1 DEF Sorted
<1>8. /\ \A m \in Modules : nodeStatus'[m] = IF m = n THEN v ELSE nodeStatus[m]
      /\ \A m \in Modules : attempts'[m] = IF m = n THEN a ELSE attempts[m]
  BY <1>6 DEF OrchestrationInv, OrchestrationTypeOK
<1>9. OrchestrationTypeOK'
  <2>1. nodeStatus' \in [Modules -> {"PENDING", "RUNNING"} \cup Settled]
    BY <1>6 DEF OrchestrationInv, OrchestrationTypeOK, Settled
  <2>2. attempts' \in [Modules -> 0..MaxAttempts]
    BY <1>6 DEF OrchestrationInv, OrchestrationTypeOK
  <2>3. /\ stage' \in {"plan", "sort", "run", "pool", "cyclic", "stuck", "over"}
        /\ nodes' \subseteq Modules /\ pool' \subseteq nodes'
        /\ parents' \in [Modules -> SUBSET Modules] /\ awaited' \in [Modules -> SUBSET Modules]
        /\ outcome' \in {"none", "completed", "partial", "failed"}
    BY <1>1 DEF OrchestrationInv, OrchestrationTypeOK
  <2>4. batches' \in Seq(SUBSET nodes')
    BY <1>1 DEF OrchestrationInv, OrchestrationTypeOK
  <2> QED BY <2>1, <2>2, <2>3, <2>4 DEF OrchestrationTypeOK
<1>10. BatchesAreInOrder'
  BY <1>1, <1>2 DEF OrchestrationInv, BatchesAreInOrder
<1>11. \A d \in pool : d \in Modules
  BY <1>3, <1>4
<1> HIDE DEF H
<1>12. /\ \A m \in H \ pool : nodeStatus[m] = "SKIPPED"
       /\ \A m \in Sorted \ H : nodeStatus[m] = "PENDING"
       /\ \A m \in pool : \A d \in parents[m] : d \in nodes /\ nodeStatus[d] = "COMPLETED"
       /\ \A m \in nodes \ Sorted : nodeStatus[m] \in Settled
       /\ nodes # {}
  BY <1>2 DEF OrchestrationInv, StatusesFitTheStage, H
<1>13. \A d \in nodes : nodeStatus[d] = "COMPLETED" => nodeStatus'[d] = "COMPLETED"
  BY <1>1, <1>4, <1>8
<1>14. StatusesFitTheStage'
  <2>1. /\ \A m \in H \ pool : nodeStatus'[m] = "SKIPPED"
        /\ \A m \in Sorted \ H : nodeStatus'[m] = "PENDING"
        /\ \A m \in nodes \ Sorted : nodeStatus'[m] \in Settled
    BY <1>1, <1>4, <1>8, <1>12
  <2>2. \A m \in pool : \A d \in parents[m] : d \in nodes /\ nodeStatus'[d] = "COMPLETED"
    BY <1>12, <1>13
  <2>3. \A m \in Modules : nodeStatus'[m] \in {"PENDING", "RUNNING"} => attempts'[m] < MaxAttempts
    BY <1>6, <1>8 DEF OrchestrationInv, StatusesFitTheStage
  <2> QED BY <1>1, <1>2, <1>3, <1>7, <1>12, <2>1, <2>2, <2>3 DEF StatusesFitTheStage, H
<1>15. NodesFollowTheirParents'
  <2>1. ASSUME NEW m \in nodes
        PROVE  /\ nodeStatus'[m] \in {"RUNNING", "COMPLETED", "FAILED"} =>
                     \A d \in parents[m] : d \in nodes /\ nodeStatus'[d] = "COMPLETED"
               /\ nodeStatus'[m] = "SKIPPED" => \E d \in parents[m] : nodeStatus'[d] \in Bad
               /\ nodeStatus'[m] = "FAILED" => attempts'[m] = MaxAttempts
    <3>1. CASE m = n
      BY <3>1, <1>1, <1>4, <1>6, <1>8, <1>12, <1>13
    <3>2. CASE m # n
      <4>1. nodeStatus'[m] = nodeStatus[m] /\ attempts'[m] = attempts[m]
        BY <3>2, <1>4, <1>8
      <4>2. \A d \in parents[m] : nodeStatus[d] \in Bad => nodeStatus'[d] \in Bad
        <5>1. parents[m] \subseteq Modules
          BY <1>4 DEF OrchestrationInv, OrchestrationTypeOK
        <5>2. nodeStatus[n] \notin Bad
          BY <1>1 DEF Bad
        <5> QED BY <5>1, <5>2, <1>8
      <4> QED BY <4>1, <4>2, <1>13 DEF OrchestrationInv, NodesFollowTheirParents
    <3> QED BY <3>1, <3>2
  <2> QED BY <1>1, <1>2, <2>1 DEF NodesFollowTheirParents
<1> QED BY <1>9, <1>10, <1>14, <1>15 DEF OrchestrationInv
LEMMA EndBatchKeeps ==
    ASSUME OrchestrationInv, EndBatch PROVE OrchestrationInv'
<1> DEFINE H == Head(batches)
<1>1. /\ stage = "pool" /\ stage' = "run" /\ pool' = {} /\ batches' = Tail(batches)
      /\ \A n \in pool : nodeStatus[n] \in Settled
      /\ UNCHANGED <<nodes, parents, awaited, nodeStatus, attempts, outcome>>
  BY DEF EndBatch, graphVars
<1>2. /\ batches # <<>> /\ nodes # {}
      /\ \A n \in H \ pool : nodeStatus[n] = "SKIPPED"
      /\ \A n \in Sorted \ H : nodeStatus[n] = "PENDING"
      /\ \A n \in nodes \ Sorted : nodeStatus[n] \in Settled
  BY <1>1 DEF OrchestrationInv, StatusesFitTheStage
<1>3. Sorted' = Sorted \ H
  BY <1>1, <1>2, FirstBatch DEF OrchestrationInv, Sorted
<1>4. /\ batches' \in Seq(SUBSET nodes)
      /\ Len(batches) \in Nat \ {0} /\ DOMAIN batches = 1..Len(batches)
      /\ DOMAIN batches' = 1..(Len(batches) - 1)
      /\ \A i \in 1..(Len(batches) - 1) : batches'[i] = batches[i + 1]
  BY <1>1, <1>2, TailIs DEF OrchestrationInv, OrchestrationTypeOK
<1> HIDE DEF H
<1>5. OrchestrationTypeOK'
  BY <1>1, <1>4 DEF OrchestrationInv, OrchestrationTypeOK
<1>6. BatchesAreInOrder'
  <2>1. \A i \in DOMAIN batches' : i + 1 \in DOMAIN batches /\ batches'[i] = batches[i + 1]
    BY <1>4
  <2>2. \A i, j \in DOMAIN batches' : /\ i <= j => i + 1 <= j + 1
                                      /\ i # j => i + 1 # j + 1
    BY <1>4
  <2>3. ASSUME NEW i \in DOMAIN batches', NEW n \in batches'[i]
        PROVE  /\ parents[n] \subseteq nodes
               /\ \A j \in DOMAIN batches' : i <= j => parents[n] \cap batches'[j] = {}
    BY <2>1, <2>2 DEF OrchestrationInv, BatchesAreInOrder
  <2>4. ASSUME NEW i \in DOMAIN batches', NEW j \in DOMAIN batches', i # j
        PROVE  batches'[i] \cap batches'[j] = {}
    BY <2>1, <2>2, <2>4 DEF OrchestrationInv, BatchesAreInOrder
  <2> QED BY <1>1, <2>3, <2>4 DEF BatchesAreInOrder
<1>7. StatusesFitTheStage'
  <2>1. \A n \in nodes \ Sorted' : nodeStatus[n] \in Settled
    BY <1>1, <1>2, <1>3 DEF Settled
  <2>2. \A n \in Sorted' : nodeStatus[n] = "PENDING"
    BY <1>2, <1>3
  <2>3. \A m \in Modules : nodeStatus[m] \in {"PENDING", "RUNNING"} => attempts[m] < MaxAttempts
    BY DEF OrchestrationInv, StatusesFitTheStage
  <2> QED BY <1>1, <1>2, <2>1, <2>2, <2>3 DEF StatusesFitTheStage
<1>8. NodesFollowTheirParents'
  BY <1>1 DEF OrchestrationInv, NodesFollowTheirParents
<1> QED BY <1>5, <1>6, <1>7, <1>8 DEF OrchestrationInv

LEMMA AggregateKeeps ==
    ASSUME OrchestrationInv, Aggregate PROVE OrchestrationInv'
<1> DEFINE ok == {n \in nodes : nodeStatus[n] = "COMPLETED"}
           bad == {n \in nodes : nodeStatus[n] \in Bad}
<1>1. /\ stage = "run" /\ stage' = "over" /\ batches = <<>>
      /\ UNCHANGED <<nodes, parents, awaited, batches, nodeStatus, pool, attempts>>
      /\ outcome' = CASE ok # {} /\ bad = {} -> "completed"
                      [] ok # {} /\ bad # {} -> "partial"
                      [] ok = {} -> "failed"
  BY DEF Aggregate, graphVars
<1>2. /\ outcome' \in {"completed", "partial", "failed"}
      /\ outcome' = "completed" <=> ok # {} /\ bad = {}
  <2> HIDE DEF ok, bad
  <2> QED BY <1>1
<1>3. Sorted = {} /\ Sorted' = {}
  BY <1>1 DEF Sorted
<1>4. nodes # {} /\ pool = {} /\ \A n \in nodes : nodeStatus[n] \in Settled
  BY <1>1, <1>3 DEF OrchestrationInv, StatusesFitTheStage
<1>5. outcome' = "completed" <=> \A n \in nodes : nodeStatus[n] = "COMPLETED"
  BY <1>2, <1>4 DEF Settled, Bad
<1>6. OrchestrationTypeOK' /\ BatchesAreInOrder'
  BY <1>1, <1>2 DEF OrchestrationInv, OrchestrationTypeOK, BatchesAreInOrder
<1>7. StatusesFitTheStage'
  BY <1>1, <1>3, <1>4 DEF OrchestrationInv, StatusesFitTheStage
<1>8. NodesFollowTheirParents'
  BY <1>1, <1>4, <1>5 DEF OrchestrationInv, NodesFollowTheirParents
<1> QED BY <1>6, <1>7, <1>8 DEF OrchestrationInv

\* The invariant holds for good.
THEOREM OrchestrationInvariance == OrchestrationSpec => []OrchestrationInv
<1>1. OrchestrationInit => OrchestrationInv
  <2> SUFFICES ASSUME OrchestrationInit PROVE OrchestrationInv
    OBVIOUS
  <2>1. OrchestrationTypeOK
    BY OrchestrationAssumption DEF OrchestrationInit, OrchestrationTypeOK
  <2>2. BatchesAreInOrder
    BY DEF OrchestrationInit, BatchesAreInOrder
  <2>3. StatusesFitTheStage
    BY OrchestrationAssumption DEF OrchestrationInit, StatusesFitTheStage
  <2>4. NodesFollowTheirParents
    BY DEF OrchestrationInit, NodesFollowTheirParents
  <2> QED BY <2>1, <2>2, <2>3, <2>4 DEF OrchestrationInv
<1>2. OrchestrationInv /\ [OrchestrationNext]_orchestrationVars => OrchestrationInv'
  <2> SUFFICES ASSUME OrchestrationInv, [OrchestrationNext]_orchestrationVars
               PROVE  OrchestrationInv'
    OBVIOUS
  <2>1. CASE UNCHANGED orchestrationVars
    <3>1. Sorted' = Sorted
      BY <2>1 DEF Sorted, orchestrationVars
    <3>2. OrchestrationTypeOK'
      BY <2>1 DEF OrchestrationInv, OrchestrationTypeOK, orchestrationVars
    <3>3. BatchesAreInOrder'
      BY <2>1, <3>1 DEF OrchestrationInv, BatchesAreInOrder, Cyclic, orchestrationVars
    <3>4. StatusesFitTheStage'
      BY <2>1, <3>1 DEF OrchestrationInv, StatusesFitTheStage, orchestrationVars
    <3>5. NodesFollowTheirParents'
      BY <2>1 DEF OrchestrationInv, NodesFollowTheirParents, orchestrationVars
    <3> QED BY <3>2, <3>3, <3>4, <3>5 DEF OrchestrationInv
  <2>2. CASE OrchestrationNext
    BY <2>2, PlanKeeps, SortKeeps, SortedAllKeeps, StartBatchKeeps, NodeStepKeeps,
       EndBatchKeeps, AggregateKeeps DEF OrchestrationNext
  <2> QED BY <2>1, <2>2
<1> QED BY <1>1, <1>2, PTL DEF OrchestrationSpec

\* The types of the orchestrator's state hold for good.
THEOREM OrchestrationTypeCorrect == OrchestrationSpec => []OrchestrationTypeOK
<1>1. OrchestrationInv => OrchestrationTypeOK
  BY DEF OrchestrationInv
<1> QED BY <1>1, OrchestrationInvariance, PTL

\* Whatever the modules, the rules and the policies, a module runs only after all
\* that it depends on, and only a pruned dependency stops the sort.
THEOREM NodesFollowParents == OrchestrationSpec => []NodesFollowTheirParents
<1>1. OrchestrationInv => NodesFollowTheirParents
  BY DEF OrchestrationInv
<1> QED BY <1>1, OrchestrationInvariance, PTL

-----------------------------------------------------------------------------
(* The batches' pools and TaskExecution.                                     *)

\* A module that is not in the graph is never touched.
OnlyNodesMove == \A m \in Modules \ nodes : nodeStatus[m] = "PENDING"

LEMMA OthersStayPending ==
    ASSUME OrchestrationInv, OnlyNodesMove, [OrchestrationNext]_orchestrationVars
    PROVE  OnlyNodesMove'
<1>1. /\ nodeStatus \in [Modules -> {"PENDING", "RUNNING"} \cup Settled]
      /\ pool \subseteq nodes
  BY DEF OrchestrationInv, OrchestrationTypeOK
<1>2. CASE UNCHANGED orchestrationVars
  BY <1>2 DEF OnlyNodesMove, orchestrationVars
<1>3. ASSUME NEW asked \in SUBSET Modules, NEW p \in Policies, PlanAndOptimize(asked, p)
      PROVE  OnlyNodesMove'
  BY <1>3 DEF OrchestrationInv, StatusesFitTheStage, OnlyNodesMove, PlanAndOptimize
<1>4. CASE TakeBatch \/ SortedAll \/ EndBatch \/ Aggregate
  BY <1>4 DEF OnlyNodesMove, TakeBatch, SortedAll, EndBatch, Aggregate, graphVars
<1>5. CASE StartBatch
  <2>1. Head(batches) \subseteq nodes
    BY <1>5, FirstBatch, SortedAreNodes DEF OrchestrationInv, StartBatch
  <2> QED BY <1>5, <2>1 DEF OnlyNodesMove, StartBatch, graphVars
<1>6. ASSUME NEW n \in Modules, StartNode(n) \/ NodeSucceeds(n) \/ AttemptFails(n)
      PROVE  OnlyNodesMove'
  <2>1. n \in nodes /\ nodes' = nodes /\ \A m \in Modules \ {n} : nodeStatus'[m] = nodeStatus[m]
    BY <1>1, <1>6 DEF StartNode, NodeSucceeds, AttemptFails, graphVars
  <2> QED BY <2>1 DEF OnlyNodesMove
<1> QED BY <1>2, <1>3, <1>4, <1>5, <1>6 DEF OrchestrationNext

\* What runs is in the pool, so the pool's limit is a limit on all that runs.
LEMMA RunningAreInThePool ==
    ASSUME OrchestrationInv, OnlyNodesMove
    PROVE  \A m \in Modules : nodeStatus[m] = "RUNNING" => m \in pool
<1> SUFFICES ASSUME NEW m \in Modules, nodeStatus[m] = "RUNNING", m \notin pool PROVE FALSE
  OBVIOUS
<1>1. stage \in {"run", "pool", "over"}
  BY DEF OrchestrationInv, OrchestrationTypeOK, StatusesFitTheStage
<1>2. m \in nodes
  BY DEF OnlyNodesMove
<1>3. m \in Sorted
  BY <1>1, <1>2 DEF OrchestrationInv, StatusesFitTheStage, Settled
<1> QED BY <1>1, <1>3 DEF OrchestrationInv, StatusesFitTheStage, OrchestrationTypeOK, Sorted

\* Starting, ending and retrying are what TaskExecution lets a pool do.
LEMMA NodeStepIsPoolStep ==
    ASSUME OrchestrationInv, OnlyNodesMove, NEW n \in Modules,
           StartNode(n) \/ NodeSucceeds(n) \/ AttemptFails(n)
    PROVE  [Pool!Next]_(Pool!executionVars)
<1> DEFINE R == {m \in Modules : nodeStatus[m] = "RUNNING"}
           E == {m \in Modules : nodeStatus[m] \in {"COMPLETED", "FAILED"}}
<1>1. nodeStatus \in [Modules -> {"PENDING", "RUNNING"} \cup Settled]
  BY DEF OrchestrationInv, OrchestrationTypeOK
<1>2. CASE StartNode(n)
  <2>1. R = {m \in pool : nodeStatus[m] = "RUNNING"}
    BY RunningAreInThePool DEF OrchestrationInv, OrchestrationTypeOK
  <2>2. Cardinality(R) < MaxConcurrency
    BY <1>2, <2>1 DEF StartNode
  <2>3. n \in Modules \ (R \cup E) /\ R' = R \cup {n} /\ E' = E
    BY <1>1, <1>2 DEF StartNode
  <2> HIDE DEF R, E
  <2>4. Pool!Cardinality(R) = Cardinality(R)
    BY DEF Pool!Cardinality, Cardinality
  <2>5. Pool!Enter(n)
    BY <2>2, <2>3, <2>4 DEF Pool!Enter, R, E
  <2> QED BY <2>5 DEF Pool!Next
<1>3. ASSUME nodeStatus[n] = "RUNNING",
             NEW v \in {"COMPLETED", "FAILED"}, nodeStatus' = [nodeStatus EXCEPT ![n] = v]
      PROVE  Pool!Next
  <2>1. n \in R /\ R' = R \ {n} /\ E' = E \cup {n}
    BY <1>1, <1>3
  <2>2. Pool!Leave(n)
    BY <2>1 DEF Pool!Leave
  <2> QED BY <2>2 DEF Pool!Next
<1>4. CASE NodeSucceeds(n)
  BY <1>3, <1>4 DEF NodeSucceeds
<1>5. CASE AttemptFails(n)
  <2>1. \/ nodeStatus' = [nodeStatus EXCEPT ![n] = "FAILED"]
        \/ nodeStatus' = nodeStatus
    BY <1>1, <1>5 DEF AttemptFails
  <2>2. nodeStatus' = nodeStatus => UNCHANGED Pool!executionVars
    BY DEF Pool!executionVars
  <2>3. nodeStatus[n] = "RUNNING"
    BY <1>5 DEF AttemptFails
  <2> QED BY <1>3, <2>1, <2>2, <2>3
<1> QED BY <1>2, <1>4, <1>5

\* Only nodes that have not begun are skipped.
LEMMA SkippingRests ==
    ASSUME OrchestrationInv, StartBatch PROVE UNCHANGED Pool!executionVars
<1>1. Head(batches) \subseteq Sorted
  BY FirstBatch DEF OrchestrationInv, StartBatch
<1>2. \A m \in Head(batches) : nodeStatus[m] = "PENDING"
  BY <1>1 DEF OrchestrationInv, StatusesFitTheStage, StartBatch
<1>3. \A m \in Modules :
         \/ nodeStatus'[m] = nodeStatus[m]
         \/ nodeStatus[m] = "PENDING" /\ nodeStatus'[m] = "SKIPPED"
  BY <1>2 DEF StartBatch
<1> QED BY <1>3 DEF Pool!executionVars

\* The batches together implement TaskExecution: no module is handed to a pool
\* twice (its retries are one stay in it), and never more than MaxConcurrency
\* modules run at a time, whatever the batches.
THEOREM ModulesRunOnce == OrchestrationSpec => Pool!Spec
<1>1. OrchestrationInit => Pool!Init
  BY DEF OrchestrationInit, Pool!Init
<1>2. OrchestrationInv /\ OnlyNodesMove /\ [OrchestrationNext]_orchestrationVars => [Pool!Next]_(Pool!executionVars)
  <2> SUFFICES ASSUME OrchestrationInv, OnlyNodesMove, [OrchestrationNext]_orchestrationVars
               PROVE  [Pool!Next]_(Pool!executionVars)
    OBVIOUS
  <2>1. ASSUME nodeStatus' = nodeStatus PROVE UNCHANGED Pool!executionVars
    BY <2>1 DEF Pool!executionVars
  <2>2. CASE UNCHANGED orchestrationVars
    BY <2>1, <2>2 DEF orchestrationVars
  <2>3. ASSUME NEW asked \in SUBSET Modules, NEW p \in Policies, PlanAndOptimize(asked, p)
        PROVE  UNCHANGED Pool!executionVars
    BY <2>1, <2>3 DEF PlanAndOptimize
  <2>4. CASE TakeBatch \/ SortedAll \/ EndBatch \/ Aggregate
    BY <2>1, <2>4 DEF TakeBatch, SortedAll, EndBatch, Aggregate
  <2>5. CASE StartBatch
    BY <2>5, SkippingRests
  <2> QED BY <2>2, <2>3, <2>4, <2>5, NodeStepIsPoolStep DEF OrchestrationNext
<1>3. OrchestrationInit => OnlyNodesMove
  BY DEF OrchestrationInit, OnlyNodesMove
<1> QED BY <1>1, <1>2, <1>3, OthersStayPending, OrchestrationInvariance, PTL
        DEF OrchestrationSpec, Pool!Spec
==============================================================================
