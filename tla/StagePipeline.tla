---------------------------- MODULE StagePipeline ----------------------------
(***************************************************************************)
(* IntelligenceOrchestrator.run (backend/intelligence/core/orchestrator.py)*)
(* with IntelligencePipeline.execute (core/pipeline.py) and the            *)
(* ExecutionState its threads share (core/state.py).  The stages run in    *)
(* rounds: every stage whose dependencies have ended, each in its thread,  *)
(* and the next round starts when all of them have come back.              *)
(*                                                                         *)
(* Every method of ExecutionState is a step.  A condition and an action    *)
(* are a choice of their outcomes.  Warnings, errors, timings, retry       *)
(* counts and events are left out.                                         *)
(***************************************************************************)
EXTENDS Integers

CONSTANTS Stages,
          DependsOn,    \* depends_on of each stage: any names
          MaxTries      \* its max_retries

ASSUME PipelineAssumption == MaxTries \in [Stages -> Nat]

VARIABLES turn,         \* where the thread of run() is
          pending,
          completed,    \* its local set: stages run, or skipped
          stageAt,      \* where each stage's thread is
          tries,        \* attempts
          completedStages, failedStages, runStatus,   \* ExecutionState
          report,       \* status of the report ("none": not made yet)
          timedOut      \* history: a round was not started for the timeout

pipelineVars == <<turn, pending, completed, stageAt, tries, completedStages, failedStages,
                  runStatus, report, timedOut>>
main == <<turn, pending, completed, report, timedOut>>

Back == {"passed", "raised"}
Reports == {"completed", "failed", "partial_success", "cancelled"}

PipelineTypeOK ==
    /\ turn \in {"look", "round", "map", "over"}
    /\ pending \subseteq Stages /\ completed \subseteq Stages
    /\ stageAt \in [Stages -> {"waiting", "gate", "attempt", "action"} \cup Back]
    /\ tries \in [Stages -> Nat]
    /\ completedStages \subseteq Stages /\ failedStages \subseteq Stages
    /\ runStatus \in {"started", "running"} \cup Reports
    /\ report \in {"none"} \cup Reports
    /\ timedOut \in BOOLEAN

PipelineInit ==
    /\ turn = "look"
    /\ pending = Stages /\ completed = {}
    /\ stageAt = [s \in Stages |-> "waiting"]
    /\ tries = [s \in Stages |-> 0]
    /\ completedStages = {} /\ failedStages = {}
    /\ runStatus = "started"
    /\ report = "none"
    /\ timedOut = FALSE

StageComes(s, from, to) == stageAt[s] = from /\ stageAt' = [stageAt EXCEPT ![s] = to]

---------------------------------------------------------------------------
\* Faulty variant: a stage waits for its dependencies to succeed.
RunnableAfterSuccess == {s \in pending : DependsOn[s] \subseteq completed}

\* The main thread, at the top of its loop.
Runnable == {s \in pending : DependsOn[s] \subseteq completed \cup failedStages}

GiveUpOnTimeout ==
    /\ turn = "look" /\ pending # {}
    /\ turn' = "map" /\ runStatus' = "cancelled" /\ timedOut' = TRUE
    /\ UNCHANGED <<pending, completed, stageAt, tries, completedStages, failedStages, report>>

LeaveLoop ==
    /\ turn = "look" /\ Runnable = {}
    /\ turn' = "map"
    /\ UNCHANGED <<pending, completed, stageAt, tries, completedStages, failedStages, runStatus,
                   report, timedOut>>

StartRound ==
    /\ turn = "look" /\ Runnable # {}
    /\ turn' = "round"
    /\ stageAt' = [s \in Stages |-> IF s \in Runnable THEN "gate" ELSE stageAt[s]]
    /\ UNCHANGED <<pending, completed, tries, completedStages, failedStages, runStatus, report,
                   timedOut>>

\* The results of the round: whoever returned is completed, and the round's
\* stages are pending no longer.
Round == {s \in pending : stageAt[s] # "waiting"}
EndRound ==
    /\ turn = "round" /\ \A s \in Round : stageAt[s] \in Back
    /\ turn' = "look"
    /\ completed' = completed \cup {s \in Round : stageAt[s] = "passed"}
    /\ pending' = pending \ Round
    /\ UNCHANGED <<stageAt, tries, completedStages, failedStages, runStatus, report, timedOut>>

\* run(): the report's status.
MapStatus ==
    /\ turn = "map"
    /\ turn' = "over"
    /\ report' = CASE runStatus = "cancelled" -> "cancelled"
                   [] runStatus # "cancelled" /\ failedStages = {} -> "completed"
                   [] runStatus # "cancelled" /\ failedStages # {} ->
                        IF completedStages = {} THEN "failed" ELSE "partial_success"
    /\ runStatus' = report'
    /\ UNCHANGED <<pending, completed, stageAt, tries, completedStages, failedStages, timedOut>>

MainStep == GiveUpOnTimeout \/ LeaveLoop \/ StartRound \/ EndRound \/ MapStatus

\* _run_single_stage_with_retry: a condition that is false skips the stage;
\* one that raises ends it without any record.  A stage with no attempts left
\* at the first look has passed.
PassGate(s) ==
    /\ StageComes(s, "gate", IF MaxTries[s] = 0 THEN "passed" ELSE "attempt")
    /\ UNCHANGED <<main, tries, completedStages, failedStages, runStatus>>

StopAtGate(s) ==
    /\ StageComes(s, "gate", "passed") \/ StageComes(s, "gate", "raised")
    /\ UNCHANGED <<main, tries, completedStages, failedStages, runStatus>>

StartStage(s) ==
    /\ StageComes(s, "attempt", "action")
    /\ runStatus' = "running"
    /\ UNCHANGED <<main, tries, completedStages, failedStages>>

CompleteStage(s) ==
    /\ StageComes(s, "action", "passed")
    /\ completedStages' = completedStages \cup {s}
    /\ UNCHANGED <<main, tries, failedStages, runStatus>>

RecordRetry(s) ==
    /\ tries[s] + 1 < MaxTries[s]
    /\ StageComes(s, "action", "attempt")
    /\ tries' = [tries EXCEPT ![s] = @ + 1]
    /\ UNCHANGED <<main, completedStages, failedStages, runStatus>>

FailStage(s) ==
    /\ tries[s] + 1 >= MaxTries[s]
    /\ StageComes(s, "action", "raised")
    /\ tries' = [tries EXCEPT ![s] = @ + 1]
    /\ failedStages' = failedStages \cup {s}
    /\ runStatus' = IF completedStages = {} THEN "failed" ELSE "partial_success"
    /\ UNCHANGED <<main, completedStages>>

StageStep(s) == \/ PassGate(s) \/ StopAtGate(s) \/ StartStage(s) \/ CompleteStage(s)
                \/ RecordRetry(s) \/ FailStage(s)

PipelineNext == MainStep \/ \E s \in Stages : StageStep(s)

PipelineSpec == PipelineInit /\ [][PipelineNext]_pipelineVars

---------------------------------------------------------------------------
\* A stage whose condition raised: it came back with an error that is in none
\* of the records.
Lost(s) == stageAt[s] = "raised" /\ s \notin failedStages

\* A report that is not "cancelled" leaves out a stage only for a reason: it
\* waits for a stage that was lost, for a name no stage has, or for another
\* stage left out.  The stages that ran are all in it, each once, and the ones
\* that failed had all their attempts.
ReportAccountsForStages ==
    turn = "over" =>
        /\ report = "cancelled" <=> timedOut
        /\ ~timedOut => \A s \in Stages : stageAt[s] = "waiting" =>
              \E d \in DependsOn[s] : d \notin Stages \/ Lost(d) \/ stageAt[d] = "waiting"
        /\ \A s \in Stages : stageAt[s] \in {"waiting"} \cup Back
        /\ report = "completed" => failedStages = {}
        /\ \A s \in failedStages : tries[s] = MaxTries[s] /\ s \notin completedStages
=============================================================================
