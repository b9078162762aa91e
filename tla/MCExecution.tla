----------------------------- MODULE MCExecution -----------------------------
(* Five engines of the backend that carry out what is submitted to them and *)
(* do not share any state: the initial state picks the one that moves, and  *)
(* the others stay as they are.                                             *)
EXTENDS Automation, Executor, AgentRequests, StagePipeline, Orchestration

VARIABLE engine

Engines == {"automation", "executor", "agents", "pipeline", "orchestration"}

executionVars == <<engine, autoVars, vars, agentVars, pipelineVars, orchestrationVars>>

\* Whoever does not move has one initial state.
ExecutionInit ==
    /\ engine \in Engines
    /\ AutomationInit /\ Init /\ PipelineInit /\ OrchestrationInit
    /\ AgentsInit /\ (engine = "agents" \/ /\ agentState = [a \in Agents |-> "IDLE"]
                                           /\ strategy = [r \in Requests |-> "abort"])

Rests(e, v) == engine = e \/ UNCHANGED v

ExecutionNext ==
    /\ UNCHANGED engine
    /\ \/ engine = "automation" /\ AutomationNext
       \/ engine = "executor" /\ Next
       \/ engine = "agents" /\ AgentsNext
       \/ engine = "pipeline" /\ PipelineNext
       \/ engine = "orchestration" /\ OrchestrationNext
    /\ Rests("automation", autoVars) /\ Rests("executor", vars) /\ Rests("agents", agentVars)
    /\ Rests("pipeline", pipelineVars) /\ Rests("orchestration", orchestrationVars)

ExecutionFairness ==
    /\ \A c \in Calls : WF_autoVars(engine = "automation" /\ ThreadStep(c))
    /\ \A e \in Executions : WF_vars(engine = "executor" /\ Run(e))

MCExecutionSpec == ExecutionInit /\ [][ExecutionNext]_executionVars /\ ExecutionFairness

---------------------------------------------------------------------------
\* Automation reviews: a condition picks between an approval and an audit (the
\* other one is skipped); a check follows the approval, which the audit skips or
\* not, for its other branch is no step; a second approval follows them all.  One
\* more step waits for what is no step.
CONSTANTS pick, sign, audit, check, release, lost, nowhere

MCPosition == [s \in Steps |-> CASE s = pick -> 1 [] s = sign -> 2 [] s = audit -> 3
                                 [] s = check -> 4 [] s = release -> 5 [] s = lost -> 6]
MCDeps == [s \in Steps |-> CASE s = pick -> {} [] s \in {sign, audit} -> {pick}
                             [] s = check -> {sign} [] s = release -> {audit, check}
                             [] s = lost -> {pick, nowhere}]
MCSkips == [s \in Steps |-> CASE s = pick -> {sign, audit} [] s = audit -> {check, nowhere}
                              [] OTHER -> {}]

\* The first request needs two agents, of which the second can do both tasks;
\* the other can be served by either.
CONSTANTS x, y, first
MCNeeds == [r \in Requests |-> IF r = first THEN <<{x, y}, {y}>> ELSE <<{x, y}>>]

\* Two stages and one that merges them; one that follows it, and one that waits
\* for a stage there is not.
MCDependsOn == [s \in Stages |-> CASE s = "merge" -> {"left", "right"} [] s = "last" -> {"merge"}
                                   [] s = "extra" -> {"unknown"} [] OTHER -> {}]
MCMaxTries == [s \in Stages |-> CASE s = "left" -> 2 [] s = "last" -> 0 [] OTHER -> 1]

\* WorkflowPlanner's rules, on the modules asked about, and the policies that
\* matter to them.
MCRules == [m \in Modules |-> CASE m = "knowledge" -> {"resume", "github", "document"} \cap Modules
                                [] m = "professional" -> {"knowledge"} \cap Modules
                                [] m = "composition" -> {"professional"}
                                [] OTHER -> {}]
MCPrunes == [p \in Policies |-> IF p = "lowest_cost" THEN {"professional"} ELSE {}]
=============================================================================
