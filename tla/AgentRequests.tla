---------------------------- MODULE AgentRequests ----------------------------
(***************************************************************************)
(* OrchestratorAgent (backend/agents/orchestrator.py) at work on several   *)
(* requests, each in its own thread: handle() plans an agent for each      *)
(* capability and runs the plan's agents one after the other.  The agents  *)
(* are shared and have no lock: the hooks of BaseAgent                     *)
(* (backend/runtime/base.py) look at the state and write it in steps of    *)
(* their own.                                                              *)
(*                                                                         *)
(* A capability is the set of the agents that have it; the registry does   *)
(* not change, and its order does not decide between equal candidates.     *)
(* Tasks are valid.  Events, results and metrics are left out.             *)
(***************************************************************************)
EXTENDS Sequences, SequencesExt

CONSTANTS Requests,     \* calls of handle()
          Agents,
          Needs         \* required_caps of each request

ASSUME AgentsAssumption ==
    /\ Needs \in [Requests -> Seq(SUBSET Agents)]
    /\ \A r \in Requests : Needs[r] # <<>>

VARIABLES agentState,   \* state of each agent
          agentStatus,  \* its health status
          place,        \* where each request is
          strategy,     \* fallback_strategy
          caps,         \* the capabilities it has still to plan for
          candidates,   \* the agents select_agent found healthy
          plan,         \* participating agents, less those it is done with
          again,        \* requests in the second run of the agent that failed
          saw,          \* history: the state each request's last check found
          overtaken     \* history: agents written to against what was seen

agentVars == <<agentState, agentStatus, place, strategy, caps, candidates, plan, again, saw,
               overtaken>>
planning == <<strategy, caps, candidates>>

AgentStates == {"UNINITIALIZED", "INITIALIZED", "IDLE", "BUSY", "ERROR"}
HealthStatuses == {"UNINITIALIZED", "HEALTHY", "UNHEALTHY"}
Strategies == {"abort", "retry", "ignore"}
Selecting == {"new", "filter", "sort"}
Running == {"prepare", "initialize", "initialized", "unmarked", "ready", "validate", "check",
            "start", "execute", "error", "failed", "heal"}
Answers == {"SUCCESS", "FAILURE"}

AgentsTypeOK ==
    /\ agentState \in [Agents -> AgentStates]
    /\ agentStatus \in [Agents -> HealthStatuses]
    /\ place \in [Requests -> Selecting \cup Running \cup Answers]
    /\ strategy \in [Requests -> Strategies]
    /\ caps \in [Requests -> Seq(SUBSET Agents)]
    /\ candidates \in [Requests -> SUBSET Agents]
    /\ plan \in [Requests -> Seq(Agents)]
    /\ \A r \in Requests : /\ place[r] \in Running => plan[r] # <<>>
                           /\ place[r] \in Selecting => caps[r] # <<>>
    /\ again \subseteq Requests
    /\ saw \in [Requests -> AgentStates]
    /\ overtaken \subseteq Agents

\* An agent is registered as it was constructed, or initialized before.
AgentsInit ==
    /\ agentState \in [Agents -> {"UNINITIALIZED", "IDLE"}]
    /\ agentStatus = [a \in Agents |-> IF agentState[a] = "IDLE" THEN "HEALTHY" ELSE "UNINITIALIZED"]
    /\ place = [r \in Requests |-> "new"]
    /\ strategy \in [Requests -> Strategies]
    /\ caps = Needs
    /\ candidates = [r \in Requests |-> {}]
    /\ plan = [r \in Requests |-> <<>>]
    /\ again = {}
    /\ saw = [r \in Requests |-> "UNINITIALIZED"]
    /\ overtaken = {}

\* The agent that the request is running, or about to run.
Current(r) == Head(plan[r])
StateOf(r) == agentState[Current(r)]

Comes(r, from, to) == place[r] = from /\ place' = [place EXCEPT ![r] = to]

\* A look at the state of the agent, which decides where the request goes.
Looks(r, from, wanted, to, otherwise) ==
    /\ Comes(r, from, IF StateOf(r) = wanted THEN to ELSE otherwise)
    /\ saw' = [saw EXCEPT ![r] = StateOf(r)]
    /\ UNCHANGED <<agentState, agentStatus, planning, plan, again, overtaken>>

\* A write of the state; unexpected when the agent is not in the state that the
\* writer goes by.
SetState(r, state, expected) ==
    /\ agentState' = [agentState EXCEPT ![Current(r)] = state]
    /\ overtaken' = IF expected THEN overtaken ELSE overtaken \cup {Current(r)}

---------------------------------------------------------------------------
Receive(r) ==
    /\ Comes(r, "new", "filter")
    /\ UNCHANGED <<agentState, agentStatus, planning, plan, again, saw, overtaken>>

\* select_agent: the health statuses of the candidates ...
FilterHealthy(r) ==
    LET found == {a \in Head(caps[r]) : agentStatus[a] # "UNHEALTHY"}
    IN  /\ Comes(r, "filter", IF found = {} THEN "FAILURE" ELSE "sort")
        /\ candidates' = [candidates EXCEPT ![r] = found]
        /\ UNCHANGED <<agentState, agentStatus, strategy, caps, plan, again, saw, overtaken>>

Score(a) == CASE agentState[a] \in {"IDLE", "UNINITIALIZED"} -> 0
              [] agentState[a] = "BUSY" -> 1
              [] OTHER -> 2

\* ... and the one whose state comes first; create_plan goes on with the next
\* capability.
SortByState(r, a) ==
    /\ a \in candidates[r] /\ \A b \in candidates[r] : Score(a) <= Score(b)
    /\ Comes(r, "sort", IF Len(caps[r]) = 1 THEN "prepare" ELSE "filter")
    /\ plan' = [plan EXCEPT ![r] = IF Contains(@, a) THEN @ ELSE Append(@, a)]
    /\ caps' = [caps EXCEPT ![r] = Tail(@)]
    /\ UNCHANGED <<agentState, agentStatus, strategy, candidates, again, saw, overtaken>>

\* execute_plan initializes an agent that is not; initialize() looks again and
\* raises out of execute_plan, past every fallback.
Prepare(r) == Looks(r, "prepare", "UNINITIALIZED", "initialize", "validate")
Initialize(r) == Looks(r, "initialize", "UNINITIALIZED", "initialized", "FAILURE")

SetInitialized(r) ==
    /\ Comes(r, "initialized", "unmarked")
    /\ SetState(r, "INITIALIZED", StateOf(r) = saw[r])
    /\ UNCHANGED <<agentStatus, planning, plan, again, saw>>

SetIdle(r) ==
    /\ Comes(r, "ready", "validate")
    /\ SetState(r, "IDLE", StateOf(r) = "INITIALIZED")
    /\ UNCHANGED <<agentStatus, planning, plan, again, saw>>

\* Faulty variant: before_execute does not look.
CheckNothing(r) ==
    /\ Comes(r, "check", "start")
    /\ saw' = [saw EXCEPT ![r] = StateOf(r)]
    /\ UNCHANGED <<agentState, agentStatus, planning, plan, again, overtaken>>

\* validate_task and before_execute both refuse an agent that is not idle.
ValidateTask(r) == Looks(r, "validate", "IDLE", "check", "failed")
CheckIdle(r) == Looks(r, "check", "IDLE", "start", "failed")

StartTask(r) ==
    /\ Comes(r, "start", "execute")
    /\ SetState(r, "BUSY", StateOf(r) = saw[r])
    /\ UNCHANGED <<agentStatus, planning, plan, again, saw>>

\* The request is done with its agent: the next group, or the answer.
GoesOn(r, from) ==
    /\ Comes(r, from, IF Len(plan[r]) = 1 THEN "SUCCESS" ELSE "prepare")
    /\ plan' = [plan EXCEPT ![r] = Tail(@)]
    /\ again' = again \ {r}

\* execute() returns; after_execute
TaskSucceeds(r) ==
    /\ GoesOn(r, "execute")
    /\ SetState(r, "IDLE", TRUE)
    /\ UNCHANGED <<agentStatus, planning, saw>>

\* execute() raises; handle_error writes the state and then the status.
TaskFails(r) ==
    /\ Comes(r, "execute", "error")
    /\ SetState(r, "ERROR", TRUE)
    /\ UNCHANGED <<agentStatus, planning, plan, again, saw>>

MarkUnhealthy(r) ==
    /\ Comes(r, "error", "failed")
    /\ agentStatus' = [agentStatus EXCEPT ![Current(r)] = "UNHEALTHY"]
    /\ UNCHANGED <<agentState, planning, plan, again, saw, overtaken>>

\* execute_plan: the fallback, for an agent that refused the task or failed.
Abort(r) ==
    /\ strategy[r] = "abort" \/ r \in again
    /\ Comes(r, "failed", "FAILURE")
    /\ UNCHANGED <<agentState, agentStatus, planning, plan, again, saw, overtaken>>

Ignore(r) ==
    /\ strategy[r] = "ignore"
    /\ GoesOn(r, "failed")
    /\ UNCHANGED <<agentState, agentStatus, planning, saw, overtaken>>

\* A retry resets the agent first, whoever is using it.
ResetState(r) ==
    /\ strategy[r] = "retry" /\ r \notin again
    /\ Comes(r, "failed", "heal")
    /\ SetState(r, "IDLE", StateOf(r) # "BUSY")
    /\ again' = again \cup {r}
    /\ UNCHANGED <<agentStatus, planning, plan, saw>>

\* The write of the status that follows, here and in initialize().
MarkHealthy(r) ==
    /\ Comes(r, "heal", "validate") \/ Comes(r, "unmarked", "ready")
    /\ agentStatus' = [agentStatus EXCEPT ![Current(r)] = "HEALTHY"]
    /\ UNCHANGED <<agentState, planning, plan, again, saw, overtaken>>

RequestStep(r) ==
    \/ Receive(r) \/ FilterHealthy(r) \/ (\E a \in Agents : SortByState(r, a))
    \/ Prepare(r) \/ Initialize(r) \/ SetInitialized(r) \/ SetIdle(r)
    \/ ValidateTask(r) \/ CheckIdle(r) \/ StartTask(r)
    \/ TaskSucceeds(r) \/ TaskFails(r) \/ MarkUnhealthy(r)
    \/ Abort(r) \/ Ignore(r) \/ ResetState(r) \/ MarkHealthy(r)

AgentsNext == \E r \in Requests : RequestStep(r)

AgentsSpec == AgentsInit /\ [][AgentsNext]_agentVars

---------------------------------------------------------------------------
\* The requests whose task is inside an agent's execute().
AtWork(a) == {r \in Requests : place[r] = "execute" /\ Current(r) = a}

\* No agent stays BUSY without a task, which would shut it to every later
\* request; and as long as nobody wrote an agent's state against what the
\* writer had seen, and no retry reset a busy agent, BUSY says that exactly one
\* task is inside it.
BusyIsOneTask ==
    \A a \in Agents :
        /\ agentState[a] = "BUSY" => AtWork(a) # {}
        /\ a \notin overtaken =>
              /\ AtWork(a) # {} => agentState[a] = "BUSY"
              /\ \A r, s \in AtWork(a) : r = s
=============================================================================
