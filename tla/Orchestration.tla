---------------------------- MODULE Orchestration ----------------------------
(***************************************************************************)
(* DynamicExecutionOrchestrator.execute                                    *)
(* (backend/intelligence/orchestrator/execution_orchestrator.py) for a     *)
(* request that names its modules: WorkflowPlanner makes a node of each,   *)
(* WorkflowOptimizer prunes one, DependencyResolver sorts them into        *)
(* batches, ParallelExecutor runs a batch at a time in a pool, and         *)
(* ResultAggregator draws the outcome.                                     *)
(*                                                                         *)
(* A node goes by its module's name.  What a module returns, timings,      *)
(* confidence and events are left out, and so are the timeout and          *)
(* fail_fast: no node's future ever raises.                                *)
(***************************************************************************)
EXTENDS Integers, Sequences, FiniteSets

CONSTANTS Modules,
          Rules,            \* _DEPENDENCY_RULES, with {} for the modules it does not list
          Policies,
          Prunes,           \* the module that the optimizer prunes under each policy, if any
          MaxConcurrency,
          MaxAttempts       \* retries + 1

ASSUME OrchestrationAssumption ==
    /\ Rules \in [Modules -> SUBSET Modules]
    /\ Prunes \in [Policies -> SUBSET Modules]
    /\ \A p \in Policies : \A m, n \in Prunes[p] : m = n
    /\ MaxConcurrency \in Nat \ {0} /\ MaxAttempts \in Nat \ {0}

VARIABLES stage,        \* where execute() is
          nodes,        \* graph.nodes
          parents,      \* dependencies of each node
          awaited,      \* those that in_degree still counts
          batches,      \* the batches so far; then those still to run
          nodeStatus,
          pool,         \* the nodes that have been submitted
          attempts,     \* attempts of each node that failed
          outcome

orchestrationVars == <<stage, nodes, parents, awaited, batches, nodeStatus, pool, attempts, outcome>>
graphVars == <<nodes, parents, awaited>>

Settled == {"COMPLETED", "FAILED", "SKIPPED"}
Bad == {"FAILED", "SKIPPED"}

OrchestrationTypeOK ==
    /\ stage \in {"plan", "sort", "run", "pool", "cyclic", "stuck", "over"}
    /\ nodes \subseteq Modules
    /\ parents \in [Modules -> SUBSET Modules]
    /\ awaited \in [Modules -> SUBSET Modules]
    /\ batches \in Seq(SUBSET nodes)
    /\ nodeStatus \in [Modules -> {"PENDING", "RUNNING"} \cup Settled]
    /\ pool \subseteq nodes
    /\ attempts \in [Modules -> 0..MaxAttempts]
    /\ outcome \in {"none", "completed", "partial", "failed"}

OrchestrationInit ==
    /\ stage = "plan"
    /\ nodes = {} /\ pool = {} /\ batches = <<>>
    /\ parents = [m \in Modules |-> {}]
    /\ awaited = [m \in Modules |-> {}]
    /\ nodeStatus = [m \in Modules |-> "PENDING"]
    /\ attempts = [m \in Modules |-> 0]
    /\ outcome = "none"

\* detect_cycles: the nodes of a cycle are a set each of whose members depends
\* on a member.
Cyclic(ns, deps) == \E s \in SUBSET ns : s # {} /\ \A n \in s : deps[n] \cap s # {}

\* plan() and optimize(): a pruned node leaves graph.nodes and graph.edges, but
\* stays in its children's dependencies.
Kept(asked, policy) == IF Cardinality(asked) > 1 THEN asked \ Prunes[policy] ELSE asked

PlanAndOptimize(asked, policy) ==
    /\ stage = "plan" /\ asked # {}
    /\ nodes' = Kept(asked, policy)
    /\ parents' = [m \in Modules |-> IF m \in nodes' THEN Rules[m] \cap asked ELSE {}]
    /\ awaited' = parents'
    /\ stage' = IF Cyclic(nodes', parents') THEN "cyclic" ELSE "sort"
    /\ UNCHANGED <<batches, nodeStatus, pool, attempts, outcome>>

\* resolve(): the next batch; none although there are nodes left raises.
Sorted == UNION {batches[i] : i \in DOMAIN batches}
Free == {n \in nodes \ Sorted : awaited[n] = {}}

TakeBatch ==
    /\ stage = "sort" /\ Sorted # nodes
    /\ IF Free = {}
       THEN stage' = "stuck" /\ UNCHANGED <<batches, awaited>>
       ELSE /\ batches' = Append(batches, Free)
            /\ awaited' = [m \in Modules |-> awaited[m] \ Free]
            /\ UNCHANGED stage
    /\ UNCHANGED <<nodes, parents, nodeStatus, pool, attempts, outcome>>

SortedAll ==
    /\ stage = "sort" /\ Sorted = nodes
    /\ stage' = "run"
    /\ UNCHANGED <<graphVars, batches, nodeStatus, pool, attempts, outcome>>

---------------------------------------------------------------------------
\* Faulty variant: a parent that was skipped does not count.
HasFailedParent(n) == \E d \in parents[n] \cap nodes : nodeStatus[d] = "FAILED"

\* ParallelExecutor.execute: the nodes of a batch that have no bad parent are
\* submitted, the others skipped.
HasBadParent(n) == \E d \in parents[n] \cap nodes : nodeStatus[d] \in Bad

StartBatch ==
    /\ stage = "run" /\ batches # <<>>
    /\ stage' = "pool"
    /\ pool' = {n \in Head(batches) : ~HasBadParent(n)}
    /\ nodeStatus' = [m \in Modules |-> IF m \in Head(batches) \ pool' THEN "SKIPPED" ELSE nodeStatus[m]]
    /\ UNCHANGED <<graphVars, batches, attempts, outcome>>

\* _execute_node_with_retry, in a thread of the pool.
StartNode(n) ==
    /\ n \in pool /\ nodeStatus[n] = "PENDING"
    /\ Cardinality({m \in pool : nodeStatus[m] = "RUNNING"}) < MaxConcurrency
    /\ nodeStatus' = [nodeStatus EXCEPT ![n] = "RUNNING"]
    /\ UNCHANGED <<stage, graphVars, batches, pool, attempts, outcome>>

NodeSucceeds(n) ==
    /\ n \in pool /\ nodeStatus[n] = "RUNNING"
    /\ nodeStatus' = [nodeStatus EXCEPT ![n] = "COMPLETED"]
    /\ UNCHANGED <<stage, graphVars, batches, pool, attempts, outcome>>

AttemptFails(n) ==
    /\ n \in pool /\ nodeStatus[n] = "RUNNING"
    /\ attempts' = [attempts EXCEPT ![n] = @ + 1]
    /\ nodeStatus' = [nodeStatus EXCEPT ![n] = IF attempts'[n] = MaxAttempts THEN "FAILED" ELSE @]
    /\ UNCHANGED <<stage, graphVars, batches, pool, outcome>>

EndBatch ==
    /\ stage = "pool" /\ \A n \in pool : nodeStatus[n] \in Settled
    /\ stage' = "run"
    /\ pool' = {}
    /\ batches' = Tail(batches)
    /\ UNCHANGED <<graphVars, nodeStatus, attempts, outcome>>

\* aggregate(): by the modules with a result and those with an error.
Aggregate ==
    /\ stage = "run" /\ batches = <<>>
    /\ stage' = "over"
    /\ LET ok  == {n \in nodes : nodeStatus[n] = "COMPLETED"}
           bad == {n \in nodes : nodeStatus[n] \in Bad}
       IN  outcome' = CASE ok # {} /\ bad = {} -> "completed"
                        [] ok # {} /\ bad # {} -> "partial"
                        [] ok = {} -> "failed"
    /\ UNCHANGED <<graphVars, batches, nodeStatus, pool, attempts>>

OrchestrationNext ==
    \/ \E asked \in SUBSET Modules, p \in Policies : PlanAndOptimize(asked, p)
    \/ TakeBatch \/ SortedAll \/ StartBatch \/ EndBatch \/ Aggregate
    \/ \E n \in Modules : StartNode(n) \/ NodeSucceeds(n) \/ AttemptFails(n)

OrchestrationSpec == OrchestrationInit /\ [][OrchestrationNext]_orchestrationVars

---------------------------------------------------------------------------
\* A module runs only when all the modules it depends on were successful, is
\* skipped only below one that failed, and has failed only after all its
\* attempts; at the end nothing is left over and the outcome says whether every
\* module of the graph was successful.  A graph is refused by the sort only
\* when a node depends on one that is not in the graph.
NodesFollowTheirParents ==
    /\ \A n \in nodes :
          /\ nodeStatus[n] \in {"RUNNING", "COMPLETED", "FAILED"} =>
                \A d \in parents[n] : d \in nodes /\ nodeStatus[d] = "COMPLETED"
          /\ nodeStatus[n] = "SKIPPED" => \E d \in parents[n] : nodeStatus[d] \in Bad
          /\ nodeStatus[n] = "FAILED" => attempts[n] = MaxAttempts
    /\ stage = "over" => /\ \A n \in nodes : nodeStatus[n] \in Settled
                         /\ outcome = "completed" <=> \A n \in nodes : nodeStatus[n] = "COMPLETED"
    /\ stage = "stuck" => \E n \in nodes : ~(parents[n] \subseteq nodes)

\* The sort never finds itself without a batch once the search for cycles has
\* passed (dependency_resolver.py: "Should not happen since detect_cycles
\* passed").
SortNeverStops == stage # "stuck"

\* What the pools of the batches do with the modules, as TaskExecution says it.
Pool == INSTANCE TaskExecution
    WITH Tasks <- Modules,
         Width <- MaxConcurrency,
         executing <- {m \in Modules : nodeStatus[m] = "RUNNING"},
         ended <- {m \in Modules : nodeStatus[m] \in {"COMPLETED", "FAILED"}}
=============================================================================
