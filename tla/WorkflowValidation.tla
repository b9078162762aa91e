------------------------ MODULE WorkflowValidation ------------------------
(***************************************************************************)
(* WorkflowEngine.validate (backend/workflow/workflow.py), which every     *)
(* execute() starts with: the nodes exist, the edges and dependencies lead *)
(* from node to node, a depth-first search meets no node it is still       *)
(* visiting, and no node of several is without connection.                 *)
(*                                                                         *)
(* An edge and a dependency put the same thing into the adjacency list, so *)
(* both are one link <<before, after>> here.  The search is has_cycle with *)
(* its recursion spelled out: `chain' is the stack of its calls, `ahead'   *)
(* what the loop of each call has still to look at.  The orders of the     *)
(* dicts and lists are left open.                                          *)
(***************************************************************************)
EXTENDS Integers, Sequences

CONSTANT NodeIds   \* what a node, an edge or a dependency may be called

VARIABLES graph,     \* the workflow: its nodes and its links
          visited,   \* visited[n]: 1 while visiting, 2 afterwards, 0 before
          chain,     \* the calls of has_cycle
          ahead,     \* neighbours of each node that its call has not looked at
          verdict    \* "unchecked", "searching", "valid" or "invalid"

validationVars == <<graph, visited, chain, ahead, verdict>>

Graphs == [nodes : SUBSET NodeIds, links : SUBSET (NodeIds \X NodeIds)]

After(n) == {m \in NodeIds : <<n, m>> \in graph.links}

ValidationTypeOK ==
    /\ graph \in Graphs
    /\ visited \in [NodeIds -> 0..2]
    /\ chain \in Seq(NodeIds)
    /\ ahead \in [NodeIds -> SUBSET NodeIds]
    /\ verdict \in {"unchecked", "searching", "valid", "invalid"}

ValidationInit ==
    /\ graph \in Graphs
    /\ visited = [n \in NodeIds |-> 0]
    /\ chain = <<>>
    /\ ahead = [n \in NodeIds |-> {}]
    /\ verdict = "unchecked"

---------------------------------------------------------------------------
LinksExist == graph.links \subseteq graph.nodes \X graph.nodes

\* No nodes, or a link from or to a node that is not there, is an error.
CheckNodes ==
    /\ verdict = "unchecked"
    /\ verdict' = IF graph.nodes # {} /\ LinksExist THEN "searching" ELSE "invalid"
    /\ UNCHANGED <<graph, visited, chain, ahead>>

Top == chain[Len(chain)]

\* has_cycle(n) begins.
Visit(n) ==
    /\ visited' = [visited EXCEPT ![n] = 1]
    /\ chain' = Append(chain, n)

\* The outer loop: a node the search has not reached yet.
StartSearch(n) ==
    /\ verdict = "searching" /\ chain = <<>>
    /\ n \in graph.nodes /\ visited[n] = 0
    /\ Visit(n)
    /\ ahead' = [ahead EXCEPT ![n] = After(n)]
    /\ UNCHANGED <<graph, verdict>>

\* Faulty variant: any node met before closes a cycle.
CloseSeen(m) ==
    /\ verdict = "searching" /\ chain # <<>>
    /\ m \in ahead[Top] /\ visited[m] # 0
    /\ verdict' = "invalid"
    /\ UNCHANGED <<graph, visited, chain, ahead>>

\* A neighbour that is still being visited closes a cycle, and every call
\* returns True.
CloseCycle(m) ==
    /\ verdict = "searching" /\ chain # <<>>
    /\ m \in ahead[Top] /\ visited[m] = 1
    /\ verdict' = "invalid"
    /\ UNCHANGED <<graph, visited, chain, ahead>>

GoDeeper(m) ==
    /\ verdict = "searching" /\ chain # <<>>
    /\ m \in ahead[Top] /\ visited[m] = 0
    /\ Visit(m)
    /\ ahead' = [ahead EXCEPT ![Top] = @ \ {m}, ![m] = After(m)]
    /\ UNCHANGED <<graph, verdict>>

PassOver(m) ==
    /\ verdict = "searching" /\ chain # <<>>
    /\ m \in ahead[Top] /\ visited[m] = 2
    /\ ahead' = [ahead EXCEPT ![Top] = @ \ {m}]
    /\ UNCHANGED <<graph, visited, chain, verdict>>

\* A call returns False.
Return ==
    /\ verdict = "searching" /\ chain # <<>> /\ ahead[Top] = {}
    /\ visited' = [visited EXCEPT ![Top] = 2]
    /\ chain' = SubSeq(chain, 1, Len(chain) - 1)
    /\ UNCHANGED <<graph, ahead, verdict>>

Connected == {n \in NodeIds : \E m \in NodeIds : <<n, m>> \in graph.links
                                              \/ <<m, n>> \in graph.links}

Orphans == IF \E n, m \in graph.nodes : n # m THEN graph.nodes \ Connected ELSE {}

\* Everything was visited: the orphans are all that is left to look for.
CheckOrphans ==
    /\ verdict = "searching" /\ chain = <<>>
    /\ \A n \in graph.nodes : visited[n] # 0
    /\ verdict' = IF Orphans = {} THEN "valid" ELSE "invalid"
    /\ UNCHANGED <<graph, visited, chain, ahead>>

ValidationNext ==
    \/ CheckNodes
    \/ \E n \in NodeIds : StartSearch(n) \/ CloseCycle(n) \/ GoDeeper(n) \/ PassOver(n)
    \/ Return
    \/ CheckOrphans

ValidationSpec == ValidationInit /\ [][ValidationNext]_validationVars

---------------------------------------------------------------------------
\* What the loop of execute() relies on: of any nodes that are left, one
\* waits for none of them.
Ordered == \A S \in SUBSET graph.nodes :
              S # {} => \E n \in S : \A m \in S : <<m, n>> \notin graph.links

\* validate() passes exactly the graphs execute() can work through: with
\* nodes, with links between them only, without a cycle (a diamond is none)
\* and without a node that stands alone beside others.
ValidationIsExact ==
    LET suitable == graph.nodes # {} /\ LinksExist /\ Ordered /\ Orphans = {}
    IN /\ verdict = "valid" => suitable
       /\ verdict = "invalid" => ~suitable
===========================================================================
