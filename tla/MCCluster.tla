----------------------------- MODULE MCCluster -----------------------------
(***************************************************************************)
(* Instances of Cluster for TLC.                                           *)
(***************************************************************************)
EXTENDS Cluster, TLC

CONSTANT t1

\* One urgent task and one ordinary task; no node has what t1 requires.
MCPriority == [t \in Tasks |-> IF t = t1 THEN 8 ELSE 5]
MCCapable == [t \in Tasks |-> IF t = t1 THEN {} ELSE Nodes]

LoopSymmetry == Permutations(Loops)

AllCapable == [t \in Tasks |-> Nodes]
============================================================================
