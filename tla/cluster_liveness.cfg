SPECIFICATION FairSpec
CONSTANTS
  t1 = t1
  Tasks = {t1, t2}
  Nodes = {n1}
  NoNode = NoNode
  NoTask = NoTask
  Loops = {l1}
  MaxRetries = 1
  Priority <- MCPriority
  Capable <- MCCapable
  Policies = {"least_loaded", "capability_based"}
PROPERTIES QueuedTaskMovesOn
