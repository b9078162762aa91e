SPECIFICATION Spec
CONSTANTS
  t1 = t1
  Tasks = {t1}
  Nodes = {n1}
  NoNode = NoNode
  NoTask = NoTask
  Loops = {l1, l2}
  MaxRetries = 1
  Priority <- MCPriority
  Capable <- AllCapable
  Policies = {"least_loaded"}
PROPERTIES RetryIsDispatched
