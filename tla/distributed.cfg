SPECIFICATION DistributedSpec
CONSTANTS
  NoNode = NoNode
  Nodes = {n1, n2, n3}
  t1 = t1
  t2 = t2
  t3 = t3
  Tasks = {t1, t2, t3}
  MaxRetries = 1
  MaxSequence = 6
  Priority <- MCPriority
  c1 = c1
  c2 = c2
  c3 = c3
  c4 = c4
  w1 = w1
  w2 = w2
  NoState = NoState
  Calls = {c1, c2, c3, c4}
  Workflows = {w1, w2}
  WorkflowOf <- MCWorkflowOf
INVARIANTS TrackingKeepsTasks
PROPERTIES EvictionHasEvidence SilentNodeIsEvicted HeapImplementsLine
