SPECIFICATION EngineFairSpec
CONSTANTS
  a = a
  b = b
  Calls = {e1, e2}
  Nodes = {a, b, c}
  Preds <- Chain
  Width = 1
INVARIANTS NodesKeepToTheirTime
PROPERTIES OutcomeStands ExecuteReturns
CHECK_DEADLOCK FALSE
