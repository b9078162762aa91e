SPECIFICATION MCExecutionSpec
CONSTANTS
  pick = pick
  sign = sign
  audit = audit
  check = check
  release = release
  lost = lost
  nowhere = nowhere
  Steps = {pick, sign, audit, check, release, lost}
  Strangers = {nowhere}
  Calls = {c1, c2, c3}
  Position <- MCPosition
  Deps <- MCDeps
  Skips <- MCSkips
  Approvals = {sign, release}
  NoStep = NoStep
  NoCall = NoCall
  MaxRestarts = 1
  Executions = {e1, e2}
  MaxRetries = 2
  x = x
  y = y
  first = first
  Requests = {first, second}
  Agents = {x, y}
  Needs <- MCNeeds
  Stages = {"left", "right", "merge", "last", "extra"}
  DependsOn <- MCDependsOn
  MaxTries <- MCMaxTries
  Modules = {"resume", "github", "knowledge", "professional", "composition"}
  Rules <- MCRules
  Policies = {"balanced", "lowest_cost"}
  Prunes <- MCPrunes
  MaxConcurrency = 2
  MaxAttempts = 3
INVARIANTS StepsRunInOrder AttemptsAreOrderly
           BusyIsOneTask ReportAccountsForStages NodesFollowTheirParents
PROPERTIES  ExecutionEnds
CHECK_DEADLOCK FALSE
