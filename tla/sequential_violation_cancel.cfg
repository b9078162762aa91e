SPECIFICATION ServicesSpec
CONSTANTS
  Jobs = {j1, j2}
  Threads = {t1, t2, t3}
  PoolSize = 1
  DlqThreshold = 2
  NoJob = NoJob
  Callers = {c1, c2, c3}
  FailureThreshold = 2
  Clients = {k1, k2, k3}
  NoClient = NoClient
  Timers = {m1, m2, m3}
  Keys = {a, b}
  NoTimer = NoTimer
  NoKey = NoKey
  Schedules = {s1, s2}
  Pollers = {p1, p2}
  Lanes = {"main", "left", "right"}
  Main = "main"
  LaneLength <- MCLaneLength
  MaxRetries = 1
  MaxWorkers = 2
  Entries = {"twice", "until"}
  Recurs = {"twice", "until"}
  Interval <- MCInterval
  MaxOccurrences <- MCMaxOccurrences
  EndTime <- MCEndTime
  Timeout <- MCTimeout
  Never = 9
  MaxTime = 3
  MaxBack = 1
  Publishers = {t1, t2}
  Events = {"urgent", "normal"}
  Urgency <- MCUrgency
  Handlers = {h1}
  MaxNesting = 3
  NoEvent = NoEvent
  Requests = {r1, r2, r3, r4}
  Identifiers = {u}
  RateLimit = 1
  Cost = 2
  Refill = 1
  MaxClock = 2
  NoBucket = NoBucket
  NodeIds = {v1, v2, v3}
  PackageIds = {"app", "lib", "tool"}
  Versions = {1, 2}
  Releases <- MCReleases
  NoRelease = NoRelease
  NoCall = NoCall
  NotInstalled = NotInstalled
INVARIANT CancelReachesTheExecution
CHECK_DEADLOCK FALSE
