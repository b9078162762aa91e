SPECIFICATION PlatformSpec
CONSTANTS
  Conversations = {a, b}
  Queries = {q}
  Turns = {t1, t2, t3}
  NoTurn = none
  MaxChanges = 1
  MaxRestarts = 1
  Sends = {s1, s2}
  Streams = {w1, w2}
  NoStream = none
  Jobs = {nightly}
  Loops = {l1, l2}
  NoLoop = none
  NoJob = none
  Interval <- MCBackupInterval
  MaxTime = 3
  Checkers = {watch, admin}
  Watcher = watch
  LastVersion = 4
  Unreadable = {2}
  Sessions = {x, y}
  Requests = {r1, r2}
  NoSession = none
  Charges = {"short", "again", "long", "elsewhere"}
  Managers = {"first", "second"}
  ManagerOf <- MCManagerOf
  Tokens <- MCTokens
  DailyLimit = 3
  MaxDays = 1
  CacheCalls = {c1, c2, c3}
  Values = {v, w}
  Nothing = none
  Models = {m1, m2}
  Providers = {p1}
  Editors = {e1, e2}
  NoProfile = none
INVARIANTS ConversationsAreKept DirectoryFollowsSession UsageIsExact ProfilesAreKept
PROPERTIES TurnsEnd HistoryIsKept BackupsAreApart SettingsFollowTheFile LastVersionIsMerged
           GetReturnsLatest
CHECK_DEADLOCK FALSE
