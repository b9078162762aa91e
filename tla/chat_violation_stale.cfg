SPECIFICATION ChatSpec
CONSTANTS
  Conversations = {a, b}
  Queries = {q}
  Turns = {t1, t2, t3}
  NoTurn = none
  MaxChanges = 1
  MaxRestarts = 0
INVARIANT CacheFollowsDocuments
CHECK_DEADLOCK FALSE
