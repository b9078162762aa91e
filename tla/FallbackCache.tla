--------------------------- MODULE FallbackCache ---------------------------
(***************************************************************************)
(* CacheManager (backend/platform/hardening/cache_manager.py): one key in  *)
(* redis, and in the memory that stands in for it.  The constructor decides*)
(* whether redis is used; each call then tries redis and, when that raises,*)
(* goes on to the memory.  A command that raises may have been done.       *)
(***************************************************************************)
CONSTANTS CacheCalls, Values, Nothing

ASSUME CacheAssumption == Nothing \notin Values

VARIABLES withRedis,       \* use_redis
          inRedis, inMemory,
          call,            \* what each call has to do
          writes,          \* the value it sets, Nothing when it deletes
          latest,          \* history: the value of the last set, Nothing after a delete
                           \* or an expiration
          served,          \* history: what the last get returned
          removed,         \* history: the last write is over, it was a delete, and it
                           \* has returned True
          faulted          \* history: redis has raised, or two writes were under way at
                           \* once

cacheVars == <<withRedis, inRedis, inMemory, call, writes, latest, served, removed, faulted>>

Contents == Values \cup {Nothing}
Writing == {c \in CacheCalls : call[c] \in {"write", "fallback"}}

CacheTypeOK ==
    /\ withRedis \in BOOLEAN /\ removed \in BOOLEAN /\ faulted \in BOOLEAN
    /\ inRedis \in Contents /\ inMemory \in Contents
    /\ latest \in Contents /\ served \in Contents
    /\ call \in [CacheCalls -> {"new", "write", "fallback", "get", "miss", "over"}]
    /\ writes \in [CacheCalls -> Contents]

CacheInit ==
    /\ withRedis \in BOOLEAN /\ removed = FALSE /\ faulted = FALSE
    /\ inRedis = Nothing /\ inMemory = Nothing /\ latest = Nothing /\ served = Nothing
    /\ call = [c \in CacheCalls |-> "new"]
    /\ writes = [c \in CacheCalls |-> Nothing]

CallGoes(c, from, to) == call[c] = from /\ call' = [call EXCEPT ![c] = to]

\* set and delete are called, and go to redis or at once to the memory.
BeginWrite(c, v) ==
    /\ CallGoes(c, "new", IF withRedis THEN "write" ELSE "fallback")
    /\ writes' = [writes EXCEPT ![c] = v]
    /\ removed' = FALSE
    /\ faulted' = (faulted \/ Writing # {})
    /\ UNCHANGED <<withRedis, inRedis, inMemory, latest, served>>

\* redis: SET, SETEX and DELETE
WriteRedis(c) ==
    /\ CallGoes(c, "write", "over")
    /\ inRedis' = writes[c] /\ latest' = writes[c]
    /\ removed' = (writes[c] = Nothing /\ Writing = {c})
    /\ UNCHANGED <<withRedis, inMemory, writes, served, faulted>>

\* The command raises, done or not: "pass".
RedisRaises(c) ==
    /\ \/ CallGoes(c, "write", "fallback") /\ inRedis' \in {inRedis, writes[c]}
       \/ CallGoes(c, "get", "miss") /\ UNCHANGED inRedis
    /\ faulted' = TRUE
    /\ UNCHANGED <<withRedis, inMemory, writes, latest, served, removed>>

\* The write in memory, under the lock.
WriteMemory(c) ==
    /\ CallGoes(c, "fallback", "over")
    /\ inMemory' = writes[c] /\ latest' = writes[c]
    /\ removed' = (writes[c] = Nothing /\ inMemory # Nothing /\ Writing = {c})
    /\ UNCHANGED <<withRedis, inRedis, writes, served, faulted>>

\* get is called.
BeginGet(c) ==
    /\ CallGoes(c, "new", IF withRedis THEN "get" ELSE "miss")
    /\ UNCHANGED <<withRedis, inRedis, inMemory, writes, latest, served, removed, faulted>>

\* redis: GET
GetRedis(c) ==
    /\ CallGoes(c, "get", "over")
    /\ served' = inRedis
    /\ UNCHANGED <<withRedis, inRedis, inMemory, writes, latest, removed, faulted>>

\* The read in memory, under the lock.
GetMemory(c) ==
    /\ CallGoes(c, "miss", "over")
    /\ served' = inMemory
    /\ UNCHANGED <<withRedis, inRedis, inMemory, writes, latest, removed, faulted>>

\* The time to live of a value is over: in redis, or in memory as found by get.
Expire ==
    /\ \/ inRedis' = Nothing /\ UNCHANGED inMemory /\ inRedis # Nothing
       \/ inMemory' = Nothing /\ UNCHANGED inRedis /\ inMemory # Nothing
    /\ latest' = Nothing
    /\ UNCHANGED <<withRedis, call, writes, served, removed, faulted>>

\* Faulty variant: redis is not cleared.
ClearMemory ==
    /\ Writing = {}
    /\ inMemory' = Nothing /\ latest' = Nothing /\ removed' = FALSE
    /\ UNCHANGED <<withRedis, inRedis, call, writes, served, faulted>>

\* clear: redis if it can be reached, and the memory.
ClearCache ==
    /\ Writing = {}
    /\ inMemory' = Nothing /\ latest' = Nothing /\ removed' = FALSE
    /\ \/ inRedis' = Nothing /\ UNCHANGED faulted
       \/ withRedis /\ faulted' = TRUE /\ UNCHANGED inRedis
    /\ UNCHANGED <<withRedis, call, writes, served>>

CacheNext ==
    \/ \E c \in CacheCalls : \/ WriteRedis(c) \/ RedisRaises(c) \/ WriteMemory(c)
                             \/ BeginGet(c) \/ GetRedis(c) \/ GetMemory(c)
                             \/ \E v \in Contents : BeginWrite(c, v)
    \/ Expire \/ ClearCache

CacheSpec == CacheInit /\ [][CacheNext]_cacheVars

---------------------------------------------------------------------------
\* While redis does not fail, and writes do not race, there is one copy of the
\* value, and every get returns what the last write left.
OneCopy ==
    ~faulted /\ Writing = {} =>
        (IF withRedis THEN inRedis = latest /\ inMemory = Nothing
                      ELSE inMemory = latest /\ inRedis = Nothing)

\* Never does a get return a value other than the last one written, short of
\* such a failure or race.
GetReturnsLatest ==
    [][\A c \in CacheCalls : call[c] \in {"get", "miss"} /\ call'[c] = "over" =>
           served' = latest \/ Writing # {} \/ faulted]_cacheVars

---------------------------------------------------------------------------
\* cache_manager.py:87, delete "Removes key from cache": after a delete that
\* has returned True, and before the next write, no get returns a value.
DeletedIsGone ==
    [][\A c \in CacheCalls : removed /\ call[c] \in {"get", "miss"} /\ call'[c] = "over" =>
           served' = Nothing]_cacheVars
=============================================================================
