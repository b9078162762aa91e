---------------------------- MODULE LockManager ----------------------------
(***************************************************************************)
(* LockManager (backend/platform/hardening/lock_manager.py): one key, and  *)
(* clients that acquire it, work, and release it if they got it.  The      *)
(* constructor decides once whether the lock is a redis key with a time to *)
(* live or a threading.Lock of this process.  The reply to a redis command *)
(* can be late, or an exception instead.                                   *)
(* The key's value is always "1"; setter says, as history, who set it.     *)
(***************************************************************************)
CONSTANTS Clients, NoClient

ASSUME LockAssumption == NoClient \notin Clients

VARIABLES useRedis,     \* use_redis
          setter,       \* redis: who set the key, NoClient when it is not there
          localHeld,    \* the threading.Lock is held
          client,       \* where each client is
          stray,        \* redis: a DELETE its sender no longer waits for is on its way
          lapsed        \* history: a client that had the lock lost its key to the
                        \* time to live or to a stray DELETE

lockVars == <<useRedis, setter, localHeld, client, stray, lapsed>>

LockTypeOK ==
    /\ useRedis \in BOOLEAN
    /\ setter \in Clients \cup {NoClient}
    /\ localHeld \in BOOLEAN
    /\ client \in [Clients -> {"out", "trying", "told", "in"}]
    /\ stray \in BOOLEAN
    /\ lapsed \in BOOLEAN

LockInit ==
    /\ useRedis \in BOOLEAN
    /\ setter = NoClient
    /\ localHeld = FALSE
    /\ client = [c \in Clients |-> "out"]
    /\ stray = FALSE
    /\ lapsed = FALSE

Moves(c, from, to) == client[c] = from /\ client' = [client EXCEPT ![c] = to]

\* acquire_lock is called ...
Try(c) ==
    /\ Moves(c, "out", "trying")
    /\ UNCHANGED <<useRedis, setter, localHeld, stray, lapsed>>

\* ... and returns False when acquire_timeout is over.
GiveUp(c) ==
    /\ Moves(c, "trying", "out")
    /\ UNCHANGED <<useRedis, setter, localHeld, stray, lapsed>>

\* Faulty variant: SET without NX.
SetAlways(c) ==
    /\ useRedis
    /\ client[c] = "trying"
    /\ setter' = c
    /\ client' \in {client, [client EXCEPT ![c] = "told"]}
    /\ UNCHANGED <<useRedis, localHeld, stray, lapsed>>

\* redis: SET NX EX.  The reply can be lost: then the client goes on trying,
\* and its own key is in its way.
SetIfFree(c) ==
    /\ useRedis
    /\ client[c] = "trying"
    /\ setter = NoClient
    /\ setter' = c
    /\ client' \in {client, [client EXCEPT ![c] = "told"]}
    /\ UNCHANGED <<useRedis, localHeld, stray, lapsed>>

\* redis: the reply arrives and acquire_lock returns True.
Enter(c) ==
    /\ Moves(c, "told", "in")
    /\ UNCHANGED <<useRedis, setter, localHeld, stray, lapsed>>

Owner == setter # NoClient /\ client[setter] \in {"told", "in"}

\* redis: the time to live of the key is over.
KeyExpires ==
    /\ setter # NoClient
    /\ setter' = NoClient
    /\ lapsed' = (lapsed \/ Owner)
    /\ UNCHANGED <<useRedis, localHeld, client, stray>>

\* release_lock: DELETE removes the key, whoever set it.  If it ends in an
\* exception the local release finds no lock; the key may be gone, or stay, or
\* the command may still be on its way.  A client that dies leaves the key, too.
Delete(c) ==
    /\ useRedis
    /\ Moves(c, "in", "out")
    /\ \/ setter' = NoClient /\ UNCHANGED stray
       \/ UNCHANGED setter /\ stray' \in {stray, TRUE}
    /\ UNCHANGED <<useRedis, localHeld, lapsed>>

StrayDelete ==
    /\ stray
    /\ stray' = FALSE
    /\ setter' = NoClient
    /\ lapsed' = (lapsed \/ Owner)
    /\ UNCHANGED <<useRedis, localHeld, client>>

\* In memory: lock.acquire(timeout)
AcquireLocal(c) ==
    /\ ~useRedis /\ ~localHeld
    /\ localHeld' = TRUE
    /\ Moves(c, "trying", "in")
    /\ UNCHANGED <<useRedis, setter, stray, lapsed>>

\* In memory: lock.release()
ReleaseLocal(c) ==
    /\ ~useRedis
    /\ localHeld' = FALSE
    /\ Moves(c, "in", "out")
    /\ UNCHANGED <<useRedis, setter, stray, lapsed>>

LockNext ==
    \/ \E c \in Clients : \/ Try(c) \/ GiveUp(c) \/ Enter(c) \/ SetIfFree(c) \/ Delete(c)
                          \/ AcquireLocal(c) \/ ReleaseLocal(c)
    \/ KeyExpires \/ StrayDelete

LockSpec == LockInit /\ [][LockNext]_lockVars

---------------------------------------------------------------------------
\* Two clients hold the lock at once only after one of them outstayed its
\* time to live or a release came through after its sender gave up on it:
\* lost replies, dead clients and retries alone do no harm, and in memory
\* nothing does.
HasLock(c) == client[c] \in {"told", "in"}
OnlyExpiryBreaksExclusion ==
    (\E c, d \in Clients : c # d /\ HasLock(c) /\ HasLock(d)) => lapsed /\ useRedis
=============================================================================
