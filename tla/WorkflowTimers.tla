--------------------------- MODULE WorkflowTimers ---------------------------
(***************************************************************************)
(* WorkflowScheduler of backend/workflows/workflow_scheduler.py: one       *)
(* threading.Timer for each call of schedule_once, in a table by the key   *)
(* the caller gave.  A Timer waits, looks whether it was cancelled, and    *)
(* calls _run; cancelling it after that look does nothing.  The entry of a *)
(* timer that has started stays until its run and its callback are over.   *)
(***************************************************************************)
CONSTANTS Timers,       \* calls of schedule_once
          Keys,         \* workflow_id
          NoTimer, NoKey

ASSUME TimersAssumption == NoTimer \notin Timers /\ NoKey \notin Keys

VARIABLES scheduled,    \* _scheduled
          timerAt,      \* where each timer is
          keyOf,        \* the key each was scheduled under
          toCancel,     \* timers a cancel_scheduled has popped and not cancelled yet
          cancelSet,    \* timers whose cancel() was called
          crossed       \* history: timers in use at the same time under one key

timerVars == <<scheduled, timerAt, keyOf, toCancel, cancelSet, crossed>>

TimersTypeOK ==
    /\ scheduled \in [Keys -> Timers \cup {NoTimer}]
    /\ timerAt \in [Timers -> {"unused", "stored", "waiting", "running", "popping", "over", "raised"}]
    /\ keyOf \in [Timers -> Keys \cup {NoKey}]
    /\ toCancel \subseteq Timers
    /\ cancelSet \subseteq Timers /\ crossed \subseteq Timers

TimersInit ==
    /\ scheduled = [k \in Keys |-> NoTimer]
    /\ timerAt = [t \in Timers |-> "unused"]
    /\ keyOf = [t \in Timers |-> NoKey]
    /\ toCancel = {}
    /\ cancelSet = {} /\ crossed = {}

TimerGoes(t, from, to) == timerAt[t] = from /\ timerAt' = [timerAt EXCEPT ![t] = to]

\* Not yet started, and not cancelled.
Pending(t) == timerAt[t] \in {"stored", "waiting"} /\ t \notin cancelSet

\* Started, and not over yet.
Started(t) == timerAt[t] \in {"running", "popping"}

\* schedule_once: the entry is written over whatever the key held ...
StoreTimer(t, k) ==
    /\ TimerGoes(t, "unused", "stored")
    /\ keyOf' = [keyOf EXCEPT ![t] = k]
    /\ scheduled' = [scheduled EXCEPT ![k] = t]
    /\ LET others == {u \in Timers : keyOf[u] = k /\ (Pending(u) \/ Started(u))} IN
          crossed' = IF others = {} THEN crossed ELSE crossed \cup others \cup {t}
    /\ UNCHANGED <<toCancel, cancelSet>>

\* ... and timer.start(), outside the lock.
StartTimer(t) ==
    /\ TimerGoes(t, "stored", "waiting")
    /\ UNCHANGED <<scheduled, keyOf, toCancel, cancelSet, crossed>>

\* The Timer thread after its delay, or when it is cancelled.
TimerWakes(t) ==
    /\ TimerGoes(t, "waiting", IF t \in cancelSet THEN "over" ELSE "running")
    /\ UNCHANGED <<scheduled, keyOf, toCancel, cancelSet, crossed>>

\* _run: the execution, and the callback, which may raise.
RunEnds(t) ==
    /\ TimerGoes(t, "running", "popping") \/ TimerGoes(t, "running", "raised")
    /\ UNCHANGED <<scheduled, keyOf, toCancel, cancelSet, crossed>>

\* _run: self._scheduled.pop(workflow_id, None), whichever timer is there.
PopEntry(t) ==
    /\ TimerGoes(t, "popping", "over")
    /\ scheduled' = [scheduled EXCEPT ![keyOf[t]] = NoTimer]
    /\ UNCHANGED <<keyOf, toCancel, cancelSet, crossed>>

\* Faulty variant: the entry stays.
GetToCancel(k) ==
    /\ scheduled[k] # NoTimer
    /\ toCancel' = toCancel \cup {scheduled[k]}
    /\ UNCHANGED <<scheduled, timerAt, keyOf, cancelSet, crossed>>

\* cancel_scheduled: the entry is popped ...
PopToCancel(k) ==
    /\ scheduled[k] # NoTimer
    /\ toCancel' = toCancel \cup {scheduled[k]}
    /\ scheduled' = [scheduled EXCEPT ![k] = NoTimer]
    /\ UNCHANGED <<timerAt, keyOf, cancelSet, crossed>>

\* ... and timer.cancel(), outside the lock; then it returns True.
CancelTimer(t) ==
    /\ t \in toCancel
    /\ toCancel' = toCancel \ {t}
    /\ cancelSet' = cancelSet \cup {t}
    /\ UNCHANGED <<scheduled, timerAt, keyOf, crossed>>

TimersNext ==
    \/ \E t \in Timers : \/ StartTimer(t) \/ TimerWakes(t) \/ RunEnds(t) \/ PopEntry(t)
                         \/ CancelTimer(t)
    \/ \E t \in Timers, k \in Keys : StoreTimer(t, k)
    \/ \E k \in Keys : PopToCancel(k)

TimersSpec == TimersInit /\ [][TimersNext]_timerVars

---------------------------------------------------------------------------
\* Whoever is pending can be found under its key and cancelled, unless somebody
\* is just doing so, or the key was used for another timer before the first was
\* done with it: using a key again afterwards, or after a cancellation that came
\* in time, loses nothing.
PendingIsListed ==
    \A t \in Timers : Pending(t) => \/ scheduled[keyOf[t]] = t
                                   \/ t \in toCancel
                                   \/ t \in crossed

\* A timer that was cancelled, or that ran to its end, is not listed any more.
ListedIsInUse ==
    \A k \in Keys : LET t == scheduled[k] IN
        t # NoTimer => keyOf[t] = k /\ (Pending(t) \/ Started(t) \/ timerAt[t] = "raised")

\* So the table lists, under their keys, all timers that can still be cancelled.
TableFollowsTimers == PendingIsListed /\ ListedIsInUse

---------------------------------------------------------------------------
\* workflow_scheduler.py:72, "Returns the IDs of all currently scheduled (not
\* yet started) workflows", and line 56, "Cancels a pending scheduled workflow
\* before it starts": what is listed, and what a cancellation finds, is pending.
ListedIsPending == \A k \in Keys : scheduled[k] # NoTimer => Pending(scheduled[k])
=============================================================================
