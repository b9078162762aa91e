------------------------- MODULE ExecutionSchedule -------------------------
(***************************************************************************)
(* Scheduler of backend/execution/scheduler.py: schedule entries, handed   *)
(* out by list_ready when their time has come, and brought back by         *)
(* schedule_retry, trigger_recurrence and reschedule, which the program's  *)
(* drivers may call in any order.  Every method holds the lock and is one  *)
(* step.  Time is counted in units; a unit is more than the two seconds of *)
(* grace for times in the past.  Events, get and list_pending only report. *)
(***************************************************************************)
EXTENDS Integers

CONSTANTS Entries,
          Recurs,           \* entries with a recurrence_rule
          Interval,         \* its interval, 0 for None (a cron_expression)
          MaxOccurrences,   \* its max_occurrences, 0 for None
          EndTime,          \* its end_time, Never for None
          Timeout,          \* timeout of an entry
          Never,            \* later than any time
          MaxTime,          \* bound on the clock
          MaxBack           \* bound on retries and reschedulings of an entry

ASSUME ExecutionScheduleAssumption ==
    /\ Recurs \subseteq Entries
    /\ Interval \in [Entries -> Nat]
    /\ MaxOccurrences \in [Entries -> Nat]
    /\ EndTime \in [Entries -> Nat]
    /\ Timeout \in [Entries -> Nat \ {0}]
    /\ Never \in Nat /\ MaxTime \in Nat /\ MaxBack \in Nat

VARIABLES now,
          entry,            \* _schedules
          handedOut,        \* history: how often list_ready gave each entry out
          broughtBack       \* history: retries and reschedulings of each entry

entryVars == <<now, entry, handedOut, broughtBack>>

Waiting == {"PENDING", "RETRYING"}
Closed == {"COMPLETED", "EXPIRED"}      \* FAILED is never set
EntryStatuses == {"NONE", "READY", "CANCELLED"} \cup Waiting \cup Closed

EntriesTypeOK ==
    /\ now \in 0..MaxTime
    /\ entry \in [Entries -> [status : EntryStatuses, scheduled : Nat, next : Nat, occurrences : Nat]]
    /\ handedOut \in [Entries -> Nat]
    /\ broughtBack \in [Entries -> 0..MaxBack]

EntriesInit ==
    /\ now = 0
    /\ entry = [e \in Entries |-> [status |-> "NONE", scheduled |-> 0, next |-> 0, occurrences |-> 0]]
    /\ handedOut = [e \in Entries |-> 0]
    /\ broughtBack = [e \in Entries |-> 0]

IsScheduled(e) == entry[e].status # "NONE"
Waits(e, status, time) ==
    entry' = [entry EXCEPT ![e].status = status, ![e].scheduled = time, ![e].next = time]
IsBroughtBack(e) == broughtBack[e] < MaxBack /\ broughtBack' = [broughtBack EXCEPT ![e] = @ + 1]

TimePasses ==
    /\ now < MaxTime
    /\ now' = now + 1
    /\ UNCHANGED <<entry, handedOut, broughtBack>>

\* schedule(): at once or a unit ahead; the past is refused.
ScheduleEntry(e, delay) ==
    /\ ~IsScheduled(e)
    /\ Waits(e, "PENDING", now + delay)
    /\ UNCHANGED <<now, handedOut, broughtBack>>

\* cancel(): False, and no change, for an entry that is closed or cancelled.
CancelEntry(e) ==
    /\ IsScheduled(e)
    /\ entry[e].status \notin Closed \cup {"CANCELLED"}
    /\ entry' = [entry EXCEPT ![e].status = "CANCELLED"]
    /\ UNCHANGED <<now, handedOut, broughtBack>>

\* reschedule(): refused for an entry that is closed, not for a cancelled one.
Reschedule(e, delay) ==
    /\ IsScheduled(e)
    /\ entry[e].status \notin Closed
    /\ Waits(e, "PENDING", now + delay)
    /\ IsBroughtBack(e)
    /\ UNCHANGED <<now, handedOut>>

\* list_ready(now)
ListReady ==
    LET due == {e \in Entries : entry[e].status \in Waiting /\ entry[e].next <= now} IN
    /\ due # {}
    /\ entry' = [e \in Entries |-> IF e \in due THEN [entry[e] EXCEPT !.status = "READY"] ELSE entry[e]]
    /\ handedOut' = [e \in Entries |-> IF e \in due THEN handedOut[e] + 1 ELSE handedOut[e]]
    /\ UNCHANGED <<now, broughtBack>>

\* schedule_retry(): whatever the entry's status.
ScheduleRetry(e, delay) ==
    /\ IsScheduled(e)
    /\ Waits(e, "RETRYING", now + delay)
    /\ IsBroughtBack(e)
    /\ UNCHANGED <<now, handedOut>>

\* occurrence_count after one more; only whether it reaches the maximum matters.
Counted(e) ==
    IF entry[e].occurrences < MaxOccurrences[e] THEN entry[e].occurrences + 1 ELSE entry[e].occurrences

\* Faulty variant: the comparison comes before the count.
LastOccurrenceLate(e) == MaxOccurrences[e] # 0 /\ entry[e].occurrences >= MaxOccurrences[e]

LastOccurrence(e) == MaxOccurrences[e] # 0 /\ Counted(e) >= MaxOccurrences[e]

Recurrence(e, status, time, count) ==
    entry' = [entry EXCEPT ![e].status = status, ![e].next = time, ![e].occurrences = count]

\* trigger_recurrence(): whatever the entry's status.  scheduled_time stays.
TriggerRecurrence(e) ==
    LET old == entry[e]
        next == old.next + Interval[e]
        over == LastOccurrence(e) \/ (Interval[e] # 0 /\ next > EndTime[e]) IN
    /\ IsScheduled(e) /\ e \in Recurs
    /\ \/ now >= EndTime[e] /\ Recurrence(e, "COMPLETED", old.next, old.occurrences)
       \/ now < EndTime[e] /\ over /\ Recurrence(e, "COMPLETED", old.next, Counted(e))
       \/ /\ now < EndTime[e] /\ ~over
          /\ IF Interval[e] # 0 THEN Recurrence(e, "PENDING", next, Counted(e))
                                ELSE Recurrence(e, old.status, old.next, Counted(e))
    /\ UNCHANGED <<now, handedOut, broughtBack>>

\* cleanup_expired(): past the end of the recurrence, or later than the timeout
\* after scheduled_time, which a recurrence has not moved on.
CleanupExpired ==
    LET Expires(e) ==
            /\ entry[e].status \in Waiting
            /\ \/ e \in Recurs /\ EndTime[e] < now
               \/ entry[e].scheduled + Timeout[e] < now
    IN
    /\ entry' = [e \in Entries |-> IF Expires(e) THEN [entry[e] EXCEPT !.status = "EXPIRED"] ELSE entry[e]]
    /\ UNCHANGED <<now, handedOut, broughtBack>>

EntriesNext ==
    \/ \E e \in Entries, delay \in 0..1 :
          ScheduleEntry(e, delay) \/ Reschedule(e, delay) \/ ScheduleRetry(e, delay)
    \/ \E e \in Entries : CancelEntry(e) \/ TriggerRecurrence(e)
    \/ ListReady \/ CleanupExpired \/ TimePasses

EntriesSpec == EntriesInit /\ [][EntriesNext]_entryVars

---------------------------------------------------------------------------
\* An entry is handed out once, or as often as its rule says, and once more for
\* each retry and each rescheduling, in whatever order a cancellation, an
\* expiry and calls that look at no status bring it back and close it again.
HandingsOut(e) == IF e \in Recurs /\ MaxOccurrences[e] # 0 THEN MaxOccurrences[e] ELSE 1
OccurrencesAreBounded ==
    \A e \in Entries : e \notin Recurs \/ MaxOccurrences[e] # 0 \/ Interval[e] = 0
        => handedOut[e] <= HandingsOut(e) + broughtBack[e]
=============================================================================
