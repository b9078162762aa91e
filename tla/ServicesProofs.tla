--------------------------- MODULE ServicesProofs ---------------------------
(***************************************************************************)
(* Proofs about the small services: CircuitBreaker, LockManager,           *)
(* WorkflowTimers, SequentialWorkflow, ExecutionSchedule, BackgroundTasks, *)
(* AutomationSchedule, RateLimiter and EventBus.  Each part is on its own, *)
(* with the inductive invariant it needs.                                  *)
(***************************************************************************)
EXTENDS CircuitBreaker, LockManager, WorkflowTimers, SequentialWorkflow,
        ExecutionSchedule, BackgroundTasks, AutomationSchedule, RateLimiter,
        EventBus, TLAPS

---------------------------------------------------------------------------
(* The circuit breaker                                                     *)

\* The counter is the current run of failures; a closed circuit has seen
\* fewer than the threshold.
BreakerInv ==
    /\ BreakerTypeOK
    /\ failureCount = streak
    /\ circuit = "CLOSED" => streak < FailureThreshold

LEMMA BreakerStart == BreakerInit => BreakerInv
<1> SUFFICES ASSUME BreakerInit PROVE BreakerInv
    OBVIOUS
<1>1. waited \in BOOLEAN /\ healthy \in BOOLEAN
    BY Zenon DEF BreakerInit
<1>2. /\ failureCount \in 0..FailureThreshold /\ streak \in 0..FailureThreshold
      /\ failureCount = streak
      /\ streak < FailureThreshold
    BY BreakerAssumption DEF BreakerAssumption, BreakerInit
<1> QED
    BY <1>1, <1>2 DEF BreakerInit, BreakerInv, BreakerTypeOK

LEMMA BreakerStep == BreakerInv /\ [BreakerNext]_breakerVars => BreakerInv'
<1> SUFFICES ASSUME BreakerInv, [BreakerNext]_breakerVars PROVE BreakerInv'
    OBVIOUS
<1> USE BreakerAssumption DEF BreakerAssumption, BreakerInv, BreakerTypeOK
<1>1. ASSUME NEW c \in Callers, BeginCall(c) PROVE BreakerInv'
    BY <1>1 DEF BeginCall, Evaluated
<1>2. ASSUME NEW c \in Callers, CallSucceeds(c) PROVE BreakerInv'
    BY <1>2 DEF CallSucceeds
<1>3. ASSUME NEW c \in Callers, CallFails(c) PROVE BreakerInv'
    BY <1>3 DEF CallFails, OneMore
<1>4. CASE TimeoutPasses
    BY <1>4 DEF TimeoutPasses
<1>5. CASE ServiceChanges
    BY <1>5 DEF ServiceChanges
<1>6. CASE UNCHANGED breakerVars
    BY <1>6 DEF breakerVars
<1> QED
    BY <1>1, <1>2, <1>3, <1>4, <1>5, <1>6 DEF BreakerNext, CallStep

\* The types of the breaker's state are kept, for any threshold and callers.
THEOREM BreakerTypeCorrect == BreakerSpec => []BreakerTypeOK
<1>1. BreakerInv => BreakerTypeOK
    BY DEF BreakerInv
<1> QED
    BY <1>1, BreakerStart, BreakerStep, PTL DEF BreakerSpec

LEMMA BreakerTrips ==
    ASSUME BreakerInv, [BreakerNext]_breakerVars, breakerVars' # breakerVars, circuit = "CLOSED"
    PROVE  circuit' # "CLOSED" <=> streak' = FailureThreshold
<1> USE BreakerAssumption DEF BreakerAssumption, BreakerInv, BreakerTypeOK
<1>1. ASSUME NEW c \in Callers, BeginCall(c) PROVE circuit' # "CLOSED" <=> streak' = FailureThreshold
    BY <1>1 DEF BeginCall, Evaluated
<1>2. ASSUME NEW c \in Callers, CallSucceeds(c) PROVE circuit' # "CLOSED" <=> streak' = FailureThreshold
    BY <1>2 DEF CallSucceeds
<1>3. ASSUME NEW c \in Callers, CallFails(c) PROVE circuit' # "CLOSED" <=> streak' = FailureThreshold
    BY <1>3 DEF CallFails, OneMore
<1>4. ASSUME TimeoutPasses \/ ServiceChanges PROVE circuit' # "CLOSED" <=> streak' = FailureThreshold
    BY <1>4 DEF TimeoutPasses, ServiceChanges
<1> QED
    BY <1>1, <1>2, <1>3, <1>4 DEF BreakerNext, CallStep, breakerVars

\* A closed circuit opens with the FailureThreshold-th failure in a row, at once and
\* never before, for any threshold, any callers and any order of their returns.
THEOREM BreakerTripsAtThreshold == BreakerSpec => TripsAtThreshold
<1>1. BreakerInv /\ [BreakerNext]_breakerVars
      => [circuit = "CLOSED" => (circuit' # "CLOSED" <=> streak' = FailureThreshold)]_breakerVars
    BY BreakerTrips
<1> QED
    BY <1>1, BreakerStart, BreakerStep, PTL DEF BreakerSpec, TripsAtThreshold

---------------------------------------------------------------------------
(* The lock manager                                                        *)

\* While no lock lapsed, redis' key was set by the client that has the lock;
\* in memory the lock is held by the one client that has it.
LockInv ==
    /\ LockTypeOK
    /\ lapsed => useRedis
    /\ useRedis /\ ~lapsed => \A c \in Clients : HasLock(c) => setter = c
    /\ ~useRedis =>
          /\ setter = NoClient /\ ~stray
          /\ \A c \in Clients : client[c] # "told" /\ (client[c] = "in" => localHeld)
          /\ \A c, d \in Clients : client[c] = "in" /\ client[d] = "in" => c = d

LEMMA LockStart == LockInit => LockInv
BY LockAssumption DEF LockAssumption, LockInit, LockInv, LockTypeOK, HasLock

LEMMA LockStep == LockInv /\ [LockNext]_lockVars => LockInv'
<1> SUFFICES ASSUME LockInv, [LockNext]_lockVars PROVE LockInv'
    OBVIOUS
<1> USE LockAssumption DEF LockAssumption, LockInv, LockTypeOK, HasLock
<1>1. ASSUME NEW c \in Clients, Try(c) PROVE LockInv'
    BY <1>1 DEF Try, Moves
<1>2. ASSUME NEW c \in Clients, GiveUp(c) PROVE LockInv'
    BY <1>2 DEF GiveUp, Moves
<1>3. ASSUME NEW c \in Clients, Enter(c) PROVE LockInv'
    BY <1>3 DEF Enter, Moves
<1>4. ASSUME NEW c \in Clients, SetIfFree(c) PROVE LockInv'
    BY <1>4 DEF SetIfFree
<1>5. ASSUME NEW c \in Clients, Delete(c) PROVE LockInv'
    BY <1>5 DEF Delete, Moves
<1>6. ASSUME NEW c \in Clients, AcquireLocal(c) PROVE LockInv'
    BY <1>6 DEF AcquireLocal, Moves
<1>7. ASSUME NEW c \in Clients, ReleaseLocal(c) PROVE LockInv'
    BY <1>7 DEF ReleaseLocal, Moves
<1>8. CASE KeyExpires
    BY <1>8 DEF KeyExpires, Owner
<1>9. CASE StrayDelete
    BY <1>9 DEF StrayDelete, Owner
<1>10. CASE UNCHANGED lockVars
    BY <1>10 DEF lockVars
<1> QED
    BY <1>1, <1>2, <1>3, <1>4, <1>5, <1>6, <1>7, <1>8, <1>9, <1>10 DEF LockNext

\* The types of the lock's state are kept, for any clients.
THEOREM LockTypeCorrect == LockSpec => []LockTypeOK
<1>1. LockInv => LockTypeOK
    BY DEF LockInv
<1> QED
    BY <1>1, LockStart, LockStep, PTL DEF LockSpec

\* Two of any number of clients have the lock at once only when one of them
\* outstayed its time to live or a release came through late; in memory never.
THEOREM LockExcludes == LockSpec => []OnlyExpiryBreaksExclusion
<1>1. LockInv => OnlyExpiryBreaksExclusion
    BY DEF LockInv, LockTypeOK, OnlyExpiryBreaksExclusion, HasLock
<1> QED
    BY <1>1, LockStart, LockStep, PTL DEF LockSpec

---------------------------------------------------------------------------
(* The timers                                                              *)

\* What the table holds was stored under that key, is not being cancelled,
\* and is not over.
TimersInv ==
    /\ TimersTypeOK
    /\ \A t \in Timers : timerAt[t] = "unused" <=> keyOf[t] = NoKey
    /\ \A t \in toCancel \cup cancelSet : timerAt[t] # "unused"
    /\ \A k \in Keys : scheduled[k] # NoTimer =>
          /\ keyOf[scheduled[k]] = k
          /\ scheduled[k] \notin toCancel \cup cancelSet
    /\ \A t, u \in Timers :
          t # u /\ keyOf[t] = keyOf[u] /\ (Pending(t) \/ Started(t)) /\ (Pending(u) \/ Started(u))
          => t \in crossed
    /\ TableFollowsTimers

LEMMA TimersStart == TimersInit => TimersInv
BY TimersAssumption DEF TimersAssumption, TimersInit, TimersInv, TimersTypeOK, TableFollowsTimers,
                        PendingIsListed, ListedIsInUse, Pending, Started

LEMMA TimersStep == TimersInv /\ [TimersNext]_timerVars => TimersInv'
<1> SUFFICES ASSUME TimersInv, [TimersNext]_timerVars PROVE TimersInv'
    OBVIOUS
<1> USE TimersAssumption DEF TimersAssumption, TimersInv, TimersTypeOK, TableFollowsTimers,
                             PendingIsListed, ListedIsInUse, Pending, Started
<1>1. ASSUME NEW t \in Timers, StartTimer(t) PROVE TimersInv'
    BY <1>1 DEF StartTimer, TimerGoes
<1>2. ASSUME NEW t \in Timers, TimerWakes(t) PROVE TimersInv'
    BY <1>2 DEF TimerWakes, TimerGoes
<1>3. ASSUME NEW t \in Timers, RunEnds(t) PROVE TimersInv'
    BY <1>3 DEF RunEnds, TimerGoes
<1>4. ASSUME NEW t \in Timers, PopEntry(t) PROVE TimersInv'
    BY <1>4 DEF PopEntry, TimerGoes
<1>5. ASSUME NEW t \in Timers, CancelTimer(t) PROVE TimersInv'
    BY <1>5 DEF CancelTimer
<1>6. ASSUME NEW t \in Timers, NEW k \in Keys, StoreTimer(t, k) PROVE TimersInv'
    BY <1>6 DEF StoreTimer, TimerGoes
<1>7. ASSUME NEW k \in Keys, PopToCancel(k) PROVE TimersInv'
    BY <1>7 DEF PopToCancel
<1>8. CASE UNCHANGED timerVars
    BY <1>8 DEF timerVars
<1> QED
    BY <1>1, <1>2, <1>3, <1>4, <1>5, <1>6, <1>7, <1>8 DEF TimersNext

\* The types of the timers' state are kept, for any timers and keys.
THEOREM TimersTypeCorrect == TimersSpec => []TimersTypeOK
<1>1. TimersInv => TimersTypeOK
    BY DEF TimersInv
<1> QED
    BY <1>1, TimersStart, TimersStep, PTL DEF TimersSpec

\* Of any number of timers under any keys, one that has not started is lost from
\* the table only to a cancellation or to a timer whose use of the key crossed
\* its own; and none is listed that was cancelled or is over.
THEOREM TimersAreFound == TimersSpec => []TableFollowsTimers
<1>1. TimersInv => TableFollowsTimers
    BY DEF TimersInv
<1> QED
    BY <1>1, TimersStart, TimersStep, PTL DEF TimersSpec

---------------------------------------------------------------------------
(* The schedule entries                                                    *)

\* Times an entry's rule has brought it back
Repeated(e) ==
    IF MaxOccurrences[e] # 0 /\ entry[e].occurrences >= MaxOccurrences[e]
    THEN MaxOccurrences[e] - 1 ELSE entry[e].occurrences
ToCome(e) == IF entry[e].status \in Waiting THEN 1 ELSE 0

\* An entry is handed out once for its first scheduling, its rule, and what
\* brought it back; one that waits has its next time still to come.
EntryInv(e) ==
    /\ e \notin Recurs \/ MaxOccurrences[e] = 0 => entry[e].occurrences = 0
    /\ entry[e].status = "NONE" => handedOut[e] = 0
    /\ e \notin Recurs \/ MaxOccurrences[e] # 0 \/ Interval[e] = 0
       => handedOut[e] + ToCome(e) <= 1 + Repeated(e) + broughtBack[e]
EntriesInv == EntriesTypeOK /\ \A e \in Entries : EntryInv(e)

LEMMA EntriesStart == EntriesInit => EntriesInv
BY ExecutionScheduleAssumption DEF ExecutionScheduleAssumption, EntriesInit, EntriesInv, EntryInv,
       EntriesTypeOK, EntryStatuses, Waiting, Closed, Repeated, ToCome

\* The numbers of one entry, as the provers need them
LEMMA EntryNumbers ==
    ASSUME EntriesTypeOK, NEW e \in Entries
    PROVE  /\ now \in Nat /\ handedOut[e] \in Nat /\ broughtBack[e] \in 0..MaxBack
           /\ MaxBack \in Nat /\ MaxOccurrences[e] \in Nat /\ Interval[e] \in Nat /\ EndTime[e] \in Nat
           /\ entry[e].status \in EntryStatuses
           /\ entry[e].scheduled \in Nat /\ entry[e].next \in Nat /\ entry[e].occurrences \in Nat
BY ExecutionScheduleAssumption DEF ExecutionScheduleAssumption, EntriesTypeOK

\* What a call that writes a live status to an entry does to it
LEMMA EntryWaits ==
    ASSUME EntriesInv, NEW e \in Entries, NEW status \in Waiting, NEW time \in Nat,
           Waits(e, status, time), UNCHANGED <<now, handedOut>>,
           \/ entry[e].status = "NONE" /\ UNCHANGED broughtBack
           \/ IsBroughtBack(e)
    PROVE  EntriesInv'
<1>1. entry' \in [Entries -> [status : EntryStatuses, scheduled : Nat, next : Nat, occurrences : Nat]]
    BY DEF EntriesInv, EntriesTypeOK, Waits, EntryStatuses
<1>2. EntriesTypeOK'
    BY <1>1, EntryNumbers DEF EntriesInv, EntriesTypeOK, IsBroughtBack
<1>3. ASSUME NEW f \in Entries, f # e PROVE EntryInv(f)'
  <2>1. entry'[f] = entry[f] /\ handedOut'[f] = handedOut[f] /\ broughtBack'[f] = broughtBack[f]
    BY <1>3 DEF EntriesInv, EntriesTypeOK, Waits, IsBroughtBack
  <2> QED
    BY <2>1, <1>3 DEF EntriesInv, EntryInv, Repeated, ToCome
<1>4. EntryInv(e)'
  <2>1. entry'[e].status = status /\ entry'[e].occurrences = entry[e].occurrences
    BY DEF EntriesInv, EntriesTypeOK, Waits
  <2>2. broughtBack'[e] = broughtBack[e] + (IF entry[e].status = "NONE" /\ broughtBack' = broughtBack THEN 0 ELSE 1)
    BY EntryNumbers DEF EntriesInv, EntriesTypeOK, IsBroughtBack
  <2>3. ToCome(e)' = 1 /\ Repeated(e)' = Repeated(e) /\ status # "NONE" /\ ToCome(e) \in 0..1 /\ Repeated(e) \in Nat
    BY <2>1, EntryNumbers DEF ToCome, Repeated, Waiting, EntriesInv
  <2>4. entry[e].status = "NONE" => ToCome(e) = 0 /\ handedOut[e] = 0
    BY DEF ToCome, Waiting, EntriesInv, EntryInv
  <2> QED
    BY <2>1, <2>2, <2>3, <2>4, EntryNumbers DEF EntriesInv, EntryInv
<1> QED
    BY <1>2, <1>3, <1>4 DEF EntriesInv

LEMMA RecurrenceWrites ==
    ASSUME EntriesTypeOK, NEW e \in Entries, NEW status \in EntryStatuses, NEW time \in Nat,
           NEW count \in Nat, Recurrence(e, status, time, count)
    PROVE  /\ entry'[e].status = status /\ entry'[e].occurrences = count
           /\ entry'[e].scheduled \in Nat /\ entry'[e].next \in Nat
           /\ entry' \in [Entries -> [status : EntryStatuses, scheduled : Nat, next : Nat, occurrences : Nat]]
           /\ \A f \in Entries : f # e => entry'[f] = entry[f]
BY DEF EntriesTypeOK, Recurrence

LEMMA TriggerKeepsInv ==
    ASSUME EntriesInv, NEW e \in Entries, TriggerRecurrence(e)
    PROVE  EntriesInv'
<1> DEFINE r == entry'[e]
<1> DEFINE last == MaxOccurrences[e] # 0 /\ Counted(e) >= MaxOccurrences[e]
<1>1. /\ r.status \in EntryStatuses /\ r.status # "NONE" /\ r.scheduled \in Nat /\ r.next \in Nat
      /\ r.occurrences \in {entry[e].occurrences, Counted(e)}
      /\ r.status \in {"COMPLETED", "PENDING", entry[e].status}
      /\ r.status = "PENDING" /\ entry[e].status # "PENDING"
         => ~last /\ r.occurrences = Counted(e) /\ Interval[e] # 0
      /\ r.status = "PENDING" /\ Interval[e] # 0 => ~last /\ r.occurrences = Counted(e)
      /\ e \in Recurs /\ entry[e].status # "NONE"
      /\ UNCHANGED <<now, handedOut, broughtBack>>
      /\ entry' \in [Entries -> [status : EntryStatuses, scheduled : Nat, next : Nat, occurrences : Nat]]
      /\ \A f \in Entries : f # e => entry'[f] = entry[f]
  <2> DEFINE old == entry[e]
  <2> DEFINE next == old.next + Interval[e]
  <2>1. /\ Counted(e) \in Nat /\ next \in Nat /\ old.next \in Nat /\ old.occurrences \in Nat
        /\ old.status \in EntryStatuses /\ EntriesTypeOK
    BY EntryNumbers DEF EntriesInv, Counted
  <2>2. e \in Recurs /\ old.status # "NONE" /\ UNCHANGED <<now, handedOut, broughtBack>>
    BY DEF TriggerRecurrence, IsScheduled
  <2>3. "COMPLETED" \in EntryStatuses /\ "PENDING" \in EntryStatuses
    BY DEF EntryStatuses, Waiting, Closed
  <2>4. CASE Recurrence(e, "COMPLETED", old.next, old.occurrences)
    BY <2>1, <2>2, <2>3, <2>4, RecurrenceWrites
  <2>5. CASE Recurrence(e, "COMPLETED", old.next, Counted(e))
    BY <2>1, <2>2, <2>3, <2>5, RecurrenceWrites
  <2>6. CASE ~last /\ Interval[e] # 0 /\ Recurrence(e, "PENDING", next, Counted(e))
    BY <2>1, <2>2, <2>3, <2>6, RecurrenceWrites
  <2>7. CASE ~last /\ Interval[e] = 0 /\ Recurrence(e, old.status, old.next, Counted(e))
    BY <2>1, <2>2, <2>3, <2>7, RecurrenceWrites
  <2> QED
    BY <2>4, <2>5, <2>6, <2>7 DEF TriggerRecurrence, LastOccurrence
<1>2. EntriesTypeOK'
    BY <1>1 DEF EntriesInv, EntriesTypeOK
<1>3. ASSUME NEW f \in Entries, f # e PROVE EntryInv(f)'
    BY <1>1, <1>3 DEF EntriesInv, EntryInv, Repeated, ToCome
<1>4. EntryInv(e)'
  <2>1. /\ Counted(e) = IF entry[e].occurrences < MaxOccurrences[e]
                        THEN entry[e].occurrences + 1 ELSE entry[e].occurrences
        /\ entry[e].occurrences \in Nat /\ MaxOccurrences[e] \in Nat /\ handedOut[e] \in Nat
        /\ broughtBack[e] \in Nat
    BY EntryNumbers DEF EntriesInv, Counted
  <2>2. EntryInv(e)
    BY DEF EntriesInv
  <2> QED
    BY <1>1, <2>1, <2>2 DEF EntryInv, Repeated, ToCome, Waiting
<1> QED
    BY <1>2, <1>3, <1>4 DEF EntriesInv

LEMMA EntriesStep == EntriesInv /\ [EntriesNext]_entryVars => EntriesInv'
<1> SUFFICES ASSUME EntriesInv, [EntriesNext]_entryVars PROVE EntriesInv'
    OBVIOUS
<1> USE ExecutionScheduleAssumption DEF ExecutionScheduleAssumption
<1>1. ASSUME NEW e \in Entries, NEW delay \in 0..1,
             ScheduleEntry(e, delay) \/ Reschedule(e, delay) \/ ScheduleRetry(e, delay)
      PROVE  EntriesInv'
  <2>1. now + delay \in Nat /\ "PENDING" \in Waiting /\ "RETRYING" \in Waiting
    BY <1>1 DEF EntriesInv, EntriesTypeOK, Waiting
  <2> QED
    BY <1>1, <2>1, EntryWaits DEF ScheduleEntry, Reschedule, ScheduleRetry, IsScheduled
<1>2. ASSUME NEW e \in Entries, CancelEntry(e) PROVE EntriesInv'
    BY <1>2 DEF CancelEntry, IsScheduled, EntriesInv, EntryInv, EntriesTypeOK, EntryStatuses,
                Waiting, Closed, Repeated, ToCome
<1>3. ASSUME NEW e \in Entries, TriggerRecurrence(e) PROVE EntriesInv'
    BY <1>3, TriggerKeepsInv
<1>4. CASE ListReady
    BY <1>4 DEF ListReady, EntriesInv, EntryInv, EntriesTypeOK, EntryStatuses, Waiting, Closed, Repeated, ToCome
<1>5. CASE CleanupExpired
    BY <1>5 DEF CleanupExpired, EntriesInv, EntryInv, EntriesTypeOK, EntryStatuses, Waiting, Closed, Repeated, ToCome
<1>6. CASE TimePasses
    BY <1>6 DEF TimePasses, EntriesInv, EntryInv, EntriesTypeOK, Repeated, ToCome
<1>7. CASE UNCHANGED entryVars
    BY <1>7 DEF entryVars, EntriesInv, EntryInv, EntriesTypeOK, Repeated, ToCome
<1> QED
    BY <1>1, <1>2, <1>3, <1>4, <1>5, <1>6, <1>7 DEF EntriesNext

\* The types of the schedule entries are kept, for any entries and rules.
THEOREM EntriesTypeCorrect == EntriesSpec => []EntriesTypeOK
<1>1. EntriesInv => EntriesTypeOK
    BY DEF EntriesInv
<1> QED
    BY <1>1, EntriesStart, EntriesStep, PTL DEF EntriesSpec

\* An entry is handed out no more often than its rule, its retries and its
\* reschedulings allow, for any rules, times and order of calls.
THEOREM HandingsOutAreBounded == EntriesSpec => []OccurrencesAreBounded
<1>1. EntriesInv => OccurrencesAreBounded
    BY ExecutionScheduleAssumption DEF ExecutionScheduleAssumption, EntriesInv, EntryInv, EntriesTypeOK,
           OccurrencesAreBounded, HandingsOut, Repeated, ToCome
<1> QED
    BY <1>1, EntriesStart, EntriesStep, PTL DEF EntriesSpec

---------------------------------------------------------------------------
(* The schedule table                                                      *)

\* The types of the schedule table and its pollers are kept.
THEOREM ScheduleTypeCorrect == ScheduleSpec => []ScheduleTypeOK
<1>1. ScheduleInit => ScheduleTypeOK
  <2> SUFFICES ASSUME ScheduleInit PROVE ScheduleTypeOK
      OBVIOUS
  <2>1. pollOn \in BOOLEAN
      BY Zenon DEF ScheduleInit
  <2>2. <<>> \in Seq(Schedules)
      OBVIOUS
  <2> QED
      BY <2>1, <2>2 DEF ScheduleInit, ScheduleTypeOK
<1>2. ScheduleTypeOK /\ [ScheduleNext]_scheduleVars => ScheduleTypeOK'
  <2> SUFFICES ASSUME ScheduleTypeOK, [ScheduleNext]_scheduleVars PROVE ScheduleTypeOK'
      OBVIOUS
  <2> USE DEF ScheduleTypeOK
  <2>1. ASSUME NEW s \in Schedules, ScheduleWorkflow(s) \/ ComesDue(s) PROVE ScheduleTypeOK'
      BY <2>1 DEF ScheduleWorkflow, ComesDue
  <2>2. ASSUME NEW p \in Pollers, StartPolling(p) \/ PollTable(p) \/ PassEnds(p) \/ InsertAgain(p)
        PROVE  ScheduleTypeOK'
    <3>1. <<>> \in Seq(Schedules)
        OBVIOUS
    <3>2. CASE StartPolling(p)
      <4>1. pollOn' \in BOOLEAN
          BY <3>2, Zenon DEF StartPolling
      <4> QED
          BY <3>2, <4>1 DEF StartPolling
    <3>3. CASE PollTable(p)
        BY <3>1, <3>3 DEF PollTable
    <3>4. CASE PassEnds(p)
        BY <3>4 DEF PassEnds
    <3>5. CASE InsertAgain(p)
        BY <3>1, <3>5 DEF InsertAgain
    <3> QED
        BY <2>2, <3>2, <3>3, <3>4, <3>5
  <2>3. ASSUME NEW p \in Pollers, VisitSchedule(p) PROVE ScheduleTypeOK'
    <3>1. /\ poller[p].rows \in Seq(Schedules) /\ poller[p].rows # <<>>
        BY <2>3 DEF VisitSchedule
    <3>2. Head(poller[p].rows) \in Schedules /\ Tail(poller[p].rows) \in Seq(Schedules)
        BY <3>1
    <3> QED
        BY <2>3, <3>2 DEF VisitSchedule
  <2>4. CASE StopPolling \/ UNCHANGED scheduleVars
      BY <2>4 DEF StopPolling, scheduleVars
  <2> QED
      BY <2>1, <2>2, <2>3, <2>4 DEF ScheduleNext, PollStep
<1> QED
    BY <1>1, <1>2, PTL DEF ScheduleSpec

---------------------------------------------------------------------------
(* The worker pool                                                         *)

\* A task is in hand exactly while its thread executes it, and the count the
\* queue keeps is the number of its failures.
BackInv ==
    /\ BackTypeOK
    /\ attempts = failures
    /\ \A t \in Threads : at[t] = "execute" <=> holds[t] # NoJob
    /\ TaskIsAccountedFor

LEMMA BackStart == BackInit => BackInv
<1> SUFFICES ASSUME BackInit PROVE BackInv
    OBVIOUS
<1>1. poolRunning \in BOOLEAN
    BY Zenon DEF BackInit
<1> QED
    BY <1>1, BackgroundAssumption DEF BackgroundAssumption, BackInit, BackInv, BackTypeOK,
           TaskIsAccountedFor, OneCopyEach, Limit, Queued, InHand, Seen

\* What stands in the queue after it grew at its end or lost its head
LEMMA Appended ==
    ASSUME BackTypeOK, NEW j \in Jobs, jobQueue' = Append(jobQueue, j)
    PROVE  /\ jobQueue' \in Seq(Jobs)
           /\ \A k \in Jobs : Queued(k)' <=> Queued(k) \/ k = j
           /\ (\A i, k \in 1..Len(jobQueue) : jobQueue[i] = jobQueue[k] => i = k) /\ ~Queued(j)
              => \A i, k \in 1..Len(jobQueue') : jobQueue'[i] = jobQueue'[k] => i = k
<1>1. /\ jobQueue \in Seq(Jobs) /\ jobQueue' \in Seq(Jobs) /\ Len(jobQueue) \in Nat
      /\ Len(jobQueue') = Len(jobQueue) + 1
      /\ \A i \in 1..Len(jobQueue) : jobQueue'[i] = jobQueue[i]
      /\ jobQueue'[Len(jobQueue) + 1] = j
    BY DEF BackTypeOK
<1>2. \A i \in 1..Len(jobQueue') : i \in 1..Len(jobQueue) \/ i = Len(jobQueue) + 1
    BY <1>1
<1>3. Len(jobQueue) + 1 \in 1..Len(jobQueue') /\ 1..Len(jobQueue) \subseteq 1..Len(jobQueue')
    BY <1>1
<1>4. ASSUME NEW k \in Jobs PROVE Queued(k)' <=> Queued(k) \/ k = j
    BY <1>1, <1>2, <1>3, Zenon DEF Queued
<1>5. ASSUME \A i, k \in 1..Len(jobQueue) : jobQueue[i] = jobQueue[k] => i = k, ~Queued(j),
             NEW i \in 1..Len(jobQueue'), NEW k \in 1..Len(jobQueue'), jobQueue'[i] = jobQueue'[k]
      PROVE  i = k
    BY <1>1, <1>2, <1>5, Zenon DEF Queued
<1> QED
    BY <1>1, <1>4, <1>5

LEMMA Polled ==
    ASSUME BackTypeOK, jobQueue # <<>>, jobQueue' = Tail(jobQueue),
           \A i, k \in 1..Len(jobQueue) : jobQueue[i] = jobQueue[k] => i = k
    PROVE  /\ jobQueue' \in Seq(Jobs) /\ Head(jobQueue) \in Jobs /\ Queued(Head(jobQueue))
           /\ \A k \in Jobs : Queued(k)' <=> Queued(k) /\ k # Head(jobQueue)
           /\ \A i, k \in 1..Len(jobQueue') : jobQueue'[i] = jobQueue'[k] => i = k
<1>1. /\ jobQueue \in Seq(Jobs) /\ jobQueue' \in Seq(Jobs) /\ Len(jobQueue) \in Nat \ {0}
      /\ Len(jobQueue') = Len(jobQueue) - 1
      /\ \A i \in 1..Len(jobQueue') : jobQueue'[i] = jobQueue[i + 1]
      /\ Head(jobQueue) = jobQueue[1]
    BY DEF BackTypeOK
<1>2. \A i \in 1..Len(jobQueue') : i + 1 \in 1..Len(jobQueue) /\ i + 1 # 1 /\ i \in Nat
    BY <1>1
<1>3. \A i \in 1..Len(jobQueue) : i # 1 => i - 1 \in 1..Len(jobQueue') /\ jobQueue'[i - 1] = jobQueue[i]
    BY <1>1
<1>4. 1 \in 1..Len(jobQueue) /\ Head(jobQueue) \in Jobs /\ Queued(Head(jobQueue))
    BY <1>1 DEF Queued
<1>5. ASSUME NEW k \in Jobs PROVE Queued(k)' <=> Queued(k) /\ k # Head(jobQueue)
  <2>1. ASSUME NEW i \in 1..Len(jobQueue'), jobQueue'[i] = k PROVE Queued(k) /\ k # Head(jobQueue)
    <3>1. i + 1 \in 1..Len(jobQueue) /\ i + 1 # 1 /\ jobQueue[i + 1] = k
        BY <1>1, <1>2, <2>1
    <3>2. jobQueue[1] # k
        BY <1>4, <3>1
    <3> QED
        BY <1>1, <3>1, <3>2, Zenon DEF Queued
  <2>2. ASSUME NEW i \in 1..Len(jobQueue), jobQueue[i] = k, k # Head(jobQueue) PROVE Queued(k)'
    <3>1. i # 1
        BY <1>1, <2>2
    <3>2. i - 1 \in 1..Len(jobQueue') /\ jobQueue'[i - 1] = k
        BY <1>3, <2>2, <3>1
    <3> QED
        BY <3>2, Zenon DEF Queued
  <2> QED
      BY <2>1, <2>2, Zenon DEF Queued
<1>6. ASSUME NEW i \in 1..Len(jobQueue'), NEW k \in 1..Len(jobQueue'), jobQueue'[i] = jobQueue'[k]
      PROVE  i = k
  <2>1. i + 1 = k + 1
      BY <1>1, <1>2, <1>6
  <2> QED
      BY <1>2, <2>1
<1> QED
    BY <1>1, <1>4, <1>5, <1>6

LEMMA BackStep == BackInv /\ [BackNext]_backVars => BackInv'
<1> SUFFICES ASSUME BackInv, [BackNext]_backVars PROVE BackInv'
    OBVIOUS
<1> USE BackgroundAssumption DEF BackgroundAssumption, BackInv, TaskIsAccountedFor, OneCopyEach
<1>1. ASSUME NEW j \in Jobs, EnqueueJob(j) PROVE BackInv'
  <2>1. /\ jobQueue' \in Seq(Jobs)
        /\ \A k \in Jobs : Queued(k)' <=> Queued(k) \/ k = j
        /\ ~Queued(j)
        /\ \A i, k \in 1..Len(jobQueue') : jobQueue'[i] = jobQueue'[k] => i = k
    BY <1>1, Appended DEF EnqueueJob, Seen
  <2> QED
    BY <1>1, <2>1 DEF EnqueueJob, BackTypeOK, Seen, InHand
<1>2. CASE ClearDlq
    BY <1>2 DEF ClearDlq, BackTypeOK, Seen, InHand, Queued
<1>3. ASSUME NEW new \in SUBSET Threads, StartPool(new) PROVE BackInv'
    BY <1>3 DEF StartPool, queueOnly, BackTypeOK, Seen, InHand, Queued, Limit
<1>4. CASE StopPool
    BY <1>4 DEF StopPool, queueOnly, BackTypeOK, Seen, InHand, Queued, Limit
<1>5. ASSUME NEW t \in Threads, CheckRunning(t) PROVE BackInv'
    BY <1>5 DEF CheckRunning, queueOnly, BackTypeOK, Seen, InHand, Queued, Limit
<1>6. ASSUME NEW t \in Threads, PollNothing(t) PROVE BackInv'
    BY <1>6 DEF PollNothing, queueOnly, BackTypeOK, Seen, InHand, Queued, Limit
<1>7. ASSUME NEW t \in Threads, PollJob(t) PROVE BackInv'
  <2>1. /\ jobQueue' \in Seq(Jobs) /\ Head(jobQueue) \in Jobs /\ Queued(Head(jobQueue))
        /\ \A k \in Jobs : Queued(k)' <=> Queued(k) /\ k # Head(jobQueue)
        /\ \A i, k \in 1..Len(jobQueue') : jobQueue'[i] = jobQueue'[k] => i = k
    BY <1>7, Polled DEF PollJob
  <2>2. holds[t] = NoJob
    BY <1>7 DEF PollJob
  <2> QED
    BY <1>7, <2>1, <2>2 DEF PollJob, BackTypeOK, Seen, InHand, Limit
<1>8. ASSUME NEW t \in Threads, ExecutorReturns(t) PROVE BackInv'
  <2> DEFINE j == holds[t]
  <2>1. /\ j \in Jobs /\ InHand(j) /\ ~Queued(j) /\ j \notin executed \cup dlq \cup purged
        /\ j \in submitted
    BY <1>8 DEF ExecutorReturns, Drops, BackTypeOK, InHand, Seen
  <2>2. BackTypeOK' /\ attempts' = failures' /\ \A u \in Threads : at'[u] = "execute" <=> holds'[u] # NoJob
    BY <1>8, <2>1 DEF ExecutorReturns, Drops, BackTypeOK
  <2>3. \A k \in Jobs : (Queued(k)' <=> Queued(k)) /\ (InHand(k)' <=> InHand(k) /\ k # j)
    BY <1>8, <2>1 DEF ExecutorReturns, Drops, BackTypeOK, InHand, Queued
  <2>4. OneCopyEach'
    BY <1>8, <2>1, <2>3 DEF ExecutorReturns, Drops, BackTypeOK
  <2>5. ASSUME NEW k \in Jobs
        PROVE  /\ k \in submitted' <=> Seen(k)'
               /\ failures'[k] <= Limit
               /\ k \in dlq' \cup purged' <=> failures'[k] = Limit
    BY <1>8, <2>1, <2>3 DEF ExecutorReturns, Seen
  <2> QED
    BY <2>2, <2>4, <2>5 DEF Limit
<1>9. ASSUME NEW t \in Threads, HandleFailure(t) PROVE BackInv'
  <2> DEFINE j == holds[t]
  <2>1. j \in Jobs /\ InHand(j) /\ ~Queued(j) /\ j \notin executed \cup dlq \cup purged
    BY <1>9 DEF HandleFailure, Drops, BackTypeOK, InHand
  <2>2. failures[j] < Limit /\ attempts[j] = failures[j] /\ failures[j] \in Nat /\ j \in submitted
    BY <2>1 DEF BackTypeOK, Limit, Seen
  <2>3. CASE attempts'[j] >= DlqThreshold
    <3>0. attempts' = [attempts EXCEPT ![j] = @ + 1] /\ failures' = [failures EXCEPT ![j] = @ + 1]
      BY <1>9 DEF HandleFailure
    <3>a. attempts'[j] = failures[j] + 1 /\ attempts' = failures'
      BY <2>1, <2>2, <3>0 DEF BackTypeOK
    <3>b. failures[j] + 1 = Limit
      BY <2>2, <2>3, <3>a DEF Limit
    <3>1. /\ jobQueue' = jobQueue /\ dlq' = dlq \cup {j} /\ UNCHANGED <<poolRunning, submitted, executed, purged>>
          /\ failures' = [failures EXCEPT ![j] = Limit] /\ attempts' = failures'
      BY <1>9, <2>1, <2>3, <3>0, <3>a, <3>b DEF HandleFailure
    <3>2. BackTypeOK' /\ \A u \in Threads : at'[u] = "execute" <=> holds'[u] # NoJob
      BY <1>9, <2>1, <3>1 DEF HandleFailure, Drops, BackTypeOK, Limit
    <3>3. \A k \in Jobs : (Queued(k)' <=> Queued(k)) /\ (InHand(k)' <=> InHand(k) /\ k # j)
      BY <1>9, <2>1, <3>1 DEF HandleFailure, Drops, BackTypeOK, InHand, Queued
    <3>4. OneCopyEach'
      BY <1>9, <2>1, <3>1, <3>3 DEF HandleFailure, Drops, BackTypeOK
    <3>5. ASSUME NEW k \in Jobs
          PROVE  /\ k \in submitted' <=> Seen(k)'
                 /\ failures'[k] <= Limit
                 /\ k \in dlq' \cup purged' <=> failures'[k] = Limit
      BY <2>1, <2>2, <3>1, <3>3 DEF Seen, BackTypeOK, Limit
    <3> QED
      BY <3>1, <3>2, <3>4, <3>5 DEF Limit
  <2>4. CASE ~(attempts'[j] >= DlqThreshold)
    <3>1. /\ jobQueue' \in Seq(Jobs)
          /\ \A k \in Jobs : Queued(k)' <=> Queued(k) \/ k = j
          /\ \A i, k \in 1..Len(jobQueue') : jobQueue'[i] = jobQueue'[k] => i = k
      BY <1>9, <2>1, <2>4, Appended DEF HandleFailure
    <3> QED
      BY <1>9, <2>1, <2>2, <2>4, <3>1 DEF HandleFailure, Drops, BackTypeOK, Seen, InHand, Limit
  <2> QED
    BY <2>3, <2>4
<1>10. CASE UNCHANGED backVars
    BY <1>10 DEF backVars, BackTypeOK, Seen, InHand, Queued, Limit
<1> QED
    BY <1>1, <1>2, <1>3, <1>4, <1>5, <1>6, <1>7, <1>8, <1>9, <1>10 DEF BackNext, PoolStep

\* The types of the worker pool's state are kept, for any pool, tasks and limit.
THEOREM BackTypeCorrect == BackSpec => []BackTypeOK
<1>1. BackInv => BackTypeOK
    BY DEF BackInv
<1> QED
    BY <1>1, BackStart, BackStep, PTL DEF BackSpec

\* For any number of tasks, threads and restarts of the pool and any limit, a
\* task is in one place and is given up at its last failure.
THEOREM TasksAreAccountedFor == BackSpec => []TaskIsAccountedFor
<1>1. BackInv => TaskIsAccountedFor
    BY DEF BackInv
<1> QED
    BY <1>1, BackStart, BackStep, PTL DEF BackSpec

\* Each poll brings every task one place forward, or into the hands of the
\* thread that polls, and nothing else changes a place: tasks that fail and
\* come back go behind.
QueueMovesOn ==
    \A i \in 1..Len(jobQueue) :
        \/ /\ \E t \in Threads : /\ PollJob(t)
                                 /\ i = 1 => at'[t] = "execute" /\ holds'[t] = jobQueue[1]
           /\ i > 1 => i - 1 \in 1..Len(jobQueue') /\ jobQueue'[i - 1] = jobQueue[i]
        \/ /\ ~ \E t \in Threads : PollJob(t)
           /\ i \in 1..Len(jobQueue') /\ jobQueue'[i] = jobQueue[i]

LEMMA TasksMoveOn == BackInv /\ BackInv' /\ [BackNext]_backVars => QueueMovesOn
<1> SUFFICES ASSUME BackInv, BackInv', [BackNext]_backVars PROVE QueueMovesOn
    OBVIOUS
<1>1. /\ BackTypeOK /\ jobQueue \in Seq(Jobs) /\ jobQueue' \in Seq(Jobs)
      /\ Len(jobQueue) \in Nat /\ Len(jobQueue') \in Nat
    BY DEF BackInv, BackTypeOK
<1>2. ASSUME NEW t \in Threads, PollJob(t) PROVE QueueMovesOn
  <2>1. /\ jobQueue # <<>> /\ jobQueue' = Tail(jobQueue)
        /\ at'[t] = "execute" /\ holds'[t] = Head(jobQueue)
      BY <1>1, <1>2 DEF PollJob, BackTypeOK
  <2>2. /\ Len(jobQueue) \in Nat \ {0} /\ Len(jobQueue') = Len(jobQueue) - 1
        /\ \A i \in 1..Len(jobQueue') : jobQueue'[i] = jobQueue[i + 1]
        /\ Head(jobQueue) = jobQueue[1]
      BY <1>1, <2>1
  <2>3. ASSUME NEW i \in 1..Len(jobQueue), i > 1
        PROVE  i - 1 \in 1..Len(jobQueue') /\ jobQueue'[i - 1] = jobQueue[i]
      BY <2>2, <2>3
  <2> QED
      BY <1>2, <2>1, <2>2, <2>3 DEF QueueMovesOn
<1>3. ASSUME ~ \E t \in Threads : PollJob(t), UNCHANGED jobQueue PROVE QueueMovesOn
    BY <1>1, <1>3 DEF QueueMovesOn
<1>4. ASSUME ~ \E t \in Threads : PollJob(t), NEW j \in Jobs, jobQueue' = Append(jobQueue, j)
      PROVE  QueueMovesOn
  <2>1. /\ Len(jobQueue') = Len(jobQueue) + 1
        /\ \A i \in 1..Len(jobQueue) : jobQueue'[i] = jobQueue[i]
      BY <1>1, <1>4
  <2> QED
      BY <1>1, <1>4, <2>1 DEF QueueMovesOn
<1>5. ASSUME ~ \E t \in Threads : PollJob(t), NEW t \in Threads, HandleFailure(t)
      PROVE  QueueMovesOn
  <2>1. holds[t] \in Jobs
      BY <1>1, <1>5 DEF HandleFailure, Drops, BackInv, BackTypeOK
  <2>2. UNCHANGED jobQueue \/ jobQueue' = Append(jobQueue, holds[t])
      BY <1>5 DEF HandleFailure
  <2> QED
      BY <1>3, <1>4, <1>5, <2>1, <2>2
<1>6. ASSUME ~ \E t \in Threads : PollJob(t), NEW j \in Jobs, EnqueueJob(j) PROVE QueueMovesOn
    BY <1>4, <1>6 DEF EnqueueJob
<1>7. ASSUME ~ \E t \in Threads : PollJob(t),
             \/ ClearDlq \/ (\E new \in SUBSET Threads : StartPool(new)) \/ StopPool
             \/ (\E t \in Threads : CheckRunning(t) \/ PollNothing(t) \/ ExecutorReturns(t))
             \/ UNCHANGED backVars
      PROVE  QueueMovesOn
  <2>1. UNCHANGED jobQueue
      BY <1>7
         DEF ClearDlq, StartPool, StopPool, CheckRunning, PollNothing, ExecutorReturns, queueOnly, backVars
  <2> QED
      BY <1>3, <1>7, <2>1
<1> QED
    BY <1>2, <1>5, <1>6, <1>7 DEF BackNext, PoolStep

\* The queue is fair for any pool, tasks and limit: with TasksAreAccountedFor,
\* a task has as many polls before it as places, at most Limit times over.
THEOREM QueueIsFair == BackSpec => [][QueueMovesOn]_backVars
<1>1. BackInv /\ BackInv' /\ [BackNext]_backVars => [QueueMovesOn]_backVars
    BY TasksMoveOn
<1> QED
    BY <1>1, BackStart, BackStep, PTL DEF BackSpec

---------------------------------------------------------------------------
(* A sequential workflow and its branches                                  *)

NothingFailed(l) == \A i \in DOMAIN results[l] : results[l][i] \in Ran

\* A lane has a result for each step behind it, and goes on only while those
\* are good.
LaneInv(l) ==
    /\ lane[l].step = Len(results[l]) + 1
    /\ lane[l].at = "idle" => results[l] = <<>>
    /\ lane[l].at = "check" => Len(results[l]) <= LaneLength[l]
    /\ lane[l].at \in {"try", "handler", "overdue"} => Len(results[l]) < LaneLength[l]
    /\ lane[l].at = "collect" => Len(results[l]) = LaneLength[l]
    /\ lane[l].at # "over" => NothingFailed(l)

\* A branch ends with a failure, with all its steps, or because of a
\* cancellation; without errors so far, those waited for ended well.
BranchInv(b) ==
    /\ lane[b].at # "collect"
    /\ lane[b].at = "over" /\ NothingFailed(b) => AllRan(b) \/ isCancelled
    /\ b \in collected /\ ~branchErrors => lane[b].at = "over" /\ NothingFailed(b)

\* What a main lane that stopped short leaves behind ...
NoBranchBegan ==
    /\ \A b \in Branches : lane[b].at = "idle"
    /\ collected = {}
    /\ ~branchErrors
StoppedShort ==
    \/ outcome = "CANCELLED" /\ isCancelled /\ Len(results[Main]) < LaneLength[Main]
    \/ /\ outcome \in {"FAILED", "TIMED_OUT"}
       /\ results[Main] # <<>> /\ results[Main][Len(results[Main])] = outcome

\* ... and one that waited for its branches.
BranchesEnded ==
    /\ \A b \in Branches : lane[b].at = "over"
    /\ collected = Branches
    /\ AllRan(Main)
    /\ outcome = IF branchErrors THEN "FAILED" ELSE "COMPLETED"

MainInv ==
    /\ lane[Main].at = "idle" <=> outcome = "NONE"
    /\ lane[Main].at = "over" <=> outcome \in Outcomes
    /\ lane[Main].at \notin {"collect", "over"} => NoBranchBegan
    /\ lane[Main].at = "over" => (NoBranchBegan /\ StoppedShort) \/ BranchesEnded

CancelInv ==
    \A l \in Lanes :
        /\ begunAfter[l] <= 1
        /\ ~isCancelled => begunAfter[l] = 0
        /\ lane[l].at = "try" /\ lane[l].attempt = 0 => begunAfter[l] = 0

SeqInv ==
    /\ SequentialTypeOK
    /\ CancelInv
    /\ \A l \in Lanes : LaneInv(l)
    /\ \A b \in Branches : BranchInv(b)
    /\ MainInv

LEMMA SeqStart == SequentialInit => SeqInv
<1> SUFFICES ASSUME SequentialInit PROVE SeqInv
    OBVIOUS
<1>1. branchErrors \in BOOLEAN /\ isCancelled \in BOOLEAN /\ asked \in BOOLEAN
    BY Zenon DEF SequentialInit
<1> QED
    BY <1>1, SequentialAssumption DEF SequentialAssumption, SequentialInit, SeqInv, SequentialTypeOK,
           CancelInv, LaneInv, BranchInv, MainInv, NoBranchBegan, NothingFailed, Branches, Outcomes

\* A lane moves to another place and nothing else changes in it: what the
\* other lanes have is left as it was.
LEMMA LaneMoves ==
    ASSUME SequentialTypeOK, NEW l \in Lanes,
           NEW place \in {"idle", "check", "try", "handler", "overdue", "collect", "over"},
           lane' = [lane EXCEPT ![l].at = place]
    PROVE  /\ lane' \in [Lanes -> [at : {"idle", "check", "try", "handler", "overdue", "collect", "over"},
                                   step : Nat, attempt : 0..MaxRetries]]
           /\ lane'[l].at = place /\ lane'[l].step = lane[l].step /\ lane'[l].attempt = lane[l].attempt
           /\ \A k \in Lanes : k # l => lane'[k] = lane[k]
  BY DEF SequentialTypeOK

\* A lane is given a place, a step and an attempt.
LEMMA LaneIsSet ==
    ASSUME SequentialTypeOK, NEW l \in Lanes, NEW n \in Nat, NEW i \in 0..MaxRetries,
           NEW place \in {"idle", "check", "try", "handler", "overdue", "collect", "over"},
           lane' = [lane EXCEPT ![l] = [at |-> place, step |-> n, attempt |-> i]]
    PROVE  /\ lane' \in [Lanes -> [at : {"idle", "check", "try", "handler", "overdue", "collect", "over"},
                                   step : Nat, attempt : 0..MaxRetries]]
           /\ lane'[l].at = place /\ lane'[l].step = n /\ lane'[l].attempt = i
           /\ \A k \in Lanes : k # l => lane'[k] = lane[k]
  BY DEF SequentialTypeOK

\* What holds of a lane goes on to hold while it stands still.
LEMMA LaneKept ==
    ASSUME NEW k \in Lanes, LaneInv(k), lane'[k] = lane[k], results'[k] = results[k]
    PROVE  LaneInv(k)'
  BY DEF LaneInv, NothingFailed

\* The length of a lane's results says which step it is at.
LEMMA LaneAt ==
    ASSUME SeqInv, NEW l \in Lanes
    PROVE  /\ Len(results[l]) \in Nat /\ LaneLength[l] \in Nat
           /\ DOMAIN results[l] = 1..Len(results[l])
           /\ lane[l].step = Len(results[l]) + 1 /\ LaneInv(l)
           /\ lane[l].step \in Nat /\ lane[l].attempt \in 0..MaxRetries
<1>1. results[l] \in Seq(StepResults) /\ LaneLength[l] \in Nat
    BY SequentialAssumption DEF SequentialAssumption, SeqInv, SequentialTypeOK
<1>2. lane[l].step \in Nat /\ lane[l].attempt \in 0..MaxRetries
    BY DEF SeqInv, SequentialTypeOK
<1>3. LaneInv(l) /\ lane[l].step = Len(results[l]) + 1
    BY DEF SeqInv, LaneInv
<1> QED
    BY <1>1, <1>2, <1>3

\* A step of a lane comes to its result.
LEMMA ResultComes ==
    ASSUME SeqInv, NEW l \in Lanes, NEW r \in StepResults, Comes(l, r),
           lane[l].at \in {"try", "handler", "overdue"}
    PROVE  SeqInv'
<1> USE SequentialAssumption DEF SequentialAssumption
<1> DEFINE place == IF r \in Ran THEN "check" ELSE "over"
<1>1. /\ lane' \in [Lanes -> [at : {"idle", "check", "try", "handler", "overdue", "collect", "over"},
                              step : Nat, attempt : 0..MaxRetries]]
      /\ lane'[l].at = place /\ lane'[l].step = lane[l].step + 1 /\ lane'[l].attempt = 0
      /\ \A k \in Lanes : k # l => lane'[k] = lane[k]
  <2>1. place \in {"idle", "check", "try", "handler", "overdue", "collect", "over"}
      OBVIOUS
  <2>2. lane[l].step + 1 \in Nat /\ 0 \in 0..MaxRetries /\ SequentialTypeOK
      BY LaneAt DEF SeqInv
  <2> DEFINE n == lane[l].step + 1
             States == [at : {"idle", "check", "try", "handler", "overdue", "collect", "over"},
                        step : Nat, attempt : 0..MaxRetries]
             t == [at |-> place, step |-> n, attempt |-> 0]
  <2>3. lane' = [lane EXCEPT ![l] = t] /\ lane \in [Lanes -> States]
      BY <2>2 DEF Comes, SequentialTypeOK
  <2>4. t \in States /\ t.at = place /\ t.step = n /\ t.attempt = 0
      BY <2>1, <2>2
  <2> HIDE DEF place, n, t, States, SequentialAssumption
  <2>5. lane' \in [Lanes -> States] /\ lane'[l] = t /\ \A k \in Lanes : k # l => lane'[k] = lane[k]
      BY <2>3, <2>4
  <2> QED
      BY <2>4, <2>5 DEF n, States
<1>2. /\ results' \in [Lanes -> Seq(StepResults)]
      /\ Len(results'[l]) = Len(results[l]) + 1 /\ Len(results[l]) \in Nat
      /\ results'[l][Len(results[l]) + 1] = r
      /\ DOMAIN results'[l] = 1..(Len(results[l]) + 1) /\ DOMAIN results[l] = 1..Len(results[l])
      /\ \A i \in 1..Len(results[l]) : results'[l][i] = results[l][i]
      /\ \A k \in Lanes : k # l => results'[k] = results[k]
  <2>1. results \in [Lanes -> Seq(StepResults)] /\ results' = [results EXCEPT ![l] = Append(@, r)]
      BY DEF Comes, SeqInv, SequentialTypeOK
  <2>2. results[l] \in Seq(StepResults) /\ results'[l] = Append(results[l], r)
      BY <2>1
  <2>3. results'[l] \in Seq(StepResults)
      BY <2>2
  <2>4. results' \in [Lanes -> Seq(StepResults)] /\ \A k \in Lanes : k # l => results'[k] = results[k]
      BY <2>1, <2>2, <2>3
  <2> QED
      BY <2>2, <2>4
<1>3. UNCHANGED <<collected, branchErrors, isCancelled, contexts, asked, begunAfter>>
    BY DEF Comes, engineOnly
<1>4. outcome' = IF l = Main /\ r \notin Ran THEN r ELSE outcome
    BY DEF Comes
<1>5. SequentialTypeOK'
    BY <1>1, <1>2, <1>3, <1>4 DEF SeqInv, SequentialTypeOK, StepResults, Ran, Outcomes
<1>6. CancelInv'
  <2>1. lane'[l].at # "try"
      BY <1>1
  <2> QED
      BY <1>1, <1>3, <2>1 DEF SeqInv, CancelInv
<1>7. NothingFailed(l)' <=> r \in Ran
  <2>1. NothingFailed(l)
      BY DEF SeqInv, LaneInv
  <2> DEFINE n == Len(results[l])
  <2>0. n \in Nat
      BY <1>2
  <2>2. \A i \in 1..(n + 1) : i \in 1..n \/ i = n + 1
    <3> HIDE DEF n
    <3> QED
        BY <2>0
  <2>3. n + 1 \in 1..(n + 1)
    <3> HIDE DEF n
    <3> QED
        BY <2>0
  <2>4. \A i \in 1..Len(results[l]) : results'[l][i] \in Ran
      BY <1>2, <2>1 DEF NothingFailed
  <2> QED
      BY <1>2, <2>2, <2>3, <2>4 DEF NothingFailed
<1>8. ASSUME NEW k \in Lanes PROVE LaneInv(k)'
  <2>1. CASE k = l
    <3>1. LaneInv(l) /\ lane[l].at \in {"try", "handler", "overdue"} /\ LaneLength[l] \in Nat
        BY LaneAt
    <3>2. lane'[l].step = Len(results'[l]) + 1 /\ Len(results'[l]) <= LaneLength[l]
      <4>1. lane[l].step = Len(results[l]) + 1 /\ Len(results[l]) < LaneLength[l]
          BY <3>1 DEF LaneInv
      <4> QED
          BY <1>1, <1>2, <3>1, <4>1
    <3> QED
        BY <1>1, <1>7, <2>1, <3>2 DEF LaneInv
  <2>2. CASE k # l
    <3>1. LaneInv(k) /\ lane'[k] = lane[k] /\ results'[k] = results[k]
        BY <1>1, <1>2, <2>2 DEF SeqInv
    <3> QED
        BY <3>1, LaneKept
  <2> QED
      BY <2>1, <2>2
<1>9. ASSUME NEW b \in Branches PROVE BranchInv(b)'
  <2>0. b \in Lanes /\ BranchInv(b)
      BY DEF SeqInv, Branches
  <2>1. CASE b = l
    <3>1. branchErrors \/ b \notin collected
        BY <2>0, <2>1 DEF BranchInv
    <3> QED
        BY <1>1, <1>3, <1>7, <2>1, <3>1 DEF BranchInv
  <2>2. CASE b # l
      BY <1>1, <1>2, <1>3, <2>0, <2>2 DEF BranchInv, NothingFailed, AllRan
  <2> QED
      BY <2>1, <2>2
<1>10. MainInv'
  <2>0. MainInv /\ Main \in Lanes
      BY DEF SeqInv
  <2>1. CASE l = Main
    <3>1. NoBranchBegan /\ outcome \notin Outcomes /\ outcome # "NONE"
        BY <2>0, <2>1 DEF MainInv
    <3>2. NoBranchBegan'
        BY <1>1, <1>3, <2>1, <3>1 DEF NoBranchBegan, Branches
    <3>3. CASE r \in Ran
        BY <1>1, <1>4, <2>1, <3>1, <3>2, <3>3 DEF MainInv, Outcomes
    <3>4. CASE r \notin Ran
      <4>1. r \in {"FAILED", "TIMED_OUT"} /\ outcome' = r
          BY <1>4, <2>1, <3>4 DEF StepResults, Ran
      <4>2. results'[Main] # <<>> /\ results'[Main][Len(results'[Main])] = r
          BY <1>2, <2>1
      <4> QED
          BY <1>1, <2>1, <3>2, <3>4, <4>1, <4>2 DEF MainInv, StoppedShort, Outcomes
    <3> QED
        BY <3>3, <3>4
  <2>2. CASE l # Main
    <3>1. l \in Branches
        BY <2>2 DEF Branches
    <3>2. lane[Main].at = "collect"
        BY <2>0, <3>1 DEF MainInv, NoBranchBegan, BranchesEnded
    <3> QED
        BY <1>1, <1>4, <2>0, <2>2, <3>2 DEF MainInv
  <2> QED
      BY <2>1, <2>2
<1> QED
    BY <1>5, <1>6, <1>8, <1>9, <1>10 DEF SeqInv

\* A branch is at work only while the main lane waits for it.
LEMMA BranchAtWork ==
    ASSUME SeqInv, NEW l \in Branches, lane[l].at \notin {"idle", "over"}
    PROVE  lane[Main].at = "collect"
  BY DEF SeqInv, MainInv, NoBranchBegan, BranchesEnded

\* A lane goes from one place to another that is neither its first nor its last.
LEMMA LaneGoesOn ==
    ASSUME SeqInv, NEW l \in Lanes, NEW place \in {"check", "try", "handler", "overdue"},
           lane[l].at \in {"check", "try", "handler", "overdue"},
           place # "check", Len(results[l]) < LaneLength[l],
           lane' \in [Lanes -> [at : {"idle", "check", "try", "handler", "overdue", "collect", "over"},
                                step : Nat, attempt : 0..MaxRetries]],
           lane'[l].at = place, lane'[l].step = lane[l].step,
           \A k \in Lanes : k # l => lane'[k] = lane[k],
           UNCHANGED <<outcome, results, collected, branchErrors, isCancelled, contexts, asked>>,
           begunAfter' \in [Lanes -> Nat], CancelInv'
    PROVE  SeqInv'
<1> USE SequentialAssumption DEF SequentialAssumption
<1>1. SequentialTypeOK'
    BY DEF SeqInv, SequentialTypeOK
<1>2. \A k \in Lanes : LaneInv(k)'
    BY DEF SeqInv, LaneInv, NothingFailed
<1>3. \A b \in Branches : BranchInv(b)'
    BY DEF SeqInv, BranchInv, NothingFailed, AllRan, Branches
<1>4. MainInv'
  <2>1. CASE l = Main
      BY <2>1 DEF SeqInv, MainInv, NoBranchBegan, Branches
  <2>2. CASE l # Main
    <3>0. l \in Branches /\ Main \in Lanes
        BY <2>2 DEF Branches
    <3>1. lane[Main].at = "collect" /\ lane'[Main] = lane[Main]
        BY <2>2, <3>0, BranchAtWork
    <3> QED
        BY <3>1 DEF SeqInv, MainInv
  <2> QED
      BY <2>1, <2>2
<1> QED
    BY <1>1, <1>2, <1>3, <1>4 DEF SeqInv

LEMMA SeqStep == SeqInv /\ [SequentialNext]_seqVars => SeqInv'
<1> SUFFICES ASSUME SeqInv, [SequentialNext]_seqVars PROVE SeqInv'
    OBVIOUS
<1> USE SequentialAssumption DEF SequentialAssumption
<1>0. SequentialTypeOK /\ CancelInv /\ MainInv /\ Main \in Lanes
    BY DEF SeqInv
<1>1. CASE ExecuteWorkflow
  <2>1. /\ lane' \in [Lanes -> [at : {"idle", "check", "try", "handler", "overdue", "collect", "over"},
                                step : Nat, attempt : 0..MaxRetries]]
        /\ lane'[Main].at = "check" /\ lane'[Main].step = lane[Main].step
        /\ \A k \in Lanes : k # Main => lane'[k] = lane[k]
    BY <1>0, <1>1, LaneMoves DEF ExecuteWorkflow
  <2>2. lane[Main].at = "idle" /\ NoBranchBegan
    BY <1>0, <1>1 DEF ExecuteWorkflow, MainInv
  <2>3. SequentialTypeOK' /\ CancelInv'
    BY <1>0, <1>1, <2>1 DEF ExecuteWorkflow, SequentialTypeOK, CancelInv
  <2>4. \A k \in Lanes : LaneInv(k)'
    <3>1. LaneInv(Main)'
      <4>1. LaneInv(Main) /\ Len(results[Main]) = 0 /\ LaneLength[Main] \in Nat /\ UNCHANGED results
        <5>1. LaneInv(Main) /\ Len(results[Main]) \in Nat /\ LaneLength[Main] \in Nat
            BY <1>0, LaneAt
        <5>2. results[Main] = <<>> /\ UNCHANGED results
            BY <1>1, <2>2, <5>1 DEF LaneInv, ExecuteWorkflow
        <5> QED
            BY <5>1, <5>2
      <4> QED
          BY <2>1, <2>2, <4>1 DEF LaneInv, NothingFailed
    <3>2. \A k \in Lanes : k # Main => LaneInv(k)'
        BY <1>1, <2>1, LaneKept DEF SeqInv, ExecuteWorkflow
    <3> QED
        BY <3>1, <3>2
  <2>5. \A b \in Branches : BranchInv(b)'
    BY <1>1, <2>1 DEF SeqInv, ExecuteWorkflow, BranchInv, NothingFailed, AllRan, Branches
  <2>6. MainInv'
    BY <1>1, <2>1, <2>2 DEF ExecuteWorkflow, MainInv, NoBranchBegan, Branches, Outcomes
  <2> QED
    BY <2>3, <2>4, <2>5, <2>6 DEF SeqInv
<1>2. CASE CancelContext \/ CancelWorkflow
  <2>1. /\ UNCHANGED <<outcome, lane, results, collected, branchErrors, contexts, begunAfter>>
        /\ isCancelled' \in BOOLEAN /\ (isCancelled => isCancelled') /\ asked' \in BOOLEAN
    BY <1>0, <1>2, Zenon DEF CancelContext, CancelWorkflow, SequentialTypeOK
  <2>2. SequentialTypeOK' /\ CancelInv'
    BY <1>0, <2>1 DEF SequentialTypeOK, CancelInv
  <2>3. \A k \in Lanes : LaneInv(k)'
    BY <2>1 DEF SeqInv, LaneInv, NothingFailed
  <2>4. \A b \in Branches : BranchInv(b)'
    BY <2>1 DEF SeqInv, BranchInv, NothingFailed, AllRan
  <2>5. MainInv'
    BY <1>0, <2>1 DEF MainInv, NoBranchBegan, StoppedShort, BranchesEnded, AllRan
  <2> QED
    BY <2>2, <2>3, <2>4, <2>5 DEF SeqInv
<1>3. ASSUME NEW l \in Lanes, LaneEnds(l) PROVE SeqInv'
  <2> DEFINE place == IF l = Main THEN "collect" ELSE "over"
  <2>1. /\ lane' \in [Lanes -> [at : {"idle", "check", "try", "handler", "overdue", "collect", "over"},
                                step : Nat, attempt : 0..MaxRetries]]
        /\ lane'[l].at = place /\ lane'[l].step = lane[l].step
        /\ \A k \in Lanes : k # l => lane'[k] = lane[k]
    BY <1>0, <1>3, LaneMoves DEF LaneEnds
  <2>2. UNCHANGED <<outcome, results, collected, branchErrors, isCancelled, contexts, asked, begunAfter>>
    BY <1>3 DEF LaneEnds, engineOnly
  <2>3. /\ lane[l].at = "check" /\ LaneInv(l) /\ Len(results[l]) = LaneLength[l]
        /\ NothingFailed(l)
    <3>1. lane[l].at = "check" /\ lane[l].step > LaneLength[l]
        BY <1>3 DEF LaneEnds
    <3> QED
        BY <3>1, LaneAt DEF LaneInv
  <2>4. AllRan(l)
    BY <2>3 DEF AllRan, NothingFailed
  <2>5. SequentialTypeOK' /\ CancelInv'
    BY <1>0, <2>1, <2>2 DEF SequentialTypeOK, CancelInv
  <2>6. \A k \in Lanes : LaneInv(k)'
    BY <2>1, <2>2, <2>3 DEF SeqInv, LaneInv, NothingFailed
  <2>7. \A b \in Branches : BranchInv(b)'
    BY <2>1, <2>2, <2>3, <2>4 DEF SeqInv, BranchInv, NothingFailed, AllRan, Branches
  <2>8. MainInv'
    <3>1. CASE l = Main
        BY <1>0, <2>1, <2>2, <2>3, <3>1 DEF MainInv
    <3>2. CASE l # Main
      <4>0. l \in Branches
          BY <3>2 DEF Branches
      <4>1. lane[Main].at = "collect" /\ lane'[Main] = lane[Main]
          BY <1>0, <2>1, <2>3, <3>2, <4>0, BranchAtWork
      <4> QED
          BY <1>0, <2>2, <4>1 DEF MainInv
    <3> QED
        BY <3>1, <3>2
  <2> QED
    BY <2>5, <2>6, <2>7, <2>8 DEF SeqInv
<1>4. ASSUME NEW l \in Lanes, LaneCancelled(l) PROVE SeqInv'
  <2>1. /\ lane' \in [Lanes -> [at : {"idle", "check", "try", "handler", "overdue", "collect", "over"},
                                step : Nat, attempt : 0..MaxRetries]]
        /\ lane'[l].at = "over" /\ lane'[l].step = lane[l].step
        /\ \A k \in Lanes : k # l => lane'[k] = lane[k]
    BY <1>0, <1>4, LaneMoves DEF LaneCancelled
  <2>2. UNCHANGED <<results, collected, branchErrors, isCancelled, contexts, asked, begunAfter>>
    BY <1>4 DEF LaneCancelled, engineOnly
  <2>3. /\ lane[l].at = "check" /\ LaneInv(l) /\ Len(results[l]) < LaneLength[l]
        /\ isCancelled /\ outcome' = IF l = Main THEN "CANCELLED" ELSE outcome
    <3>1. lane[l].at = "check" /\ lane[l].step <= LaneLength[l]
        BY <1>4 DEF LaneCancelled
    <3>2. isCancelled /\ outcome' = IF l = Main THEN "CANCELLED" ELSE outcome
        BY <1>4 DEF LaneCancelled
    <3> QED
        BY <3>1, <3>2, LaneAt
  <2>4. SequentialTypeOK' /\ CancelInv'
    BY <1>0, <2>1, <2>2, <2>3 DEF SequentialTypeOK, CancelInv, Outcomes
  <2>5. \A k \in Lanes : LaneInv(k)'
    BY <2>1, <2>2, <2>3 DEF SeqInv, LaneInv, NothingFailed
  <2>6. ASSUME NEW b \in Branches PROVE BranchInv(b)'
    <3>1. BranchInv(b) /\ b \in Lanes
        BY DEF SeqInv, Branches
    <3>2. CASE b = l
        BY <2>1, <2>2, <2>3, <3>1, <3>2 DEF BranchInv
    <3>3. CASE b # l
        BY <2>1, <2>2, <3>1, <3>3 DEF BranchInv, NothingFailed, AllRan
    <3> QED
        BY <3>2, <3>3
  <2>7. MainInv'
    <3>1. CASE l = Main
        BY <1>0, <2>1, <2>2, <2>3, <3>1 DEF MainInv, NoBranchBegan, StoppedShort, Branches, Outcomes
    <3>2. CASE l # Main
      <4>0. l \in Branches
          BY <3>2 DEF Branches
      <4>1. lane[Main].at = "collect" /\ lane'[Main] = lane[Main]
          BY <1>0, <2>1, <2>3, <3>2, <4>0, BranchAtWork
      <4> QED
          BY <1>0, <2>2, <2>3, <3>2, <4>1 DEF MainInv
    <3> QED
        BY <3>1, <3>2
  <2> QED
    BY <2>4, <2>5, <2>6, <2>7 DEF SeqInv
<1>5. ASSUME NEW l \in Lanes, BeginLaneStep(l) PROVE SeqInv'
  <2>1. /\ lane' \in [Lanes -> [at : {"idle", "check", "try", "handler", "overdue", "collect", "over"},
                                step : Nat, attempt : 0..MaxRetries]]
        /\ lane'[l].at = "try" /\ lane'[l].step = lane[l].step
        /\ \A k \in Lanes : k # l => lane'[k] = lane[k]
    <3>1. lane[l].step \in Nat /\ 0 \in 0..MaxRetries
        BY LaneAt
    <3>2. lane' = [lane EXCEPT ![l] = [at |-> "try", step |-> lane[l].step, attempt |-> 0]]
        BY <1>5 DEF BeginLaneStep
    <3> QED
        BY <1>0, <3>1, <3>2, LaneIsSet
  <2>2. lane[l].at = "check" /\ Len(results[l]) < LaneLength[l]
    <3>1. lane[l].at = "check" /\ lane[l].step <= LaneLength[l]
        BY <1>5 DEF BeginLaneStep
    <3> QED
        BY <3>1, LaneAt
  <2>3. begunAfter' \in [Lanes -> Nat] /\ CancelInv'
    BY <1>0, <1>5, <2>1 DEF BeginLaneStep, CancelInv, SequentialTypeOK, engineOnly
  <2> QED
    BY <1>5, <2>1, <2>2, <2>3, LaneGoesOn DEF BeginLaneStep, engineOnly
<1>6. ASSUME NEW l \in Lanes, SubmitHandler(l) PROVE SeqInv'
  <2>1. /\ lane' \in [Lanes -> [at : {"idle", "check", "try", "handler", "overdue", "collect", "over"},
                                step : Nat, attempt : 0..MaxRetries]]
        /\ lane'[l].at = "handler" /\ lane'[l].step = lane[l].step
        /\ \A k \in Lanes : k # l => lane'[k] = lane[k]
    BY <1>0, <1>6, LaneMoves DEF SubmitHandler
  <2>2. lane[l].at = "try" /\ Len(results[l]) < LaneLength[l]
    BY <1>6 DEF SubmitHandler, SeqInv, LaneInv
  <2>3. begunAfter' \in [Lanes -> Nat] /\ UNCHANGED isCancelled
    <3>1. /\ begunAfter \in [Lanes -> Nat] /\ UNCHANGED isCancelled
          /\ begunAfter' = [begunAfter EXCEPT ![l] =
                               IF isCancelled /\ lane[l].attempt = 0 THEN @ + 1 ELSE @]
        BY <1>0, <1>6 DEF SubmitHandler, SequentialTypeOK, engineOnly
    <3>2. begunAfter[l] \in Nat
        BY <3>1
    <3> QED
        BY <3>1, <3>2
  <2>4. ASSUME NEW k \in Lanes
        PROVE  /\ begunAfter'[k] <= 1
               /\ ~isCancelled' => begunAfter'[k] = 0
               /\ lane'[k].at = "try" /\ lane'[k].attempt = 0 => begunAfter'[k] = 0
    <3>0. begunAfter[l] \in Nat /\ begunAfter'[l] = IF isCancelled /\ lane[l].attempt = 0
                                                    THEN begunAfter[l] + 1 ELSE begunAfter[l]
        BY <1>0, <1>6 DEF SubmitHandler, SequentialTypeOK
    <3>1. CASE k = l
        BY <1>0, <2>1, <2>2, <2>3, <3>0, <3>1 DEF CancelInv
    <3>2. CASE k # l
        BY <1>0, <1>6, <2>1, <2>3, <3>2 DEF SubmitHandler, CancelInv, SequentialTypeOK
    <3> QED
        BY <3>1, <3>2
  <2>5. CancelInv'
    BY <2>4 DEF CancelInv
  <2> QED
    BY <1>6, <2>1, <2>2, <2>3, <2>5, LaneGoesOn DEF SubmitHandler, engineOnly
<1>7. ASSUME NEW l \in Lanes, NoHandlerRuns(l) PROVE SeqInv'
    BY <1>7, ResultComes DEF NoHandlerRuns, StepResults
<1>8. ASSUME NEW l \in Lanes, HandlerReturns(l) PROVE SeqInv'
    BY <1>8, ResultComes DEF HandlerReturns, StepResults
<1>9. ASSUME NEW l \in Lanes, HandlerRaises(l) PROVE SeqInv'
  <2>1. CASE lane[l].attempt < MaxRetries
    <3>0. lane[l].attempt \in 0..MaxRetries
        BY <1>0 DEF SequentialTypeOK
    <3>1. /\ lane' \in [Lanes -> [at : {"idle", "check", "try", "handler", "overdue", "collect", "over"},
                                  step : Nat, attempt : 0..MaxRetries]]
          /\ lane'[l].at = "try" /\ lane'[l].step = lane[l].step /\ lane'[l].attempt # 0
          /\ \A k \in Lanes : k # l => lane'[k] = lane[k]
      <4>1. lane[l].step \in Nat /\ lane[l].attempt + 1 \in 0..MaxRetries /\ lane[l].attempt + 1 # 0
          BY <2>1, <3>0, LaneAt
      <4>2. lane' = [lane EXCEPT ![l] = [at |-> "try", step |-> lane[l].step, attempt |-> lane[l].attempt + 1]]
          BY <1>9, <2>1 DEF HandlerRaises
      <4> DEFINE next == lane[l].attempt + 1
      <4>3. next \in 0..MaxRetries /\ next # 0
          BY <4>1
      <4>4. lane' = [lane EXCEPT ![l] = [at |-> "try", step |-> lane[l].step, attempt |-> next]]
          BY <4>2
      <4> HIDE DEF next
      <4> QED
          BY <1>0, <4>1, <4>3, <4>4, LaneIsSet
    <3>2. lane[l].at = "handler" /\ Len(results[l]) < LaneLength[l]
      BY <1>9 DEF HandlerRaises, SeqInv, LaneInv
    <3>3. begunAfter' \in [Lanes -> Nat] /\ CancelInv'
      BY <1>0, <1>9, <2>1, <3>1 DEF HandlerRaises, CancelInv, SequentialTypeOK, engineOnly
    <3> QED
      BY <1>9, <2>1, <3>1, <3>2, <3>3, LaneGoesOn DEF HandlerRaises, engineOnly
  <2>2. CASE ~(lane[l].attempt < MaxRetries)
      BY <1>9, <2>2, ResultComes DEF HandlerRaises, StepResults
  <2> QED
      BY <2>1, <2>2
<1>10. ASSUME NEW l \in Lanes, HandlerOverruns(l) PROVE SeqInv'
  <2>1. /\ lane' \in [Lanes -> [at : {"idle", "check", "try", "handler", "overdue", "collect", "over"},
                                step : Nat, attempt : 0..MaxRetries]]
        /\ lane'[l].at = "overdue" /\ lane'[l].step = lane[l].step
        /\ \A k \in Lanes : k # l => lane'[k] = lane[k]
    BY <1>0, <1>10, LaneMoves DEF HandlerOverruns
  <2>2. lane[l].at = "handler" /\ Len(results[l]) < LaneLength[l]
    BY <1>10 DEF HandlerOverruns, SeqInv, LaneInv
  <2>3. begunAfter' \in [Lanes -> Nat] /\ CancelInv'
    BY <1>0, <1>10, <2>1 DEF HandlerOverruns, CancelInv, SequentialTypeOK, engineOnly
  <2> QED
    BY <1>10, <2>1, <2>2, <2>3, LaneGoesOn DEF HandlerOverruns, engineOnly
<1>11. ASSUME NEW l \in Lanes, OverdueHandlerEnds(l) PROVE SeqInv'
    BY <1>11, ResultComes DEF OverdueHandlerEnds, StepResults
<1>12. ASSUME NEW b \in Branches, StartBranch(b) PROVE SeqInv'
  <2>0. b \in Lanes /\ b # Main
    BY DEF Branches
  <2>1. /\ lane' \in [Lanes -> [at : {"idle", "check", "try", "handler", "overdue", "collect", "over"},
                                step : Nat, attempt : 0..MaxRetries]]
        /\ lane'[b].at = "check" /\ lane'[b].step = lane[b].step
        /\ \A k \in Lanes : k # b => lane'[k] = lane[k]
    BY <1>0, <1>12, <2>0, LaneMoves DEF StartBranch
  <2>2. /\ UNCHANGED <<outcome, results, collected, branchErrors, isCancelled, contexts, asked, begunAfter>>
        /\ lane[b].at = "idle" /\ lane[Main].at = "collect"
    BY <1>12 DEF StartBranch, engineOnly
  <2>3. SequentialTypeOK' /\ CancelInv'
    BY <1>0, <2>1, <2>2 DEF SequentialTypeOK, CancelInv
  <2>4. \A k \in Lanes : LaneInv(k)'
    <3>1. LaneInv(b)'
      <4>1. LaneInv(b) /\ Len(results[b]) = 0 /\ LaneLength[b] \in Nat
          BY <2>0, <2>2, LaneAt DEF LaneInv
      <4> QED
          BY <2>1, <2>2, <4>1 DEF LaneInv, NothingFailed
    <3>2. \A k \in Lanes : k # b => LaneInv(k)'
        BY <2>1, <2>2, LaneKept DEF SeqInv
    <3> QED
        BY <3>1, <3>2
  <2>5. \A k \in Branches : BranchInv(k)'
    BY <2>1, <2>2 DEF SeqInv, BranchInv, NothingFailed, AllRan, Branches
  <2>6. MainInv'
    BY <1>0, <2>0, <2>1, <2>2 DEF MainInv
  <2> QED
    BY <2>3, <2>4, <2>5, <2>6 DEF SeqInv
<1>13. ASSUME NEW b \in Branches, CollectBranch(b) PROVE SeqInv'
  <2>1. /\ UNCHANGED <<outcome, lane, results, isCancelled, contexts, asked, begunAfter>>
        /\ lane[Main].at = "collect" /\ collected' = collected \cup {b}
        /\ branchErrors' \in BOOLEAN /\ (branchErrors => branchErrors')
    BY <1>0, <1>13, Zenon DEF CollectBranch, SequentialTypeOK, engineOnly
  <2>2. ~branchErrors' => lane[b].at = "over" /\ NothingFailed(b)
    BY <1>13, Zenon DEF CollectBranch, NothingFailed
  <2>3. SequentialTypeOK' /\ CancelInv'
    BY <1>0, <2>1 DEF SequentialTypeOK, CancelInv
  <2>4. \A k \in Lanes : LaneInv(k)'
    BY <2>1 DEF SeqInv, LaneInv, NothingFailed
  <2>5. \A k \in Branches : BranchInv(k)'
    BY <2>1, <2>2 DEF SeqInv, BranchInv, NothingFailed, AllRan
  <2>6. MainInv'
    BY <1>0, <2>1 DEF MainInv
  <2> QED
    BY <2>3, <2>4, <2>5, <2>6 DEF SeqInv
<1>14. CASE EndBranches
  <2>1. /\ lane' \in [Lanes -> [at : {"idle", "check", "try", "handler", "overdue", "collect", "over"},
                                step : Nat, attempt : 0..MaxRetries]]
        /\ lane'[Main].at = "over" /\ lane'[Main].step = lane[Main].step
        /\ \A k \in Lanes : k # Main => lane'[k] = lane[k]
    BY <1>0, <1>14, LaneMoves DEF EndBranches
  <2>2. /\ UNCHANGED <<results, collected, branchErrors, isCancelled, contexts, asked, begunAfter>>
        /\ outcome' = (IF branchErrors THEN "FAILED" ELSE "COMPLETED")
        /\ lane[Main].at = "collect" /\ collected = Branches
        /\ \A b \in Branches : lane[b].at = "over"
    BY <1>14 DEF EndBranches, engineOnly
  <2>3. SequentialTypeOK' /\ CancelInv'
    BY <1>0, <2>1, <2>2 DEF SequentialTypeOK, CancelInv, Outcomes
  <2>4. \A k \in Lanes : LaneInv(k)'
    BY <2>1, <2>2 DEF SeqInv, LaneInv, NothingFailed
  <2>5. \A b \in Branches : BranchInv(b)'
    BY <2>1, <2>2 DEF SeqInv, BranchInv, NothingFailed, AllRan, Branches
  <2>6. AllRan(Main)
    BY <1>0, <2>2 DEF SeqInv, LaneInv, AllRan, NothingFailed
  <2>7. BranchesEnded'
    BY <2>1, <2>2, <2>6 DEF BranchesEnded, AllRan, Branches
  <2>8. MainInv'
    BY <2>1, <2>2, <2>7 DEF MainInv, Outcomes
  <2> QED
    BY <2>3, <2>4, <2>5, <2>8 DEF SeqInv
<1>15. CASE UNCHANGED seqVars
    BY <1>15 DEF seqVars, SeqInv, SequentialTypeOK, CancelInv, LaneInv, BranchInv, MainInv,
           NoBranchBegan, StoppedShort, BranchesEnded, NothingFailed, AllRan
<1> QED
    BY <1>1, <1>2, <1>3, <1>4, <1>5, <1>6, <1>7, <1>8, <1>9, <1>10, <1>11, <1>12, <1>13, <1>14, <1>15
       DEF SequentialNext

\* The invariant says of an ended execution what its status promises.
LEMMA StatusFollows == SeqInv => StatusReflectsLanes
<1> SUFFICES ASSUME SeqInv, outcome \in Outcomes PROVE StatusReflectsLanes
    BY DEF StatusReflectsLanes
<1> USE SequentialAssumption DEF SequentialAssumption
<1>1. Main \in Lanes /\ lane[Main].at = "over" /\ ((NoBranchBegan /\ StoppedShort) \/ BranchesEnded)
    BY DEF SeqInv, MainInv
<1>2. \A l \in Lanes : l = Main \/ l \in Branches
    BY DEF Branches
<1>3. CASE NoBranchBegan /\ StoppedShort
  <2>1. \A b \in Branches : b \in Lanes /\ results[b] = <<>>
      BY <1>3 DEF SeqInv, LaneInv, NoBranchBegan, Branches
  <2> QED
      BY <1>1, <1>2, <1>3, <2>1 DEF NoBranchBegan, StoppedShort, StatusReflectsLanes
<1>4. CASE BranchesEnded
  <2>1. NothingFailed(Main)
      BY <1>4 DEF BranchesEnded, AllRan, NothingFailed
  <2>2. ~branchErrors => \A b \in Branches : NothingFailed(b) /\ (AllRan(b) \/ isCancelled)
      BY <1>4 DEF BranchesEnded, SeqInv, BranchInv
  <2> QED
      BY <1>1, <1>2, <1>4, <2>1, <2>2 DEF BranchesEnded, StatusReflectsLanes, NothingFailed
<1> QED
    BY <1>1, <1>3, <1>4

\* The types of an execution's state are kept, for any lanes and retries.
THEOREM SequentialTypeCorrect == SequentialSpec => []SequentialTypeOK
<1>1. SeqInv => SequentialTypeOK
    BY DEF SeqInv
<1> QED
    BY <1>1, SeqStart, SeqStep, PTL DEF SequentialSpec

\* For any number of branches, steps, retries and threads, a lane submits at
\* most one further step to its handler once the context is cancelled.
THEOREM CancellationStopsLanes == SequentialSpec => []CancelStopsEachLane
<1>1. SeqInv => CancelStopsEachLane
    BY DEF SeqInv, CancelInv, CancelStopsEachLane
<1> QED
    BY <1>1, SeqStart, SeqStep, PTL DEF SequentialSpec

\* For any number of branches, steps, retries and threads, the status that
\* execute() returns is what the results of its lanes say.
THEOREM StatusIsHonest == SequentialSpec => []StatusReflectsLanes
<1> QED
    BY SeqStart, SeqStep, StatusFollows, PTL DEF SequentialSpec

\* Both together: the lanes stop when told to and are reported as they were.
THEOREM LanesAreReported == SequentialSpec => []LanesAreAccountedFor
<1>1. CancelStopsEachLane /\ StatusReflectsLanes => LanesAreAccountedFor
    BY DEF LanesAreAccountedFor
<1>2. QED
    BY <1>1, CancellationStopsLanes, StatusIsHonest, PTL

---------------------------------------------------------------------------
(* The rate limiter                                                        *)

\* A bucket, brought back to the beginning of the window, holds together with
\* what was admitted in the window no more than the limit.  That is the
\* invariant because each access keeps or lowers the sum, whichever way it
\* moves the bucket in time.
Balanced(i) ==
    admitted[i] > 0 =>
        /\ bucket[i] # NoBucket
        /\ bucket[i].tokens + (window.from - bucket[i].last) * Refill + admitted[i] * Cost
              <= RateLimit * Cost

LimiterInv == LimiterTypeOK /\ WindowIsBounded /\ \A i \in Identifiers : Balanced(i)

LEMMA LimiterStart == LimiterInit => LimiterInv
<1> SUFFICES ASSUME LimiterInit PROVE LimiterInv
    OBVIOUS
<1> USE LimiterAssumption DEF LimiterAssumption
<1>1. LimiterTypeOK
    BY DEF LimiterInit, LimiterTypeOK, Times
<1>2. window.to - window.from \in Nat
    BY <1>1 DEF LimiterTypeOK, Times
<1>3. (window.to - window.from) * Refill >= 0 /\ RateLimit * Cost >= 0
    BY <1>2
<1>4. (window.to - window.from) * Refill \in Int /\ RateLimit * Cost \in Int /\ 0 * Cost = 0
    BY <1>2
<1>5. WindowIsBounded
    BY <1>3, <1>4 DEF LimiterInit, WindowIsBounded
<1> QED
    BY <1>1, <1>5 DEF LimiterInit, LimiterInv, Balanced

\* Refills over adjacent periods add up, and a longer period brings no less.
LEMMA RefillsAdd ==
    ASSUME NEW a \in Int, NEW b \in Int, NEW c \in Int
    PROVE  (b - a) * Refill + (c - b) * Refill = (c - a) * Refill
BY LimiterAssumption DEF LimiterAssumption

LEMMA RefillsGrow ==
    ASSUME NEW a \in Int, NEW b \in Int, a <= b
    PROVE  a * Refill <= b * Refill
BY LimiterAssumption DEF LimiterAssumption

LEMMA CostsAdd == ASSUME NEW k \in Int PROVE (k + 1) * Cost = k * Cost + Cost
BY LimiterAssumption DEF LimiterAssumption

\* One more admission in the window: the arithmetic.  x are the tokens before,
\* from the last update at time l, and y the tokens after it.
LEMMA OneMoreFits ==
    ASSUME NEW x \in Int, NEW l \in Int, NEW moment \in Int, NEW y \in Int, NEW k \in Nat,
           NEW from \in Int, NEW to \in Int,
           from <= moment, moment <= to, 0 <= y,
           y <= RateLimit * Cost - Cost,
           k > 0 => y <= x + (moment - l) * Refill - Cost,
           k > 0 => x + (from - l) * Refill + k * Cost <= RateLimit * Cost
    PROVE  /\ y + (from - moment) * Refill + (k + 1) * Cost <= RateLimit * Cost
           /\ (k + 1) * Cost <= RateLimit * Cost + (to - from) * Refill
<1> USE LimiterAssumption DEF LimiterAssumption
<1>1. (k + 1) * Cost = k * Cost + Cost
    BY CostsAdd
<1>2. (moment - l) * Refill + (from - moment) * Refill = (from - l) * Refill
    BY RefillsAdd
<1>3. (from - moment) * Refill + (moment - from) * Refill = 0
    BY RefillsAdd, (from - from) * Refill = 0
<1>4. (from - moment) * Refill <= 0
    BY RefillsGrow, 0 * Refill = 0
<1>5. (moment - from) * Refill <= (to - from) * Refill
    BY RefillsGrow
<1>6. /\ (moment - l) * Refill \in Int /\ (from - moment) * Refill \in Int /\ (from - l) * Refill \in Int
      /\ (moment - from) * Refill \in Int /\ (to - from) * Refill \in Int
      /\ k * Cost \in Int /\ RateLimit * Cost \in Int
    OBVIOUS
<1> DEFINE back == (from - moment) * Refill
           paid == k * Cost
           limit == RateLimit * Cost
<1>7. y + back + (paid + Cost) <= limit
  <2>1. CASE k > 0
      BY <2>1, <1>2, <1>6
  <2>2. CASE k = 0
      BY <2>2, <1>4, <1>6
  <2> QED
      BY <2>1, <2>2
<1>8. paid + Cost <= limit + (to - from) * Refill
    BY <1>7, <1>3, <1>5, <1>6
<1> QED
    BY <1>1, <1>7, <1>8

\* An access that admits nothing in the window.
LEMMA NoneMoreFits ==
    ASSUME NEW x \in Int, NEW l \in Int, NEW moment \in Int, NEW y \in Int, NEW k \in Nat,
           NEW from \in Int,
           y <= x + (moment - l) * Refill,
           x + (from - l) * Refill + k * Cost <= RateLimit * Cost
    PROVE  y + (from - moment) * Refill + k * Cost <= RateLimit * Cost
<1> USE LimiterAssumption DEF LimiterAssumption
<1>1. (moment - l) * Refill + (from - moment) * Refill = (from - l) * Refill
    BY RefillsAdd
<1>2. /\ (moment - l) * Refill \in Int /\ (from - moment) * Refill \in Int /\ (from - l) * Refill \in Int
      /\ k * Cost \in Int /\ RateLimit * Cost \in Int
    OBVIOUS
<1> QED
    BY <1>1, <1>2

\* What an access under the lock does to the bucket it is about.
Accessed(r, y, n) ==
    /\ request[r].at = "timed"
    /\ Store(request[r].for, y, request[r].now)
    /\ Answer(r, n)

LEMMA LimiterAccess ==
    ASSUME LimiterInv, NEW r \in Requests, NEW y \in Int, NEW n \in {0, 1}, Accessed(r, y, n),
           LET i == request[r].for  moment == request[r].now IN
           /\ n = 1 => 0 <= y /\ y <= RateLimit * Cost - Cost
           /\ bucket[i] # NoBucket =>
                 y <= bucket[i].tokens + (moment - bucket[i].last) * Refill - n * Cost
           /\ bucket[i] = NoBucket => n = 1
    PROVE  LimiterInv'
<1> USE LimiterAssumption DEF LimiterAssumption, Accessed
<1>0. PICK i \in Identifiers, moment \in Times : request[r].for = i /\ request[r].now = moment
    BY DEF LimiterInv, LimiterTypeOK
<1> DEFINE k == admitted[i]
           x == bucket[i].tokens
           l == bucket[i].last
<1>1. /\ i \in Identifiers /\ moment \in Times /\ moment \in Int /\ k \in Nat
      /\ window.from \in Int /\ window.to \in Int /\ window.to - window.from \in Int
      /\ bucket[i] # NoBucket => x \in Int /\ l \in Int
    BY DEF LimiterInv, LimiterTypeOK, Times
<1>2. /\ bucket' = [bucket EXCEPT ![i] = [tokens |-> y, last |-> moment]]
      /\ window' = window
      /\ admitted' = IF InWindow(moment) THEN [admitted EXCEPT ![i] = @ + n] ELSE admitted
    BY <1>0 DEF Store, Answer
<1>3. LimiterTypeOK'
    BY <1>1, <1>2 DEF LimiterInv, LimiterTypeOK, Answer
<1>4. [tokens |-> y, last |-> moment] # NoBucket
    BY <1>1 DEF Times
<1>5. bucket[i] = NoBucket => k = 0
    BY <1>1 DEF LimiterInv, Balanced
<1>6. ASSUME NEW m \in Int, admitted'[i] = m, bucket'[i] = [tokens |-> y, last |-> moment],
             m > 0 => y + (window.from - moment) * Refill + m * Cost <= RateLimit * Cost
      PROVE  Balanced(i)'
  <2>1. /\ bucket'[i] # NoBucket /\ bucket'[i].tokens = y /\ bucket'[i].last = moment
        /\ window'.from = window.from
      BY <1>6, <1>4, <1>2
  <2>2. (bucket[i].tokens + (window.from - bucket[i].last) * Refill + admitted[i] * Cost)'
           = y + (window.from - moment) * Refill + m * Cost
      BY <2>1, <1>6
  <2> QED
      BY <1>6, <2>1, <2>2 DEF Balanced
<1>7. /\ Balanced(i)'
      /\ admitted'[i] * Cost <= RateLimit * Cost + (window.to - window.from) * Refill
  <2>1. CASE n = 1 /\ InWindow(moment)
    <3>1. admitted'[i] = k + 1 /\ bucket'[i] = [tokens |-> y, last |-> moment]
        BY <2>1, <1>1, <1>2 DEF LimiterInv, LimiterTypeOK
    <3>2. k > 0 => /\ x \in Int /\ l \in Int
                   /\ x + (window.from - l) * Refill + k * Cost <= RateLimit * Cost
                   /\ y <= x + (moment - l) * Refill - Cost
        BY <2>1, <1>0, <1>1, <1>5 DEF LimiterInv, Balanced
    <3>3. /\ y + (window.from - moment) * Refill + (k + 1) * Cost <= RateLimit * Cost
          /\ (k + 1) * Cost <= RateLimit * Cost + (window.to - window.from) * Refill
      <4>1. CASE k > 0
          BY <4>1, <2>1, <3>2, <1>1, OneMoreFits DEF InWindow
      <4>2. CASE k = 0
        <5>1. \A f \in Int, t \in Int : f <= moment /\ moment <= t =>
                 /\ y + (f - moment) * Refill + (k + 1) * Cost <= RateLimit * Cost
                 /\ (k + 1) * Cost <= RateLimit * Cost + (t - f) * Refill
            BY <4>2, <2>1, <1>1, OneMoreFits
        <5> QED
            BY <5>1, <2>1, <1>1 DEF InWindow
      <4> QED
          BY <4>1, <4>2, <1>1
    <3>4. k + 1 \in Int /\ k + 1 > 0
        BY <1>1
    <3>5. Balanced(i)'
      <4> HIDE DEF k
      <4> QED
          BY <1>6, <3>1, <3>3, <3>4
    <3> QED
        BY <3>1, <3>3, <3>5
  <2>2. CASE ~(n = 1 /\ InWindow(moment))
    <3>1. admitted'[i] = k /\ bucket'[i] = [tokens |-> y, last |-> moment]
        BY <2>2, <1>1, <1>2 DEF LimiterInv, LimiterTypeOK
    <3>2. k * Cost <= RateLimit * Cost + (window.to - window.from) * Refill
        BY <1>1 DEF LimiterInv, WindowIsBounded
    <3>3. ASSUME k > 0
          PROVE  y + (window.from - moment) * Refill + k * Cost <= RateLimit * Cost
      <4>1. /\ x \in Int /\ l \in Int
            /\ x + (window.from - l) * Refill + k * Cost <= RateLimit * Cost
          BY <3>3, <1>1, <1>5 DEF LimiterInv, Balanced
      <4>2. y <= x + (moment - l) * Refill
        <5>1. y <= x + (moment - l) * Refill - n * Cost /\ n * Cost >= 0 /\ n * Cost \in Int
            BY <3>3, <1>0, <1>5
        <5>2. (moment - l) * Refill \in Int
            BY <4>1, <1>1
        <5> QED
            BY <5>1, <5>2, <4>1
      <4> QED
          BY <4>1, <4>2, <1>1, NoneMoreFits
    <3>4. Balanced(i)'
      <4> HIDE DEF k
      <4> QED
          BY <1>1, <1>6, <3>1, <3>3
    <3> QED
        BY <3>1, <3>2, <3>4
  <2> QED
      BY <2>1, <2>2
<1>8. ASSUME NEW j \in Identifiers, j # i
      PROVE  /\ Balanced(j)'
             /\ admitted'[j] * Cost <= RateLimit * Cost + (window.to - window.from) * Refill
  <2>1. admitted'[j] = admitted[j] /\ bucket'[j] = bucket[j]
      BY <1>1, <1>2, <1>8 DEF LimiterInv, LimiterTypeOK
  <2>2. Balanced(j) /\ admitted[j] * Cost <= RateLimit * Cost + (window.to - window.from) * Refill
      BY DEF LimiterInv, WindowIsBounded
  <2> QED
      BY <2>1, <2>2, <1>2 DEF Balanced
<1>9. WindowIsBounded' /\ \A j \in Identifiers : Balanced(j)'
  <2> QED
      BY <1>2, <1>7, <1>8 DEF WindowIsBounded
<1> QED
    BY <1>3, <1>9 DEF LimiterInv

LEMMA LimiterStep == LimiterInv /\ [LimiterNext]_limiterVars => LimiterInv'
<1> SUFFICES ASSUME LimiterInv, [LimiterNext]_limiterVars PROVE LimiterInv'
    OBVIOUS
<1> USE LimiterAssumption DEF LimiterAssumption
<1>1. CASE Tick
    BY <1>1 DEF Tick, LimiterInv, LimiterTypeOK, Times, Balanced, WindowIsBounded
<1>2. ASSUME NEW r \in Requests, ReadTime(r) PROVE LimiterInv'
    BY <1>2 DEF ReadTime, LimiterInv, LimiterTypeOK, Times, Balanced, WindowIsBounded
<1>3. ASSUME NEW r \in Requests, request[r].at = "timed"
      PROVE  /\ request[r].for \in Identifiers /\ request[r].now \in Int
             /\ bucket[request[r].for] # NoBucket =>
                   bucket[request[r].for].tokens \in Int /\ bucket[request[r].for].last \in Int
    BY <1>3 DEF LimiterInv, LimiterTypeOK, Times
<1>4. ASSUME NEW r \in Requests, AdmitFirst(r) PROVE LimiterInv'
  <2> DEFINE y == (RateLimit - 1) * Cost
  <2>1. y \in Int /\ 0 <= y /\ y <= RateLimit * Cost - Cost
    <3>1. RateLimit - 1 \in Nat
        OBVIOUS
    <3>2. (RateLimit - 1 + 1) * Cost = y + Cost
        BY <3>1, CostsAdd
    <3> QED
        BY <3>1, <3>2
  <2>2. Accessed(r, y, 1) /\ bucket[request[r].for] = NoBucket
      BY <1>4 DEF AdmitFirst, Accessed
  <2> QED
      BY <2>1, <2>2, LimiterAccess
<1>5. ASSUME NEW i \in Identifiers, NEW moment \in Int, bucket[i].tokens \in Int, bucket[i].last \in Int
      PROVE  /\ Refilled(i, moment) \in Int /\ Refilled(i, moment) <= RateLimit * Cost
             /\ Refilled(i, moment) <= bucket[i].tokens + (moment - bucket[i].last) * Refill
  <2>1. (moment - bucket[i].last) * Refill \in Int /\ RateLimit * Cost \in Int
      BY <1>5
  <2> QED
      BY <1>5, <2>1 DEF Refilled, Least
<1>6. ASSUME NEW r \in Requests, Admit(r) PROVE LimiterInv'
  <2> DEFINE i == request[r].for
             moment == request[r].now
             y == Refilled(i, moment) - Cost
  <2>1. i \in Identifiers /\ moment \in Int /\ bucket[i].tokens \in Int /\ bucket[i].last \in Int
        /\ bucket[i] # NoBucket
      BY <1>6, <1>3 DEF Admit
  <2>2. /\ Refilled(i, moment) \in Int /\ Refilled(i, moment) <= RateLimit * Cost
        /\ Refilled(i, moment) <= bucket[i].tokens + (moment - bucket[i].last) * Refill
      BY <2>1, <1>5
  <2>3. Accessed(r, y, 1) /\ Refilled(i, moment) >= Cost
      BY <1>6 DEF Admit, Accessed
  <2>4. /\ y \in Int /\ 0 <= y /\ y <= RateLimit * Cost - Cost
        /\ y <= bucket[i].tokens + (moment - bucket[i].last) * Refill - 1 * Cost
    <3>1. (moment - bucket[i].last) * Refill \in Int /\ RateLimit * Cost \in Int
        BY <2>1
    <3> QED
        BY <2>1, <2>2, <2>3, <3>1
  <2> HIDE DEF y
  <2> QED
      BY <2>1, <2>3, <2>4, LimiterAccess
<1>7. ASSUME NEW r \in Requests, Reject(r) PROVE LimiterInv'
  <2> DEFINE i == request[r].for
             moment == request[r].now
             y == Refilled(i, moment)
  <2>1. i \in Identifiers /\ moment \in Int /\ bucket[i].tokens \in Int /\ bucket[i].last \in Int
        /\ bucket[i] # NoBucket
      BY <1>7, <1>3 DEF Reject
  <2>2. y \in Int /\ y <= bucket[i].tokens + (moment - bucket[i].last) * Refill - 0 * Cost
    <3>1. (moment - bucket[i].last) * Refill \in Int
        BY <2>1
    <3> QED
        BY <2>1, <1>5, <3>1
  <2>3. Accessed(r, y, 0)
      BY <1>7 DEF Reject, Accessed
  <2> HIDE DEF y
  <2> QED
      BY <2>1, <2>2, <2>3, LimiterAccess
<1>8. CASE UNCHANGED limiterVars
    BY <1>8 DEF limiterVars, LimiterInv, LimiterTypeOK, Balanced, WindowIsBounded
<1> QED
    BY <1>1, <1>2, <1>4, <1>6, <1>7, <1>8 DEF LimiterNext

\* The types of the limiter's state are kept, whatever the limit and the refill.
THEOREM LimiterTypeCorrect == LimiterSpec => []LimiterTypeOK
<1>1. LimiterInv => LimiterTypeOK
    BY DEF LimiterInv
<1> QED
    BY <1>1, LimiterStart, LimiterStep, PTL DEF LimiterSpec

\* In any window of time, an identifier's requests are admitted at most as often
\* as a full bucket and the refill of the window allow, for any number of
\* requests served in any order, any limit and any refill.
THEOREM AdmissionsAreBounded == LimiterSpec => []WindowIsBounded
<1>1. LimiterInv => WindowIsBounded
    BY DEF LimiterInv
<1> QED
    BY <1>1, LimiterStart, LimiterStep, PTL DEF LimiterSpec

---------------------------------------------------------------------------
(* The event bus                                                           *)

\* A published event is in the queue, in the hands of a thread or settled,
\* unless a clear() dropped it.
Accounted(e) ==
    /\ progress[e] = "CREATED" => publisher[e] = NoEvent
    /\ progress[e] = "QUEUED" => e \in dropped \/ \E n \in Nat : <<e, n>> \in pending
    /\ progress[e] = "PROCESSING" => \E t \in Publishers : e \in EventsInHand(t)

BusInv == BusTypeOK /\ \A e \in Events : Accounted(e)

LEMMA BusStart == BusInit => BusInv
BY DEF BusInit, BusInv, BusTypeOK, Accounted, Lists

\* The events of a list of calls.
Carried(s) == {s[i].event : i \in 1..Len(s)} \ {NoEvent}

LEMMA CarriedByAppended ==
    ASSUME NEW s \in Seq(Call), NEW c \in Call
    PROVE  /\ Append(s, c) \in Seq(Call)
           /\ Carried(Append(s, c)) = Carried(s) \cup ({c.event} \ {NoEvent})
<1>1. /\ Append(s, c) \in Seq(Call) /\ Len(Append(s, c)) = Len(s) + 1 /\ Len(s) \in Nat
      /\ \A i \in 1..Len(s) : Append(s, c)[i] = s[i]
      /\ Append(s, c)[Len(s) + 1] = c
    OBVIOUS
<1> DEFINE n == Len(s)
<1>2. \A i : i \in 1..(n + 1) <=> i \in 1..n \/ i = n + 1
  <2>1. n \in Nat
      BY <1>1
  <2> HIDE DEF n
  <2> QED
      BY <2>1
<1> QED
    BY <1>1, <1>2 DEF Carried

LEMMA CarriedByOuter ==
    ASSUME NEW s \in Seq(Call), s # <<>>
    PROVE  /\ SubSeq(s, 1, Len(s) - 1) \in Seq(Call) /\ s[Len(s)] \in Call
           /\ Carried(s) = Carried(SubSeq(s, 1, Len(s) - 1)) \cup ({s[Len(s)].event} \ {NoEvent})
<1> DEFINE n == Len(s)
           o == SubSeq(s, 1, n - 1)
<1>1. /\ n \in Nat /\ n > 0 /\ s[n] \in Call
      /\ o \in Seq(Call) /\ Len(o) = n - 1
      /\ \A i \in 1..(n - 1) : o[i] = s[i]
  <2>1. n \in Nat /\ n > 0
      OBVIOUS
  <2>2. s[n] \in Call
      BY <2>1
  <2>3. Len(o) = n - 1
    <3>1. CASE n = 1
      <4>1. o = SubSeq(s, 1, 0) /\ Len(SubSeq(s, 1, 0)) = 0
          BY <3>1
      <4> QED
          BY <3>1, <4>1
    <3>2. CASE n > 1
        BY <2>1, <3>2
    <3> HIDE DEF n, o
    <3> QED
        BY <2>1, <3>1, <3>2
  <2>4. \A i \in 1..(n - 1) : o[i] = s[i]
      BY <2>1
  <2>5. o \in Seq(Call)
      BY <2>1
  <2> QED
      BY <2>1, <2>2, <2>3, <2>4, <2>5
<1>2. \A i : i \in 1..n <=> i \in 1..(n - 1) \/ i = n
  <2> HIDE DEF n
  <2> QED
      BY <1>1
<1> QED
    BY <1>1, <1>2 DEF Carried

LEMMA HandsAreCarried == \A t : EventsInHand(t) = Carried(calls[t])
BY DEF EventsInHand, Carried

\* A call is opened: t has its event in hand besides what it had.
LEMMA CallOpens ==
    ASSUME BusTypeOK, NEW t \in Publishers, NEW c \in Call,
           calls' = [calls EXCEPT ![t] = Append(@, c)]
    PROVE  /\ calls' \in [Publishers -> Seq(Call)]
           /\ c.event # NoEvent => c.event \in EventsInHand(t)'
           /\ \A u \in Publishers : EventsInHand(u) \subseteq EventsInHand(u)'
<1>1. calls[t] \in Seq(Call) /\ calls \in [Publishers -> Seq(Call)]
    BY DEF BusTypeOK
<1>2. calls'[t] = Append(calls[t], c) /\ \A u \in Publishers \ {t} : calls'[u] = calls[u]
    BY <1>1
<1>3. calls'[t] \in Seq(Call) /\ Carried(calls'[t]) = Carried(calls[t]) \cup ({c.event} \ {NoEvent})
    BY <1>1, <1>2, CarriedByAppended
<1>4. \A u : EventsInHand(u) = Carried(calls[u]) /\ EventsInHand(u)' = Carried(calls'[u])
    BY DEF EventsInHand, Carried
<1> QED
    BY <1>1, <1>2, <1>3, <1>4

\* The innermost call is closed: no other event leaves t's hands.
LEMMA CallCloses ==
    ASSUME BusTypeOK, NEW t \in Publishers, calls[t] # <<>>,
           calls' = [calls EXCEPT ![t] = Outer(t)]
    PROVE  /\ calls' \in [Publishers -> Seq(Call)] /\ Innermost(t) \in Call
           /\ \A u \in Publishers : EventsInHand(u) \subseteq EventsInHand(u)' \cup {Innermost(t).event}
           /\ Innermost(t).event = NoEvent =>
                 \A u \in Publishers : EventsInHand(u) \subseteq EventsInHand(u)'
<1>1. calls[t] \in Seq(Call) /\ calls \in [Publishers -> Seq(Call)]
    BY DEF BusTypeOK
<1>2. calls'[t] = Outer(t) /\ \A u \in Publishers \ {t} : calls'[u] = calls[u]
    BY <1>1
<1>3. /\ calls'[t] \in Seq(Call) /\ Innermost(t) \in Call
      /\ Carried(calls[t]) = Carried(calls'[t]) \cup ({Innermost(t).event} \ {NoEvent})
    BY <1>1, <1>2, CarriedByOuter DEF Outer, Innermost, Front, Last
<1>4. \A u : EventsInHand(u) = Carried(calls[u]) /\ EventsInHand(u)' = Carried(calls'[u])
    BY DEF EventsInHand, Carried
<1> QED
    BY <1>1, <1>2, <1>3, <1>4

\* The innermost call goes on with the same event.
LEMMA CallContinues ==
    ASSUME BusTypeOK, NEW t \in Publishers, calls[t] # <<>>, NEW c \in Call,
           c.event = Innermost(t).event, Continue(t, c)
    PROVE  /\ calls' \in [Publishers -> Seq(Call)]
           /\ \A u \in Publishers : EventsInHand(u) \subseteq EventsInHand(u)'
<1>1. calls[t] \in Seq(Call) /\ calls \in [Publishers -> Seq(Call)]
    BY DEF BusTypeOK
<1>2. calls'[t] = Append(Outer(t), c) /\ \A u \in Publishers \ {t} : calls'[u] = calls[u]
    BY <1>1 DEF Continue
<1>3. /\ Outer(t) \in Seq(Call)
      /\ Carried(calls[t]) = Carried(Outer(t)) \cup ({Innermost(t).event} \ {NoEvent})
    BY <1>1, CarriedByOuter DEF Outer, Innermost, Front, Last
<1>4. calls'[t] \in Seq(Call) /\ Carried(calls'[t]) = Carried(Outer(t)) \cup ({c.event} \ {NoEvent})
    BY <1>2, <1>3, CarriedByAppended
<1>5. \A u : EventsInHand(u) = Carried(calls[u]) /\ EventsInHand(u)' = Carried(calls'[u])
    BY DEF EventsInHand, Carried
<1>6. calls' = [calls EXCEPT ![t] = calls'[t]]
    BY <1>1, <1>2 DEF Continue
<1> QED
    BY <1>1, <1>2, <1>3, <1>4, <1>5, <1>6

\* Nobody's events are forgotten as long as hands, queue and progress of the
\* others stay: the frame of the steps that concern one event, or none.
LEMMA OthersAccounted ==
    ASSUME BusInv, NEW e \in Events,
           progress'[e] = progress[e],
           publisher'[e] = publisher[e],
           dropped \subseteq dropped',
           \A n \in Nat : <<e, n>> \in pending => <<e, n>> \in pending' \/ e \in dropped',
           \A u \in Publishers : e \in EventsInHand(u) => e \in EventsInHand(u)'
    PROVE  Accounted(e)'
<1>1. Accounted(e)
    BY DEF BusInv
<1> QED
    BY <1>1 DEF Accounted

LEMMA BusPublish == ASSUME BusInv, NEW t \in Publishers, NEW e \in Events, Publish(t, e) PROVE BusInv'
<1> USE BusAssumption DEF BusAssumption
<1>1. BusTypeOK'
    BY DEF Publish, BusInv, BusTypeOK
<1>2. calls' = calls /\ dropped' = dropped /\ \A u \in Publishers : EventsInHand(u)' = EventsInHand(u)
    BY DEF Publish, EventsInHand
<1>3. Accounted(e)'
  <2>1. progress'[e] = "QUEUED" /\ counter + 1 \in Nat /\ <<e, counter + 1>> \in pending'
      BY DEF Publish, BusInv, BusTypeOK
  <2> QED
      BY <2>1 DEF Accounted
<1>4. ASSUME NEW f \in Events, f # e PROVE Accounted(f)'
  <2>1. progress'[f] = progress[f] /\ publisher'[f] = publisher[f] /\ pending \subseteq pending'
      BY <1>4 DEF Publish, BusInv, BusTypeOK
  <2> QED
      BY <2>1, <1>2, OthersAccounted
<1> QED
    BY <1>1, <1>3, <1>4 DEF BusInv

\* A step that leaves queue, progress and hands alone.
LEMMA BusUndisturbed ==
    ASSUME BusInv, BusTypeOK',
           UNCHANGED <<pending, progress, publisher, dropped>>,
           \A u \in Publishers : EventsInHand(u) \subseteq EventsInHand(u)'
    PROVE  BusInv'
<1>1. ASSUME NEW e \in Events PROVE Accounted(e)'
    BY OthersAccounted
<1> QED
    BY <1>1 DEF BusInv

LEMMA BusSubscription ==
    ASSUME BusInv, NEW t \in Publishers, NEW k \in Lists, NEW h \in Handlers,
           Subscribe(t, k, h) \/ Unsubscribe(t, k, h)
    PROVE  BusInv'
<1>1. subscribed[k] \in Seq(Handlers)
    BY DEF BusInv, BusTypeOK
<1>2. ASSUME NEW s \in Seq(Handlers), NEW i \in 1..Len(s)
      PROVE  RemoveAt(s, i) \in Seq(Handlers)
  <2>1. Len(s) \in Nat /\ \A j \in 1..Len(s) : s[j] \in Handlers
      OBVIOUS
  <2>2. SubSeq(s, 1, i - 1) \in Seq(Handlers)
      BY <2>1
  <2>3. SubSeq(s, i + 1, Len(s)) \in Seq(Handlers)
      BY <2>1
  <2> QED
      BY <2>2, <2>3 DEF RemoveAt
<1>3. BusTypeOK'
  <2>1. CASE Subscribe(t, k, h)
      BY <2>1, <1>1 DEF Subscribe, BusInv, BusTypeOK
  <2>2. CASE Unsubscribe(t, k, h)
      BY <2>2, <1>1, <1>2 DEF Unsubscribe, BusInv, BusTypeOK
  <2> QED
      BY <2>1, <2>2
<1>4. UNCHANGED <<pending, progress, publisher, dropped, calls>>
    BY DEF Subscribe, Unsubscribe
<1> QED
    BY <1>3, <1>4, BusUndisturbed DEF EventsInHand

LEMMA BusClear == ASSUME BusInv, NEW t \in Publishers, Clear(t) PROVE BusInv'
<1>1. BusTypeOK'
  <2>1. {p[1] : p \in pending} \subseteq Events
      BY DEF BusInv, BusTypeOK
  <2> QED
      BY <2>1 DEF Clear, BusInv, BusTypeOK, Lists
<1>2. ASSUME NEW e \in Events PROVE Accounted(e)'
  <2>1. \A n \in Nat : <<e, n>> \in pending => e \in dropped'
      BY DEF Clear
  <2>2. UNCHANGED <<progress, publisher, calls>> /\ dropped \subseteq dropped'
      BY DEF Clear
  <2> QED
      BY <2>1, <2>2, OthersAccounted DEF EventsInHand
<1> QED
    BY <1>1, <1>2 DEF BusInv

LEMMA BusTake == ASSUME BusInv, NEW t \in Publishers, Take(t) PROVE BusInv'
<1> USE BusAssumption DEF BusAssumption
<1> DEFINE c(e) == [event |-> e, rest |-> HandlersForEvent, inside |-> FALSE, failed |-> FALSE]
<1>1. PICK p \in pending :
         /\ pending' = pending \ {p}
         /\ \/ /\ progress' = [progress EXCEPT ![p[1]] = "COMPLETED"]
               /\ past' = Append(past, p[1])
               /\ UNCHANGED calls
            \/ /\ progress' = [progress EXCEPT ![p[1]] = "PROCESSING"]
               /\ calls' = [calls EXCEPT ![t] = Append(@, c(p[1]))]
               /\ UNCHANGED past
    BY DEF Take
<1>2. PICK e \in Events, m \in Nat : p = <<e, m>> /\ p[1] = e
    BY DEF BusInv, BusTypeOK
<1>3. c(e) \in Call /\ c(e).event = e /\ e # NoEvent
  <2>1. subscribed["typed"] \in Seq(Handlers) /\ subscribed["any"] \in Seq(Handlers)
      BY DEF BusInv, BusTypeOK, Lists
  <2>2. HandlersForEvent \in Seq(Handlers)
      BY <2>1 DEF HandlersForEvent
  <2> QED
      BY <2>2 DEF Call
<1>4. UNCHANGED <<counter, subscribed, publisher, dropped>>
    BY DEF Take
<1> HIDE DEF c
<1>5. /\ calls' \in [Publishers -> Seq(Call)]
      /\ \A u \in Publishers : EventsInHand(u) \subseteq EventsInHand(u)'
      /\ progress'[e] = "PROCESSING" => e \in EventsInHand(t)'
      /\ progress'[e] \in {"COMPLETED", "PROCESSING"}
  <2>1. progress \in [Events -> {"CREATED", "QUEUED", "PROCESSING", "COMPLETED", "FAILED"}]
      BY DEF BusInv, BusTypeOK
  <2>2. CASE progress' = [progress EXCEPT ![e] = "COMPLETED"] /\ UNCHANGED calls
      BY <2>1, <2>2 DEF BusInv, BusTypeOK, EventsInHand
  <2>3. CASE progress' = [progress EXCEPT ![e] = "PROCESSING"]
             /\ calls' = [calls EXCEPT ![t] = Append(@, c(e))]
    <3>1. BusTypeOK
        BY DEF BusInv
    <3>2. /\ calls' \in [Publishers -> Seq(Call)] /\ e \in EventsInHand(t)'
          /\ \A u \in Publishers : EventsInHand(u) \subseteq EventsInHand(u)'
        BY <3>1, <2>3, <1>3, CallOpens
    <3> QED
        BY <3>2, <2>1, <2>3
  <2> QED
      BY <1>1, <1>2, <2>2, <2>3
<1>6. BusTypeOK'
  <2>0. past \in Seq(Events) /\ pending \subseteq Events \X Nat
      BY DEF BusInv, BusTypeOK
  <2>1. past' \in Seq(Events) /\ pending' \subseteq Events \X Nat
    <3>1. past' = past \/ past' = Append(past, e)
        BY <1>1, <1>2
    <3>2. \A s \in Seq(Events) : Append(s, e) \in Seq(Events)
        OBVIOUS
    <3>3. past' \in Seq(Events)
        BY <2>0, <3>1, <3>2
    <3> QED
        BY <1>1, <2>0, <3>3
  <2>2. progress' \in [Events -> {"CREATED", "QUEUED", "PROCESSING", "COMPLETED", "FAILED"}]
      BY <1>1, <1>2 DEF BusInv, BusTypeOK
  <2> QED
      BY <2>1, <2>2, <1>4, <1>5 DEF BusInv, BusTypeOK
<1>7. Accounted(e)'
    BY <1>5 DEF Accounted
<1>8. ASSUME NEW f \in Events, f # e PROVE Accounted(f)'
  <2>1. progress'[f] = progress[f]
      BY <1>1, <1>2, <1>8 DEF BusInv, BusTypeOK
  <2>2. \A n \in Nat : <<f, n>> \in pending => <<f, n>> \in pending'
      BY <1>1, <1>2, <1>8
  <2> QED
      BY <2>1, <2>2, <1>4, <1>5, OthersAccounted
<1> QED
    BY <1>6, <1>7, <1>8 DEF BusInv

LEMMA BusDispatchAll == ASSUME BusInv, NEW t \in Publishers, DispatchAll(t) PROVE BusInv'
<1>1. [event |-> NoEvent, rest |-> <<>>, inside |-> FALSE, failed |-> FALSE] \in Call
    BY DEF Call
<1>2. BusTypeOK
    BY DEF BusInv
<1>3. /\ calls' \in [Publishers -> Seq(Call)]
      /\ \A u \in Publishers : EventsInHand(u) \subseteq EventsInHand(u)'
    BY <1>1, <1>2, CallOpens DEF DispatchAll
<1>4. BusTypeOK'
    BY <1>2, <1>3 DEF DispatchAll, BusTypeOK
<1> QED
    BY <1>3, <1>4, BusUndisturbed DEF DispatchAll

LEMMA BusDrainEnds == ASSUME BusInv, NEW t \in Publishers, DrainEnds(t) PROVE BusInv'
<1>1. BusTypeOK
    BY DEF BusInv
<1>2. /\ calls' \in [Publishers -> Seq(Call)]
      /\ \A u \in Publishers : EventsInHand(u) \subseteq EventsInHand(u)'
    BY <1>1, CallCloses DEF DrainEnds, Draining
<1>3. BusTypeOK'
    BY <1>1, <1>2 DEF DrainEnds, BusTypeOK
<1> QED
    BY <1>2, <1>3, BusUndisturbed DEF DrainEnds

LEMMA BusDelivery == ASSUME BusInv, NEW t \in Publishers, Deliver(t) \/ HandlerEnds(t) PROVE BusInv'
<1>1. BusTypeOK /\ calls[t] # <<>>
    BY DEF BusInv, Deliver, HandlerEnds, Delivering
<1>2. calls[t] \in Seq(Call)
    BY <1>1 DEF BusTypeOK
<1>3. Innermost(t) \in Call
    BY <1>1, <1>2, CarriedByOuter DEF Innermost, Last
<1>4. \E c \in Call : c.event = Innermost(t).event /\ Continue(t, c)
  <2> DEFINE d == Innermost(t)
  <2>1. CASE Deliver(t)
    <3>1. PICK answer \in {"skip", "raise", "run"} :
             Continue(t, [d EXCEPT !.rest = Tail(@), !.inside = answer = "run",
                                   !.failed = @ \/ answer = "raise"])
        BY <2>1 DEF Deliver
    <3>2. d.rest \in Seq(Handlers) /\ d.rest # <<>> /\ d.failed \in BOOLEAN
        BY <2>1, <1>3 DEF Deliver, Call
    <3>3. Tail(d.rest) \in Seq(Handlers)
        BY <3>2
    <3>4. (answer = "run") \in BOOLEAN /\ (d.failed \/ answer = "raise") \in BOOLEAN
        OBVIOUS
    <3>5. /\ [d EXCEPT !.rest = Tail(@), !.inside = answer = "run",
                       !.failed = @ \/ answer = "raise"] \in Call
          /\ [d EXCEPT !.rest = Tail(@), !.inside = answer = "run",
                       !.failed = @ \/ answer = "raise"].event = d.event
        BY <1>3, <3>3, <3>4 DEF Call
    <3> QED
        BY <3>1, <3>5
  <2>2. CASE HandlerEnds(t)
    <3>1. PICK raised \in BOOLEAN :
             Continue(t, [d EXCEPT !.inside = FALSE, !.failed = @ \/ raised])
        BY <2>2 DEF HandlerEnds
    <3>2. (d.failed \/ raised) \in BOOLEAN
        OBVIOUS
    <3>3. /\ [d EXCEPT !.inside = FALSE, !.failed = @ \/ raised] \in Call
          /\ [d EXCEPT !.inside = FALSE, !.failed = @ \/ raised].event = d.event
        BY <1>3, <3>2 DEF Call
    <3> QED
        BY <3>1, <3>3
  <2> QED
      BY <2>1, <2>2
<1>5. /\ calls' \in [Publishers -> Seq(Call)]
      /\ \A u \in Publishers : EventsInHand(u) \subseteq EventsInHand(u)'
    BY <1>1, <1>4, CallContinues
<1>6. UNCHANGED <<pending, counter, subscribed, progress, past, publisher, dropped>>
    BY DEF Deliver, HandlerEnds
<1>7. BusTypeOK'
    BY <1>1, <1>5, <1>6 DEF BusTypeOK
<1> QED
    BY <1>5, <1>6, <1>7, BusUndisturbed

LEMMA BusConclude == ASSUME BusInv, NEW t \in Publishers, Conclude(t) PROVE BusInv'
<1> DEFINE e == Innermost(t).event
<1>1. BusTypeOK /\ calls[t] # <<>> /\ e # NoEvent
    BY DEF BusInv, Conclude, Delivering
<1>2. /\ calls' \in [Publishers -> Seq(Call)] /\ Innermost(t) \in Call
      /\ \A u \in Publishers : EventsInHand(u) \subseteq EventsInHand(u)' \cup {e}
    BY <1>1, CallCloses DEF Conclude
<1>3. e \in Events
    BY <1>1, <1>2 DEF Call
<1>4. PICK s \in {"FAILED", "COMPLETED"} : progress' = [progress EXCEPT ![e] = s]
    BY DEF Conclude
<1>5. /\ past' = Append(past, e)
      /\ UNCHANGED <<pending, counter, subscribed, publisher, dropped>>
    BY DEF Conclude
<1>6. BusTypeOK'
    BY <1>1, <1>2, <1>3, <1>4, <1>5 DEF BusTypeOK
<1>7. ASSUME NEW f \in Events PROVE Accounted(f)'
  <2>1. CASE f = e
    <3>1. progress'[f] = s
        BY <2>1, <1>1, <1>3, <1>4 DEF BusTypeOK
    <3> QED
        BY <3>1 DEF Accounted
  <2>2. CASE f # e
    <3>1. progress'[f] = progress[f]
        BY <2>2, <1>1, <1>3, <1>4 DEF BusTypeOK
    <3> QED
        BY <3>1, <2>2, <1>2, <1>5, OthersAccounted
  <2> QED
      BY <2>1, <2>2
<1> QED
    BY <1>6, <1>7 DEF BusInv

LEMMA BusStays == BusInv /\ [BusNext]_busVars => BusInv'
<1> SUFFICES ASSUME BusInv, [BusNext]_busVars PROVE BusInv'
    OBVIOUS
<1>1. ASSUME NEW t \in Publishers, BusStep(t) PROVE BusInv'
  <2>1. CASE \E e \in Events : Publish(t, e)
      BY <2>1, BusPublish
  <2>2. CASE \E k \in Lists, h \in Handlers : Subscribe(t, k, h) \/ Unsubscribe(t, k, h)
      BY <2>2, BusSubscription
  <2>3. CASE Clear(t)
      BY <2>3, BusClear
  <2>4. CASE Dispatch(t) \/ TakeNext(t)
      BY <2>4, BusTake DEF Dispatch, TakeNext
  <2>5. CASE DispatchAll(t)
      BY <2>5, BusDispatchAll
  <2>6. CASE DrainEnds(t)
      BY <2>6, BusDrainEnds
  <2>7. CASE Deliver(t) \/ HandlerEnds(t)
      BY <2>7, BusDelivery
  <2>8. CASE Conclude(t)
      BY <2>8, BusConclude
  <2> QED
      BY <1>1, <2>1, <2>2, <2>3, <2>4, <2>5, <2>6, <2>7, <2>8 DEF BusStep
<1>2. CASE UNCHANGED busVars
    BY <1>2 DEF busVars, BusInv, BusTypeOK, Accounted, EventsInHand
<1> QED
    BY <1>1, <1>2 DEF BusNext

\* The types of the bus's state are kept, for any threads, events and nesting.
THEOREM BusTypeCorrect == BusSpec => []BusTypeOK
<1>1. BusInv => BusTypeOK
    BY DEF BusInv
<1> QED
    BY <1>1, BusStart, BusStays, PTL DEF BusSpec

LEMMA DrainIsThorough ==
    BusInv => \A t \in Publishers : DrainEnds(t) =>
        \A e \in Events : publisher[e] = t => Settled(e) \/ e \in dropped \cup EventsInHand(t)
<1> SUFFICES ASSUME BusInv, NEW t \in Publishers, DrainEnds(t),
                    NEW e \in Events, publisher[e] = t
             PROVE  Settled(e) \/ e \in dropped \cup EventsInHand(t)
    OBVIOUS
<1>1. Accounted(e) /\ publisher[e] # NoEvent
    BY BusAssumption DEF BusInv, BusAssumption
<1>2. pending = {} /\ \A u \in Publishers : u # t => EventsInHand(u) = {}
    BY DEF DrainEnds, LockOpen
<1>3. progress[e] \in {"QUEUED", "PROCESSING", "COMPLETED", "FAILED"}
    BY <1>1 DEF BusInv, BusTypeOK, Accounted
<1> QED
    BY <1>1, <1>2, <1>3 DEF Accounted, Settled

\* When dispatch_all() returns, the events its caller published are handled,
\* dropped or in the caller's own hands, for any number of threads and any nesting.
THEOREM DrainsHandleOwnEvents == BusSpec => OwnEventsAreHandled
<1>1. BusInv => [\A t \in Publishers : DrainEnds(t) =>
          \A e \in Events : publisher[e] = t => Settled(e) \/ e \in dropped \cup EventsInHand(t)]_busVars
    BY DrainIsThorough
<1> QED
    BY <1>1, BusStart, BusStays, PTL DEF BusSpec, OwnEventsAreHandled
=============================================================================
