----------------------------- MODULE BackupJobs -----------------------------
(***************************************************************************)
(* BackupScheduler (backend/recovery/backup_scheduler.py): loop threads    *)
(* that take the time and a copy of the list of jobs, visit the jobs of    *)
(* the copy one by one and call back those whose interval has elapsed.     *)
(* start() never asks whether a loop runs and clears the stop event; stop()*)
(* sets it and joins for five seconds, which a long backup outlasts.  Time *)
(* is monotonic and passes between any two steps.                          *)
(***************************************************************************)
EXTENDS Integers

CONSTANTS Jobs, Loops, NoLoop, NoJob,
          Interval,        \* interval_seconds of each job
          MaxTime          \* bound: the time

ASSUME BackupAssumption ==
    /\ NoLoop \notin Loops /\ NoJob \notin Jobs
    /\ Interval \in [Jobs -> Nat \ {0}]
    /\ MaxTime \in Nat

VARIABLES now,
          stopEvent,       \* _stop_event
          stop,            \* the last call of stop(): it is joining the thread, or it
                           \* has returned, the thread joined or its patience over
          current,         \* _thread
          loop,            \* where each loop thread is
          passTime,        \* "now" of its pass
          snapshot,        \* the jobs of its pass it has yet to visit
          running,         \* the job it calls back
          jobs,            \* each ScheduledJob: not there yet, in _jobs, or removed
          lastRun,         \* last_run of each job, -1 for None
          began,           \* history: the pass time of each job's last completed run,
                           \* -1 before the first
          doubled          \* history: start() was called while a loop was running

backupVars == <<now, stopEvent, stop, current, loop, passTime, snapshot, running, jobs, lastRun,
                began, doubled>>

Running(l) == loop[l] \in {"check", "pass", "wait"}

BackupTypeOK ==
    /\ now \in 0..MaxTime
    /\ stopEvent \in BOOLEAN /\ doubled \in BOOLEAN
    /\ stop \in {"none", "joining", "joined", "overdue"}
    /\ current \in Loops \cup {NoLoop}
    /\ loop \in [Loops -> {"new", "check", "pass", "wait", "ended"}]
    /\ passTime \in [Loops -> 0..MaxTime]
    /\ snapshot \in [Loops -> SUBSET Jobs]
    /\ running \in [Loops -> Jobs \cup {NoJob}]
    /\ jobs \in [Jobs -> {"none", "listed", "removed"}]
    /\ lastRun \in [Jobs -> -1..MaxTime] /\ began \in [Jobs -> -1..MaxTime]

BackupInit ==
    /\ now = 0
    /\ stopEvent = FALSE /\ doubled = FALSE
    /\ stop = "none" /\ current = NoLoop
    /\ loop = [l \in Loops |-> "new"]
    /\ passTime = [l \in Loops |-> 0]
    /\ snapshot = [l \in Loops |-> {}] /\ running = [l \in Loops |-> NoJob]
    /\ jobs = [j \in Jobs |-> "none"]
    /\ lastRun = [j \in Jobs |-> -1] /\ began = [j \in Jobs |-> -1]

AddJob(j) ==
    /\ jobs[j] = "none"
    /\ jobs' = [jobs EXCEPT ![j] = "listed"]
    /\ UNCHANGED <<now, stopEvent, stop, current, loop, passTime, snapshot, running, lastRun,
                   began, doubled>>

RemoveJob(j) ==
    /\ jobs[j] = "listed"
    /\ jobs' = [jobs EXCEPT ![j] = "removed"]
    /\ UNCHANGED <<now, stopEvent, stop, current, loop, passTime, snapshot, running, lastRun,
                   began, doubled>>

\* start(): a new thread, whatever became of the one before.
StartLoop(l) ==
    /\ loop[l] = "new" /\ stop # "joining"
    /\ stopEvent' = FALSE /\ stop' = "none"
    /\ current' = l
    /\ loop' = [loop EXCEPT ![l] = "check"]
    /\ doubled' = (doubled \/ \E k \in Loops : Running(k))
    /\ UNCHANGED <<now, passTime, snapshot, running, jobs, lastRun, began>>

\* stop(): the event, and a join ...
StopLoops ==
    /\ stop # "joining"
    /\ stopEvent' = TRUE /\ stop' = "joining"
    /\ UNCHANGED <<now, current, loop, passTime, snapshot, running, jobs, lastRun, began,
                   doubled>>

\* ... that ends with the thread ...
JoinLoop ==
    /\ stop = "joining"
    /\ current # NoLoop => ~Running(current)
    /\ stop' = "joined"
    /\ UNCHANGED <<now, stopEvent, current, loop, passTime, snapshot, running, jobs, lastRun,
                   began, doubled>>

\* ... or after five seconds.
JoinTimesOut ==
    /\ stop = "joining" /\ current # NoLoop
    /\ stop' = "overdue"
    /\ UNCHANGED <<now, stopEvent, current, loop, passTime, snapshot, running, jobs, lastRun,
                   began, doubled>>

\* while not self._stop_event.is_set()
EndLoop(l) ==
    /\ loop[l] = "check" /\ stopEvent
    /\ loop' = [loop EXCEPT ![l] = "ended"]
    /\ UNCHANGED <<now, stopEvent, stop, current, passTime, snapshot, running, jobs,
                   lastRun, began, doubled>>

\* The time and the copy of the list.  The lock is held for the copy only.
BeginPass(l) ==
    /\ loop[l] = "check" /\ ~stopEvent
    /\ loop' = [loop EXCEPT ![l] = "pass"]
    /\ passTime' = [passTime EXCEPT ![l] = now]
    /\ snapshot' = [snapshot EXCEPT ![l] = {j \in Jobs : jobs[j] = "listed"}]
    /\ UNCHANGED <<now, stopEvent, stop, current, running, jobs, lastRun, began, doubled>>

Elapsed(l, j) == lastRun[j] = -1 \/ passTime[l] - lastRun[j] >= Interval[j]

Visits(l, j) == loop[l] = "pass" /\ running[l] = NoJob /\ j \in snapshot[l]

SkipJob(l, j) ==
    /\ Visits(l, j) /\ ~Elapsed(l, j)
    /\ snapshot' = [snapshot EXCEPT ![l] = @ \ {j}]
    /\ UNCHANGED <<now, stopEvent, stop, current, loop, passTime, running, jobs, lastRun,
                   began, doubled>>

\* The callback starts to take the backup.
BeginBackup(l, j) ==
    /\ Visits(l, j) /\ Elapsed(l, j)
    /\ snapshot' = [snapshot EXCEPT ![l] = @ \ {j}]
    /\ running' = [running EXCEPT ![l] = j]
    /\ UNCHANGED <<now, stopEvent, stop, current, loop, passTime, jobs, lastRun, began,
                   doubled>>

\* Faulty variant: last_run is set by the first run only.
CountFirstRun(l) ==
    /\ running[l] # NoJob
    /\ lastRun' = [lastRun EXCEPT ![running[l]] = IF @ = -1 THEN passTime[l] ELSE @]
    /\ began' = [began EXCEPT ![running[l]] = passTime[l]]
    /\ running' = [running EXCEPT ![l] = NoJob]
    /\ UNCHANGED <<now, stopEvent, stop, current, loop, passTime, snapshot, jobs, doubled>>

\* It returns: the job ran at the time its pass began.
BackupTaken(l) ==
    /\ running[l] # NoJob
    /\ lastRun' = [lastRun EXCEPT ![running[l]] = passTime[l]]
    /\ began' = [began EXCEPT ![running[l]] = passTime[l]]
    /\ running' = [running EXCEPT ![l] = NoJob]
    /\ UNCHANGED <<now, stopEvent, stop, current, loop, passTime, snapshot, jobs, doubled>>

\* Or it raises, and the job is due again at once.
BackupFails(l) ==
    /\ running[l] # NoJob
    /\ running' = [running EXCEPT ![l] = NoJob]
    /\ UNCHANGED <<now, stopEvent, stop, current, loop, passTime, snapshot, jobs,
                   lastRun, began, doubled>>

\* _stop_event.wait(timeout=1.0), and the next pass.
EndPass(l) ==
    /\ loop[l] = "pass" /\ running[l] = NoJob /\ snapshot[l] = {}
    /\ loop' = [loop EXCEPT ![l] = "wait"]
    /\ UNCHANGED <<now, stopEvent, stop, current, passTime, snapshot, running, jobs,
                   lastRun, began, doubled>>

Wake(l) ==
    /\ loop[l] = "wait"
    /\ loop' = [loop EXCEPT ![l] = "check"]
    /\ UNCHANGED <<now, stopEvent, stop, current, passTime, snapshot, running, jobs,
                   lastRun, began, doubled>>

TimePasses ==
    /\ now < MaxTime
    /\ now' = now + 1
    /\ UNCHANGED <<stopEvent, stop, current, loop, passTime, snapshot, running, jobs,
                   lastRun, began, doubled>>

LoopStep(l) ==
    \/ EndLoop(l) \/ BeginPass(l) \/ EndPass(l) \/ Wake(l) \/ BackupTaken(l)
    \/ \E j \in Jobs : SkipJob(l, j) \/ BeginBackup(l, j)

BackupNext ==
    \/ \E l \in Loops : LoopStep(l) \/ BackupFails(l) \/ StartLoop(l)
    \/ \E j \in Jobs : AddJob(j) \/ RemoveJob(j)
    \/ StopLoops \/ JoinLoop \/ JoinTimesOut
    \/ TimePasses

BackupSpec == BackupInit /\ [][BackupNext]_backupVars

---------------------------------------------------------------------------
\* The backups of a job are its interval apart, counted from the passes that
\* took them; two loops at once, after a start() that found the last one still
\* running, are the only way to take them closer, or out of order.
BackupsAreApart ==
    [][\A j \in Jobs : began'[j] # began[j] =>
           doubled \/ began[j] = -1 \/ began'[j] - began[j] >= Interval[j]]_backupVars

\* A stop() that outwaits its thread leaves no loop behind that could take a
\* backup, short of such a start: one thread only is ever joined.
JoinedMeansStopped == stop = "joined" /\ ~doubled => \A l \in Loops : ~Running(l)

---------------------------------------------------------------------------
\* backup_scheduler.py:88, stop() "Signals the scheduling thread to stop and
\* waits for it to exit": when it has returned, no thread takes a backup.
StopWaitsForExit == stop \in {"joined", "overdue"} => \A l \in Loops : running[l] = NoJob
=============================================================================
