------------------------- MODULE AutomationSchedule -------------------------
(***************************************************************************)
(* WorkflowScheduler of backend/workflow/automation_engine.py, with the    *)
(* table workflow_schedules of backend/api/sqlite_mock.py.  A thread looks *)
(* through the table twice a second and executes what is due; to move a    *)
(* schedule on it calls create_workflow_schedule again, an INSERT, and     *)
(* schedule_id is the table's primary key.                                 *)
(* start() can meet a thread that stop() left in its pass: several threads *)
(* may poll.  Nothing ever deletes a schedule.                             *)
(***************************************************************************)
EXTENDS Integers, Sequences

CONSTANTS Schedules,
          Pollers       \* bound on the threads that start() may create

VARIABLES schedules,    \* the rows of workflow_schedules, in their order
          due,          \* those whose next_run has come
          pollOn,       \* _running
          poller,       \* the threads: where, and what is left of their pass
          fired         \* history: schedules executed at least once

scheduleVars == <<schedules, due, pollOn, poller, fired>>

InTable(s) == \E i \in 1..Len(schedules) : schedules[i] = s

ScheduleTypeOK ==
    /\ schedules \in Seq(Schedules)
    /\ due \subseteq Schedules
    /\ pollOn \in BOOLEAN
    /\ poller \in [Pollers -> [at : {"none", "top", "visit", "move", "ended"},
                               rows : Seq(Schedules)]]
    /\ fired \subseteq Schedules

ScheduleInit ==
    /\ schedules = <<>>
    /\ due = {}
    /\ pollOn = FALSE
    /\ poller = [p \in Pollers |-> [at |-> "none", rows |-> <<>>]]
    /\ fired = {}

\* schedule_workflow
ScheduleWorkflow(s) ==
    /\ ~InTable(s)
    /\ schedules' = Append(schedules, s)
    /\ UNCHANGED <<due, pollOn, poller, fired>>

\* The clock reaches next_run.
ComesDue(s) ==
    /\ InTable(s) /\ s \notin due
    /\ due' = due \cup {s}
    /\ UNCHANGED <<schedules, pollOn, poller, fired>>

\* start()
StartPolling(p) ==
    /\ ~pollOn
    /\ poller[p].at = "none"
    /\ pollOn' = TRUE
    /\ poller' = [poller EXCEPT ![p].at = "top"]
    /\ UNCHANGED <<schedules, due, fired>>

\* stop()
StopPolling ==
    /\ pollOn
    /\ pollOn' = FALSE
    /\ UNCHANGED <<schedules, due, poller, fired>>

\* while self._running: list_workflow_schedules
PollTable(p) ==
    /\ poller[p].at = "top"
    /\ poller' = [poller EXCEPT ![p] = IF pollOn THEN [at |-> "visit", rows |-> schedules]
                                               ELSE [at |-> "ended", rows |-> <<>>]]
    /\ UNCHANGED <<schedules, due, pollOn, fired>>

\* The pass is over; the thread sleeps.
PassEnds(p) ==
    /\ poller[p].at = "visit"
    /\ poller[p].rows = <<>>
    /\ poller' = [poller EXCEPT ![p].at = "top"]
    /\ UNCHANGED <<schedules, due, pollOn, fired>>

\* A schedule that is not due is passed over; one that is due is executed.
\* next_run never changes, so the row the thread read is as good as the table's.
VisitSchedule(p) ==
    LET s == Head(poller[p].rows) IN
    /\ poller[p].at = "visit"
    /\ poller[p].rows # <<>>
    /\ IF s \in due
       THEN /\ poller' = [poller EXCEPT ![p].at = "move"]
            /\ fired' = fired \cup {s}
       ELSE /\ poller' = [poller EXCEPT ![p].rows = Tail(@)]
            /\ UNCHANGED fired
    /\ UNCHANGED <<schedules, due, pollOn>>

\* Faulty variant: the exception ends the thread.
InsertAgainAndDie(p) ==
    /\ poller[p].at = "move"
    /\ poller' = [poller EXCEPT ![p] = [at |-> "ended", rows |-> <<>>]]
    /\ UNCHANGED <<schedules, due, pollOn, fired>>

\* create_workflow_schedule: the INSERT meets its own row and raises an
\* IntegrityError; the pass is given up, and the table is as it was.
InsertAgain(p) ==
    /\ poller[p].at = "move"
    /\ poller' = [poller EXCEPT ![p] = [at |-> "top", rows |-> <<>>]]
    /\ UNCHANGED <<schedules, due, pollOn, fired>>

PollStep(p) == PollTable(p) \/ PassEnds(p) \/ VisitSchedule(p) \/ InsertAgain(p)

ScheduleNext ==
    \/ \E s \in Schedules : ScheduleWorkflow(s) \/ ComesDue(s)
    \/ \E p \in Pollers : StartPolling(p) \/ PollStep(p)
    \/ StopPolling

ScheduleSpec == ScheduleInit /\ [][ScheduleNext]_scheduleVars
ScheduleFairness ==
    /\ \A p \in Pollers : WF_scheduleVars(PollStep(p))
    /\ \A s \in Schedules : WF_scheduleVars(ComesDue(s))
ScheduleFairSpec == ScheduleSpec /\ ScheduleFairness

---------------------------------------------------------------------------
\* Once the scheduler is started for good, the first schedule of the table is
\* executed for ever, whatever goes wrong in a pass and whatever threads an
\* earlier stop() left behind.
FirstOfTable(s) == schedules # <<>> /\ Head(schedules) = s
Executing(s) == \E p \in Pollers : poller[p].at = "move" /\ Head(poller[p].rows) = s
FirstScheduleRuns ==
    <>[]pollOn => \A s \in Schedules : FirstOfTable(s) ~> []<>Executing(s)

\* What the scheduler is for: once it is started for good, every schedule that
\* is due is executed.  It is not so: a pass ends at the first that is due.
EveryDueScheduleRuns ==
    <>[]pollOn => \A s \in Schedules : s \in due ~> s \in fired
=============================================================================
