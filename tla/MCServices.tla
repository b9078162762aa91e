----------------------------- MODULE MCServices -----------------------------
(* Eleven services of the backend that do not interact, each on its own: the  *)
(* initial state picks the one that moves, and the others stay as they are. *)
(* The states are those of the eleven models side by side, never a product.   *)
EXTENDS BackgroundTasks, CircuitBreaker, LockManager, WorkflowTimers,
        AutomationSchedule, SequentialWorkflow, ExecutionSchedule, EventBus, RateLimiter,
        WorkflowValidation, Packages

VARIABLE part

Parts == {"background", "breaker", "lock", "timers", "schedule", "sequential", "entries",
          "bus", "limiter", "validation", "packages"}

allVars == <<part, backVars, breakerVars, lockVars, timerVars, scheduleVars, seqVars, entryVars,
             busVars, limiterVars, validationVars, packageVars>>

ServicesInit ==
    /\ part \in Parts
    /\ BackInit /\ BreakerInit /\ TimersInit /\ ScheduleInit /\ SequentialInit /\ EntriesInit
    /\ BusInit
    /\ LimiterInit /\ (part = "limiter" \/ window = [from |-> 0, to |-> 0])
    /\ ValidationInit /\ (part = "validation" \/ graph = [nodes |-> {}, links |-> {}])
    /\ PackagesInit
    /\ LockInit /\ (part = "lock" \/ ~useRedis)

ServicesNext ==
    /\ UNCHANGED part
    /\ \/ /\ part = "background" /\ BackNext
          /\ UNCHANGED <<breakerVars, lockVars, timerVars, scheduleVars, seqVars, entryVars, busVars,
                      limiterVars, validationVars, packageVars>>
       \/ /\ part = "breaker" /\ BreakerNext
          /\ UNCHANGED <<backVars, lockVars, timerVars, scheduleVars, seqVars, entryVars, busVars,
                      limiterVars, validationVars, packageVars>>
       \/ /\ part = "lock" /\ LockNext
          /\ UNCHANGED <<backVars, breakerVars, timerVars, scheduleVars, seqVars, entryVars, busVars,
                      limiterVars, validationVars, packageVars>>
       \/ /\ part = "timers" /\ TimersNext
          /\ UNCHANGED <<backVars, breakerVars, lockVars, scheduleVars, seqVars, entryVars, busVars,
                      limiterVars, validationVars, packageVars>>
       \/ /\ part = "schedule" /\ ScheduleNext
          /\ UNCHANGED <<backVars, breakerVars, lockVars, timerVars, seqVars, entryVars, busVars,
                      limiterVars, validationVars, packageVars>>
       \/ /\ part = "sequential" /\ SequentialNext
          /\ UNCHANGED <<backVars, breakerVars, lockVars, timerVars, scheduleVars, entryVars, busVars,
                      limiterVars, validationVars, packageVars>>
       \/ /\ part = "entries" /\ EntriesNext
          /\ UNCHANGED <<backVars, breakerVars, lockVars, timerVars, scheduleVars, seqVars, busVars,
                      limiterVars, validationVars, packageVars>>
       \/ /\ part = "bus" /\ BusNext
          /\ UNCHANGED <<backVars, breakerVars, lockVars, timerVars, scheduleVars, seqVars, entryVars,
                      limiterVars, validationVars, packageVars>>
       \/ /\ part = "limiter" /\ LimiterNext
          /\ UNCHANGED <<backVars, breakerVars, lockVars, timerVars, scheduleVars, seqVars, entryVars,
                      busVars, validationVars, packageVars>>
       \/ /\ part = "validation" /\ ValidationNext
          /\ UNCHANGED <<backVars, breakerVars, lockVars, timerVars, scheduleVars, seqVars, entryVars,
                      busVars, limiterVars, packageVars>>
       \/ /\ part = "packages" /\ PackagesNext
          /\ UNCHANGED <<backVars, breakerVars, lockVars, timerVars, scheduleVars, seqVars, entryVars,
                      busVars, limiterVars, validationVars>>

\* Each service's fairness, in the behaviours in which it is the one that moves.
ServicesFairness ==
    /\ \A t \in Threads : WF_backVars(part = "background" /\ PoolStep(t))
    /\ \A c \in Callers : WF_breakerVars(part = "breaker" /\ CallStep(c))
    /\ WF_breakerVars(part = "breaker" /\ TimeoutPasses)
    /\ \A p \in Pollers : WF_scheduleVars(part = "schedule" /\ PollStep(p))
    /\ \A s \in Schedules : WF_scheduleVars(part = "schedule" /\ ComesDue(s))

ServicesSpec == ServicesInit /\ [][ServicesNext]_allVars /\ ServicesFairness

---------------------------------------------------------------------------
MCInterval == [e \in Entries |-> 1]
MCMaxOccurrences == [e \in Entries |-> IF e = "twice" THEN 2 ELSE 0]
MCEndTime == [e \in Entries |-> IF e = "until" THEN 2 ELSE Never]
MCTimeout == [e \in Entries |-> 1]
MCUrgency == [e \in Events |-> IF e = "urgent" THEN 0 ELSE 2]

\* The lane "left" has two steps, the others have one.
MCLaneLength == [l \in Lanes |-> IF l = "left" THEN 2 ELSE 1]

Needs(p, vs) == [package |-> p, versions |-> vs]

\* An application that needs a library and a tool, a later one that needs the
\* old library, and a tool that needs a new library or, as it is registered
\* again, the application.
MCReleases ==
    {[package |-> "app", version |-> 1, requires |-> {Needs("lib", {1, 2}), Needs("tool", {1})}],
     [package |-> "app", version |-> 2, requires |-> {Needs("lib", {1}), Needs("tool", {1})}],
     [package |-> "lib", version |-> 1, requires |-> {}],
     [package |-> "lib", version |-> 2, requires |-> {}],
     [package |-> "tool", version |-> 1, requires |-> {Needs("lib", {2})}],
     [package |-> "tool", version |-> 1, requires |-> {Needs("app", {1, 2})}]}
=============================================================================
