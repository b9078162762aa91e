SPECIFICATION ScheduleFairSpec
CONSTANTS
  Schedules = {s1, s2}
  Pollers = {p1}
PROPERTIES EveryDueScheduleRuns
CHECK_DEADLOCK FALSE
