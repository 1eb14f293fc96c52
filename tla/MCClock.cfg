SPECIFICATION MCSpec
CONSTANTS
  NR_TASKS = 3
  NR_PROCS = 4
  LAST_LIVE = 3
  MaxLost = 2
  SCHED_RATE = 2
  MaxDelta = 2
  Calls <- AlarmCalls
  Devices <- ClockOnly
INVARIANTS TicksConserved AlarmsAhead
PROPERTIES ComputingUsersRun
