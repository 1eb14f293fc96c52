SPECIFICATION Spec
CONSTANTS
  NR_TASKS = 4
  NR_PROCS = 1
  SCHED_RATE = 2
  Created <- Started
  Calls <- TaskCalls
INVARIANTS RunnerPicked
PROPERTIES EveryTaskRuns ImplementsRendezvous
