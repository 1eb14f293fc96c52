SPECIFICATION Spec
CONSTANTS
  NR_TASKS = 4
  NR_PROCS = 4
  LAST_LIVE = 2
  Calls <- MCCalls
  Devices <- MCDevices
  MaxLost = 1
INVARIANT QueuedMessageIntact
