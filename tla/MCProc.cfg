SPECIFICATION Spec
CONSTANTS
  NR_TASKS = 4
  NR_PROCS = 4
  LAST_LIVE = 2
  Calls <- MCCalls
  Devices <- MCDevices
  MaxLost = 1
INVARIANTS
  ListsKept
  NoMissedMatch
  PriorityKept
  SignalsReachMM
PROPERTIES
  ImplementsRendezvous
  BusyTasksServed
