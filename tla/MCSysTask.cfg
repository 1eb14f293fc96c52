SPECIFICATION SysSpec
CONSTANTS
  NR_TASKS = 3
  NR_PROCS = 4
  LAST_LIVE = 3
  Calls <- MCCalls
  Devices <- MCDevices
  MaxLost = 0
  MaxDrift = 1
  Unasked = {}
INVARIANTS
  SlotsKept
  
