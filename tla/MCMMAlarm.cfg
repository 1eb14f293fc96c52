SPECIFICATION MCSpec
CONSTANTS
  NR_PROCS = 5
  Setups <- AlarmSetups
  BeforeTable = FALSE
  NR_HOLES = 4
  CLICKS = 4
  RESERVED = 2
  Sizes = {1}
  InitSize = 1
  Slots = {3, 4}
  INIT_SLOT = 2
  NoImage = NoImage
CHECK_DEADLOCK FALSE
INVARIANT AlarmsAccurate
