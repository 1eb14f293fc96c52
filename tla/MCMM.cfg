SPECIFICATION MCSpec
CONSTANTS
  NR_PROCS = 6
  Setups <- SomeSetups
  BeforeTable = FALSE
  NR_HOLES = 6
  CLICKS = 12
  RESERVED = 2
  Sizes = {1, 2, 3}
  InitSize = 1
  Slots = {3, 4, 5, 6}
  INIT_SLOT = 2
  NoImage = NoImage
CHECK_DEADLOCK FALSE
INVARIANTS TreeKept AnsweredOnce HolesSeparate HoleSlotLeft
PROPERTIES OrphansCollected ImplementsMemory
