SPECIFICATION MCSpec
CONSTANTS
  d1 = d1
  d2 = d2
  NO_DEV = NO_DEV
  Dev <- TwoDevs
  Block = {1, 2}
  Meta <- SomeMeta
  Special <- OneDev
  Failure = {"error", "EOF"}
  NR_BUFS = 2
  NR_BUF_HASH = 2
  MaxHeld = 2
  TTY_IN_BYTES = 2
  MAX_OVERRUN = 1
  Users = {u1, u2}
  NoUser = NoUser
  Modes = {"COOKED", "RAW"}
  MaxCount = 1
  MaxLines = 2
  VID_WORDS = 7
  LINE_WIDTH = 3
  SCR_LINES = 2
  TAB_SIZE = 3
  TTY_RAM_WORDS = 2
  Printable = {a, blank}
  BLANK = blank
  Writers = {u1, u2}
  MaxPrint = 3
  NR_DRIVES = 2
  NT = 2
  nr_sectors <- SomeSectors
  nr_blocks <- SomeBlocks
  MAX_ERRORS = 4
  Asked = {5, 9}
  Driven = {"terminal", "screen", "printer", "diskette", "cache"}
CHECK_DEADLOCK FALSE
INVARIANTS   WriterServed FloppyAgrees  MetaOnDisk
PROPERTIES OutputResumes ScreenAsTold WriterRevived SyncFlushes
