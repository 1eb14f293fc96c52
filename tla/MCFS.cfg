SPECIFICATION MCSpec
CONSTANTS
  s_ninodes = 3
  LastZone = 6
  NR_INDIRECTS = 2
  LINK_RANGE = 12
  Checkings <- SomeCheckings
  MaxRuns = 3
  NR_PROCS = 3
  NR_FDS = 2
  NR_FILPS = 3
  NR_PIPES = 1
  PIPE_SIZE = 2
  MAX_DRIFT = 1
  root = root
  other = other
  NR_INODES = 4
  NR_SUPERS = 2
  Device = {root, other}
  ROOT_DEV = root
  NO_DEVICE = NO_DEVICE
  NINODES <- FewNodes
  Name = {".", "..", "a", "m"}
  DotName = {".."}
  Task = {0, 2, 3}
  MM_PROC = 0
  FileSlot = {1}
  Uses <- SomeUses
  FirstTree <- SomeTree
  Geometries <- SomeGeometries
  ZoneFile = {1, 2}
CHECK_DEADLOCK FALSE
INVARIANTS WaitsIffSuspended CountsExact NobodyOrphaned PairsMeet UsesCounted LinksExact CrashLeavesNoTornEntry FilesIntact Repaired UntouchedKept
