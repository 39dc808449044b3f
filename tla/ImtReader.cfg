SPECIFICATION ImtSpec
CONSTANTS
  NSlots = 2
  MAX_SEQNUM = 3
  PipeCap = 2
  FixedSize = 1
  VarSizes = {0, 1, 2}
  BufEnd = 2
  BufferImmediate = FALSE
  Sampling = TRUE
  Request = TRUE
  CorePid = 7
  MaxRecords = 4
  MaxCommits = 3
  SigintWindow = {"fill", "seq", "num", "pid", "off", "wake", "signal", "protSeq", "protNum", "protPid"}
  CheckCorePid = TRUE
INVARIANTS ImtChannelSound ImtShutdownFlushed
PROPERTIES ImtGapCounted
CHECK_DEADLOCK FALSE
