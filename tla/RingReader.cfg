SPECIFICATION FairSpec
CONSTANTS
  NSlots = 3
  MAX_SEQNUM = 4
  PipeCap = 1
  FixedSize = 1
  VarSizes = {1}
  BufEnd = 2
  BufferImmediate = TRUE
  Sampling = TRUE
  Request = FALSE
  CorePid = 7
  MaxRecords = 2
  MaxCommits = 4
  SigintWindow = {"fill"}
  CheckCorePid = TRUE
  PollTimeouts = TRUE
INVARIANTS TypeOK SleepArmed WholeOrNothing
PROPERTIES SignalledIsRead TakesInOrder
CHECK_DEADLOCK FALSE
