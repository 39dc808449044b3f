SPECIFICATION Spec
CONSTANTS
  Buckets = {0, 1}
  Hash <- MCHash
  ScratchNodes = 2
  Hosts = {0, 1, 2}
  Flows <- MCFlows
  Classes = {0, 1}
  SumHosts = FALSE
  Sizes = {1}
  Delay = 0
  Stamps <- MCStamps
  MaxWriters = 1
  ExitWindow = {"idle"}
  MaxSlot = 2
  MaxRecords = 4
INVARIANTS CacheSound WritersBounded Conserved
CHECK_DEADLOCK FALSE
