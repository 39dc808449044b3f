SPECIFICATION FairSpec
CONSTANTS
  Buckets = {0, 1}
  Hash <- MCHash
  ScratchNodes = 6
  Hosts = {0, 1, 2}
  Flows <- MCFlowsPair
  Classes = {0}
  SumHosts = TRUE
  Sizes = {1}
  Delay = 1
  Stamps <- MCStamps
  MaxWriters = 1
  ExitWindow = {"idle"}
  MaxSlot = 3
  MaxRecords = 3
PROPERTIES Drains ImplementsLedger
CHECK_DEADLOCK FALSE
