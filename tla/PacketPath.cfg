SPECIFICATION PathSpec
CONSTANTS
  StartTime = 10
  MaxTime = 14
  MallocFails = TRUE
  Keys = {1, 2, 3}
  FragBuckets = {0, 1}
  HashFragment <- MCHashFragment
  FragNodes = 3
  IPF_TIMEOUT = 1
  PRUNE_INTERVAL = 2
  EMER_PRUNE_INTERVAL = 1
  PRUNE_OFFSET = 1
  CtNodes = 1
  CONNTRACK_GENERIC_LIFETIME = 2
  FlowBuckets = {0}
  HashFlow <- MCHashFlow
  FlowNodes = 2
  FLOW_GENERIC_LIFETIME = 1
  FLOW_TCPEST_LIFETIME = 2
  FLOW_TCPSYN_LIFETIME = 1
  FLOW_TCPFIN_LIFETIME = 1
  FLOW_TCPRST_LIFETIME = 1
  FLOW_TABLE_PRUNE_INTERVAL = 3
  FLOW_TABLE_EMER_PRUNE_INTERVAL = 1
  Tentatives = 2
  HelperClasses = {1}
  Packets <- MCPackets
  Header <- MCHeader
  FragBytes <- MCFragBytes
  FragLens = {1}
  MixedKeys = {1}
  MaxPackets = 4
CHECK_DEADLOCK FALSE
INVARIANTS TablesSound OwnFragments RoomKept ClassesEarned FlowsExact
