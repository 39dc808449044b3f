SPECIFICATION Spec
CONSTANTS
  Keys = {1, 2, 3, 4}
  Hash <- MCHash
  Buckets = 2
  PoolSize = 1
  MaxPools = 3
  Children = 1
  Queries <- MCQueries
  Flows <- MCFlows
  MaxRecords = 4
  MaxQueries = 2
INVARIANTS TableSound Conserved WalkExact
CHECK_DEADLOCK FALSE
