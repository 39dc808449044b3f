SPECIFICATION Spec
CONSTANTS
  Keys = {1, 2, 3}
  NBuckets = 2
  NElems = 2
  qq_size = 3
  timeslot = 2
  refresh = 2
  STALE_M = 0
  RETIRE_M = 1
  CACHE_THRESHOLD = 1
  dump_max_writers = 1
  Confs <- MCConfs
  Steps = {1, 3}
  Flows <- MCFlows
  MaxNow = 8
  MaxRecords = 4
INVARIANTS CacheSound QueueSound Conserved
PROPERTIES NotEarly
CHECK_DEADLOCK FALSE
