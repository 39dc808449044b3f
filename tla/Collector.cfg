SPECIFICATION Spec
CONSTANTS
  XFLOW_STATUS_TABLE_MAX_ENTRIES = 4
  SeqWrap = 8
  Exporters <- MCExporters
  StartSeqs = {6}
  Datagrams <- MCDatagrams
  DiskFills = TRUE
  MaxDatagrams = 3
  MaxMishaps = 2
  Rates = {r1, r2}
  Samplers = {0, 1}
SYMMETRY Symmetry
CHECK_DEADLOCK FALSE
INVARIANTS TemplatesKept LostOnlyAfterPadding JudgedRight RateLatest StatusSound
