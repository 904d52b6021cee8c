SPECIFICATION Spec
CONSTANTS
  Runs = {p1, p2}
  Worlds <- MCWorlds
  Starts <- MCStarts
  CashSymbols = {"GSPC", "SOX", "MU"}
  Members = {"SOX", "MU"}
  QuoteSymbols = {"NQ"}
  Summer <- MCSummer
  MeanSessions = 2
  Spans = {1, 3}
  SampleSize = 2
  MaxRecords = 3
  NoNum = NoNum
SYMMETRY RunSymmetry
INVARIANTS
  NoLookAhead
  TableAgrees
PROPERTIES
  SavesKeepRecords
CHECK_DEADLOCK FALSE
