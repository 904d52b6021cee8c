SPECIFICATION Spec
CONSTANTS
  Receipts = {r1}
  PageSize = 1
  Malformed = {}
  Workers = {w1}
  Clis = {cli}
  FetchTasks = {t1, t2}
  CompanyTasks = {k1}
  MaxRetry = 1
  MaxStops = 1
  NoWorker = NoWorker
INVARIANTS
  RunsFollowLeases
PROPERTIES
  AckedMeansStored
CHECK_DEADLOCK FALSE
