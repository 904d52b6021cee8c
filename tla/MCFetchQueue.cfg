SPECIFICATION FairSpec
CONSTANTS
  Workers = {w1, w2}
  FetchTasks = {t1, t2, t3}
  CompanyTasks = {c1}
  MaxRetry = 1
  MaxStops = 1
  NoWorker = NoWorker
INVARIANTS
  TypeOK
  LeaseSound
PROPERTIES
  FreshStart
  DeletesOnlyWaitingFetches
  TaskSettles
  BootEnds
CHECK_DEADLOCK FALSE
