SPECIFICATION FairSpec
CONSTANTS
  worker = worker
  cli = cli
  r1 = r1
  r2 = r2
  r3 = r3
  Receipts = {r1, r2, r3}
  Runs <- MCRuns
  Timed <- MCTimed
  Limit <- MCCliLimit
  PageSize = 1
  Malformed = {r3}
INVARIANTS
  TypeOK
  PaidOnce
  SoleOwner
  Bookkeeping
  OkRunComplete
  ListingLosesOnlyOldest
PROPERTIES
  LedgerSpec
  RunEnds
VIEW Live
