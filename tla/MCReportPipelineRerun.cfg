SPECIFICATION RerunSpec
CONSTANTS
  worker = worker
  cli = cli
  r1 = r1
  r2 = r2
  r3 = r3
  Receipts = {r1}
  Runs <- MCRuns
  Timed <- MCTimed
  Limit <- MCNoLimit
  PageSize = 1
  Malformed = {}
PROPERTIES
  EveryReportAnalysed
