SPECIFICATION FairSpec
CONSTANTS
  p1 = p1
  c1 = c1
  c2 = c2
  Commands = {p1}
  Calls = {c1, c2}
  CommandOf <- MCCommandOf
  MaxAttempts = 2
  MaxTokens = 3
  Length <- MCLength
  Absent = Absent
  Nobody = Nobody
INVARIANTS
  SendsBounded
  RefreshSuffices
  FileHoldsToken
PROPERTIES
  CallEnds
VIEW Live
