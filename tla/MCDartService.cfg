SPECIFICATION ServiceSpec
CONSTANTS
  Callers <- MCCallers
  Browsers = {b1}
  MaxLines = 6
  Rate = 1
  Burst = 2
  StaleAfter = 2
  Worlds <- MCWorlds
INVARIANT RateHolds
PROPERTIES
  RosterCurrent
  EveryRequestAnswered
  ServerEnds
CHECK_DEADLOCK FALSE
