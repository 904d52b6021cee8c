SPECIFICATION MarketSpec
CONSTANTS
  Instants <- MCInstants
  Weekend = {3}
  MarineDay = 2
  Pulses = {p1, p2}
  Snappers = {s1, s2}
  NewYear = 8
  Worlds <- MCWorlds
SYMMETRY MarketSymmetry
INVARIANT PastShowsNoLater
CHECK_DEADLOCK FALSE
