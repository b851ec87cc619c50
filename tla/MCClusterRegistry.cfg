SPECIFICATION Spec
CONSTANTS
  k1 = k1  k2 = k2  f1 = f1  d1 = d1  v1 = v1
  Connects = {k1, k2}  Forwards = {f1}  Drops = {d1}  Evicts = {v1}
  MaxEntries = 2  MaxWedges = 1
INVARIANTS
  NoResurrection FlightsAreSound IndexFollowsConnection
PROPERTIES
  WedgedNeverWins
CHECK_DEADLOCK FALSE
