SPECIFICATION LiveSpec
CONSTANTS
  s1 = s1  s2 = s2  c1 = c1  c2 = c2
  Sends = {s1}  Calls = {c1, c2}
  MaxToolRounds = 2  MaxEmpty = 1  MaxTransient = 1  MaxOverflow = 1  TailKeep = 1
  MaxRaces = 1
PROPERTIES
  TurnEnds
CHECK_DEADLOCK FALSE
