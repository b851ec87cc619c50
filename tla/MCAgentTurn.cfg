SPECIFICATION Spec
CONSTANTS
  s1 = s1  s2 = s2  c1 = c1 c2 = c2
  Sends = {s1, s2}  Calls = {c1}
  MaxToolRounds = 2  MaxEmpty = 1  MaxTransient = 0  MaxOverflow = 1  TailKeep = 1
  MaxRaces = 1
INVARIANTS
  OneLoopWhileClaimsHold RequestWellFormed ReloadIsFaithful NoMessageAbandoned PanelTracksLoop
CHECK_DEADLOCK FALSE
