SPECIFICATION LiveSpec
CONSTANTS
  MaxLines = 3
  Stamp <- StampVal
  TailLines = 2
  DefaultTail = 1
  LineBuffer = 2
  BatchMax = 2
  MaxWait = 1
  MaxDead = 1
  MaxTransient = 1
  Ids = {1, 2}
  MaxFrames = 1
  MaxFaults = 1
  MaxToggles = 1
INVARIANTS
  NoLineTwice GapsAreExplained StreamsAreOwned
PROPERTIES
  EveryLineSettles
CHECK_DEADLOCK FALSE
