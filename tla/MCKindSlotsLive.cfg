SPECIFICATION LiveSpec
CONSTANTS
  v1 = v1
  v2 = v2
  v3 = v3
  Careful = {}
  Tables <- LastView
  Pinned = FALSE
  MaxEntries = 2
  MaxTimers = 1
INVARIANTS
  SlotsAreSound
PROPERTIES
  EvictedEntryIsReleased
