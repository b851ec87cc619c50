SPECIFICATION Spec
CONSTANTS
  v1 = v1
  v2 = v2
  v3 = v3
  Careful <- OneView
  Tables <- LastView
  Pinned = FALSE
  MaxEntries = 1
  MaxTimers = 2
INVARIANTS
  SubscriberKeepsWatcher
