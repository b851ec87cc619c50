SPECIFICATION LiveSpec
CONSTANTS
  v1 = v1
  v2 = v2
  v3 = v3
  Careful <- TwoViews
  Tables = {}
  Pinned = TRUE
  MaxEntries = 1
  MaxTimers = 2
INVARIANTS
  SubscriberKeepsWatcher RefcountExact
PROPERTIES
  IdleWatcherIsDropped
