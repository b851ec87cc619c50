SPECIFICATION LiveSpec
CONSTANTS
  u1 = u1
  u2 = u2
  r1 = r1
  r2 = r2
  NoRow = NoRow
  Uids <- MCUids
  Rows <- MCRows
  MaxEmit = 1
  BadRows = {}
  Preview = TRUE
  PreviewLimit = 1
  MaxWrites = 1
  MaxBreaks = 1
INVARIANTS
  ChannelIsSound NoDeltaLost NoLostWakeup CacheTracksServer
PROPERTIES
  SpinnerEndsOnFullTable ImplementsFeed Converges ForwarderExits
CHECK_DEADLOCK FALSE
