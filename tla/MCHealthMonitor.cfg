SPECIFICATION LiveSpec
CONSTANTS
  Interval = 2
  Timeout = 1
  UnhealthyAfter = 4
  Cap = 1
  MaxInbox = 1
INVARIANTS
  WiringIsSound VerdictIsEarned
PROPERTIES
  VerdictReachesGate PanelLearns
