SPECIFICATION LiveSpec
CONSTANTS
  MaxAuto = 2
  Permanent = TRUE
  MaxPresses = 1
  MaxResumes = 1
INVARIANTS
  AttemptsAreSound
PROPERTIES
  SessionEnds
