SPECIFICATION Spec
CONSTANTS
  Fwds = {"f1", "f2"}
  Cmds = {c1, c2}
  MaxStarts = 3
  MaxEdits = 3
  MaxRestarts = 1
SYMMETRY Symmetry
INVARIANTS
  PinSurvives FileIsSound
PROPERTIES
  PinnedKeepListening
CHECK_DEADLOCK FALSE
