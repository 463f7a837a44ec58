SPECIFICATION Spec
CONSTANTS
  Cells = 3
  Version = 8
  SeqModulus = 4
  Attempts = 2
  Expected = 2
  MaxBoots = 2
  MaxFrames = 3
PROPERTIES
  QuietAttemptAccepted
CHECK_DEADLOCK FALSE
