SPECIFICATION Spec
CONSTANTS
  Cells = 3
  Version = 7
  SeqModulus = 4
  Attempts = 2
  Expected = 2
  MaxBoots = 2
  MaxFrames = 3
INVARIANTS
  MailboxTypeOK
  EvenIsWhole
  LiveMeansNewer
PROPERTIES
  AcceptedStoodWhole
  QuietAttemptAccepted
CHECK_DEADLOCK FALSE
