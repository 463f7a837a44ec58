SPECIFICATION FairSpec
CONSTANTS
  Frame = 2
  Blocks = 1
  Clock = 4
  Sessions = 2
  Faults = 1
INVARIANTS TypeOK AnswersAreFresh OneBoot CleanHandover
PROPERTIES RequestsAreServed
CHECK_DEADLOCK FALSE
