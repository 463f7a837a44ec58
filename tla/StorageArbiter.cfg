SPECIFICATION Spec
CONSTANTS
  Commands = 3
INVARIANTS TypeOK NeverNested CommandsReachChip RestoredOrStopped PublishedSettled
PROPERTIES AnswersAreHonest
