SPECIFICATION FairSpec
CONSTANTS
  Sectors = 2
  DataPages = 4
  Kinds <- MCKinds
  Width <- MCWidth
  Slots <- MCSlots
  CounterModulus = 5
  MaxBoots = 2
  MaxDropped = 1
  MaxMisreads = 2
INVARIANTS
  RecoveredIntact
PROPERTIES
  JournalSpec
  CallsReturn
CHECK_DEADLOCK FALSE
