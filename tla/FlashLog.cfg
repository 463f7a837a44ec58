SPECIFICATION Spec
CONSTANTS
  Sectors = 2
  DataPages = 4
  Kinds <- MCKinds
  Width <- MCWidth
  Slots <- MCSlots
  CounterModulus = 4
  MaxBoots = 3
  MaxDropped = 1
  MaxMisreads = 2
INVARIANTS
  TypeOK
  SessionPerBoot
  OneTornPagePerBoot
  EveryCallCounted
PROPERTIES
  OnlyBlankProgrammed
CHECK_DEADLOCK FALSE
