SPECIFICATION Spec
CONSTANTS
  RingSize = 3
  Budget = 2
  PacketLen = 3
  Timeout = 1
  FreshFor = 1
  Week = 4
  Tows = {3, 0, 4}
  TickModulus = 8
  MaxTick = 2
  MaxBytes = 9
  MaxErrors = 2
INVARIANTS
  GnssTypeOK
  EveryByteAccounted
  RingInOrder
  FreshIsNew
  PublishedFreshIsYoung
CHECK_DEADLOCK FALSE
