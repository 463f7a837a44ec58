SPECIFICATION Spec
CONSTANTS
  RingSize = 3
  Budget = 2
  PacketLen = 3
  Timeout = 1
  FreshFor = 1
  Week = 4
  Tows = {3, 0, 4}
  TickModulus = 8
  MaxTick = 2
  MaxBytes = 6
  MaxErrors = 1
PROPERTIES
  TimeoutMeansSilence
CHECK_DEADLOCK FALSE
