SPECIFICATION FairSpec
CONSTANTS
  Faults = {F1}
  Mux = {M1}
  CountMax = 2
  GapLimit = 1
  MaxTick = 2
  MaxEdges = 3
INVARIANTS TypeOK FaultEdgeKept CopyCoherent CountIsLowerBound SampledEveryTick
PROPERTIES HistoryNeverCleared FaultRecorded
CHECK_DEADLOCK FALSE
