SPECIFICATION Spec
CONSTANT MaxRx = 8
CONSTANT Fifo = 2
INVARIANT TypeOK
INVARIANT FirstFrameWins
CHECK_DEADLOCK FALSE
