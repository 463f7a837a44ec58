SPECIFICATION Spec
CONSTANT MaxRx = 8
CONSTANT Fifo = 2
INVARIANT NeverStaleReply
CHECK_DEADLOCK FALSE
