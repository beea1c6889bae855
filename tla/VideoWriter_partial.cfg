CONSTANTS
  Lengths = {0, 1, 2, 5}
  PipeBuf = 2
  DefaultCapacity = 3
  LargeCapacity = 4
  Numbers = 3
SPECIFICATION Spec
CHECK_DEADLOCK FALSE
INVARIANT DroppedIsDropped
