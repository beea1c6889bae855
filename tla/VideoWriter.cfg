CONSTANTS
  Lengths = {0, 1, 2, 5}
  PipeBuf = 2
  DefaultCapacity = 3
  LargeCapacity = 4
  Numbers = 3
SPECIFICATION FairSpec
CHECK_DEADLOCK FALSE
INVARIANTS
  TypeOK
  StreamInOrder
  SmallFramesWhole
PROPERTIES
  ViewerServed
  DepartureNoticed
