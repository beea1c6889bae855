CONSTANTS
  Keys <- SomeKeys
  Sender = sender
  Nullopt = nullopt
  MaxPushes = 3
SPECIFICATION PathFairSpec
CHECK_DEADLOCK FALSE
INVARIANTS
  PathTypeOK
  Conservation
  AtMostOneLate
PROPERTIES
  ImplementsService
  EveryCommandHandled
  Keepalive
