CONSTANTS
  p1 = p1
  p2 = p2
  c1 = c1
  c2 = c2
  Producers <- SomeProducers
  Consumers <- SomeConsumers
  Commands = {a, b}
  Nullopt = nullopt
  NoThread = nothread
  MaxLen = 2
SPECIFICATION FairSpec
INVARIANTS
  TypeOK
  MonitorInv
  NoLostWakeup
PROPERTIES
  PopReturns
  ImplementsContract
