CONSTANTS
  Keys <- InvalidToo
  Sender = sender
  Nullopt = nullopt
  MaxPushes = 2
SPECIFICATION PathSpec
CHECK_DEADLOCK FALSE
INVARIANT OnlyValidSent
