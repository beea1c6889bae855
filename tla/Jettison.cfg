CONSTANTS
  Clients = {cmd, video}
  Receivers = {video}
  Cmd = cmd
  Video = video
  MaxPolls = 2
  Keys <- SomeKeys
  Sender = sender
  Nullopt = nullopt
  MaxPushes = 1
SPECIFICATION FairSpec
CHECK_DEADLOCK FALSE
INVARIANTS
  WsTypeOK
  CallbackOutlived
  ThreadsOver
  FramesHaveSinks
PROPERTIES
  LostIsFinal
  DestructorEnds
  ImplementsCommandPath
  AlwaysExits
  VideoLossStops
