CONSTANTS
  Base = 3
  Width = 4
  NsPerUs = 5
  MaxUpdates = 3
  Messages <- MCMessages
SPECIFICATION FrameSpec
INVARIANTS
  FrameTypeOK
  FrameAtMostOneAhead
  UndisturbedIsPair
  DecodedAsEncoded
  SeenIsCarried
PROPERTIES
  NewTimesCarried
