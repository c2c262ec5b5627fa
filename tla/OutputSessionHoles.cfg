SPECIFICATION Spec
CONSTANTS
  AudioTracks = {1}
  Target = 2
  Preroll = 0
  Sizes = {1}
  MaxPrimary = 9
  MaxHold = 9
  MaxHoldLane = 3
  BFrames = FALSE
  GopLengths = {2}
  HoleTicks = 3
  MaxIdle = 0
  MaxDts = 9
  MaxHoldDts = 2
  MaxRequests = 1
  MaxReconnects = 0
  MaxHoles = 2
PROPERTIES
  SplicesOnKeyframesOtherwise
  LanesInSync
CHECK_DEADLOCK FALSE
