SPECIFICATION Spec
CONSTANTS
  AudioTracks = {1}
  Target = 4
  Preroll = 1
  Sizes = {1}
  MaxPrimary = 9
  MaxHold = 9
  MaxHoldLane = 3
  BFrames = FALSE
  GopLengths = {4}
  HoleTicks = 3
  MaxIdle = 1
  MaxDts = 8
  MaxHoldDts = 5
  MaxRequests = 1
  MaxReconnects = 0
  MaxHoles = 0
PROPERTIES
  SplicesOnKeyframes
CHECK_DEADLOCK FALSE
