SPECIFICATION Spec
CONSTANTS
  AudioTracks = {1}
  Target = 2
  Preroll = 1
  Sizes = {1, 2}
  MaxPrimary = 5
  MaxHold = 5
  MaxHoldLane = 3
  BFrames = TRUE
  GopLengths = {3}
  HoleTicks = 3
  MaxIdle = 1
  MaxDts = 11
  MaxHoldDts = 4
  MaxRequests = 1
  MaxReconnects = 0
  MaxHoles = 0
INVARIANTS
  PrerollIsOneGop
PROPERTIES
  NoLiveLeak
  AgeIsTarget
  NothingLostWhileDelayed
  TimestampsAscend
CHECK_DEADLOCK FALSE
