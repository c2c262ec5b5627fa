SPECIFICATION Spec
CONSTANTS
  AudioTracks = {1}
  Target = 1
  Preroll = 0
  Sizes = {1}
  MaxPrimary = 9
  MaxHold = 9
  MaxHoldLane = 3
  BFrames = FALSE
  GopLengths = {2}
  HoleTicks = 3
  MaxIdle = 0
  MaxDts = 5
  MaxHoldDts = 2
  MaxRequests = 2
  MaxReconnects = 1
  MaxHoles = 0
INVARIANTS
  TypeOK
  PipelineReclaimed
  NoStaleCleanup
PROPERTIES
  KeepsSessionContract
CHECK_DEADLOCK FALSE
