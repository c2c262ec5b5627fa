SPECIFICATION FairSpec
CONSTANTS
  MaxBytes = 3
  MaxPackets = 2
  MaxDuration = 1
  ConnectTimeout = 1
  WriteTimeout = 1
  MaxSubmits = 4
INVARIANTS
  StopReachesTheSocket
  LeavesNothingBehind
  QueueSound
PROPERTIES
  NoGapInAConnection
  PeerCannotHang
  RestartHappensUnlessMissed
  KeepsContract
