SPECIFICATION FairSpec
CONSTANTS
  MaxBytes = 3
  MaxPackets = 1
  MaxDuration = 1
  ConnectTimeout = 1
  WriteTimeout = 1
  MaxSubmits = 0
PROPERTIES
  StopFinishes
