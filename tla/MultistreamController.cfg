SPECIFICATION FairController
CONSTANTS
  Ids = {a, b}
  a = a
  b = b
  MaxActive = 2
  MaxWorkers = 2
  MaxTerminal = 1
  MaxStarts = 3
  MaxCollectors = 2
INVARIANTS
  TransportSound
  HeadersOfCollector
  NobodyStreamsOn
PROPERTIES
  ReleaseNeverWaits
  DestructionEnds
  WorkersAreReleased
  PendingStartsEnd
CHECK_DEADLOCK FALSE
