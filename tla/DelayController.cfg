SPECIFICATION FairSpec
CONSTANTS
  Outputs = {"stream", "master"}
  Managed = {"master"}
  Seconds = {1, 2}
  Media = {"break", "slides"}
  MaxChanges = 2
  MaxTroubles = 1
  MaxStarts = 2
INVARIANTS
  OneHub
  LatestSettings
  OffMeansLeaving
PROPERTIES
  RearmCompletes
CHECK_DEADLOCK FALSE
