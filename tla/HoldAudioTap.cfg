SPECIFICATION Spec
CONSTANTS
  Capacity = 2
  Frames = 2
  Early = {1, 2, 3}
  Late = {0, 3}
  MaxTicks = 5
  MaxWindows = 4
INVARIANTS
  SlotsOwnedByOne
PROPERTIES
  KeepsChannel
  InPhase
  BlocksOnce
CHECK_DEADLOCK FALSE
