SPECIFICATION Spec
CONSTANTS
  Streams <- MCStreams
  VideoLanes = {"v"}
  Required <- MCRequired
  Headroom = 0
  StallTimeout = 2
  MaxGap = 0
  ReorderWindow = 0
  MaxBuffered = 3
  Delays = {1, 2}
  Encoders <- MCEncoders
  MaxTime = 3
  MaxPackets = 4
  MaxEvents = 3
INVARIANTS BufferSound
PROPERTIES Decodable PollsSucceed OutputInOrder
CHECK_DEADLOCK FALSE
VIEW MCView
