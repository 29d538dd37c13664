CONSTANTS
  Streams = {s1, s2}
  Sizes = {2, 3}
  MaxPayload = 2
  Copies = 2
  Timeout = 1
  MaxFrames = 2
SPECIFICATION FairSpec
INVARIANTS
  WholeFrames
  DroppedInTime
PROPERTY BuffersAreFreed
CHECK_DEADLOCK FALSE
