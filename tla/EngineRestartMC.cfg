CONSTANT MaxAttempts = 2
SPECIFICATION RestartFairSpec
INVARIANTS
  SomeoneReceives
PROPERTIES
  ReceiverEnds
  DetectorEnds
CHECK_DEADLOCK FALSE
