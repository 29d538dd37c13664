CONSTANTS
  MaxPosted = 4
  MaxStarts = 3
SPECIFICATION FairSpec
INVARIANTS
  OnlySpuriousWakeupUnderflows
PROPERTIES
  StopReturnsOutsideTheWindow
  QueuedIsTaken
  ImplementsChannel
CHECK_DEADLOCK FALSE
