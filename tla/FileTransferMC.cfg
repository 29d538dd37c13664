CONSTANTS
  Accepts = {d1, d2}
  Paths = {p1, p2}
  FileSizes = {0, 1}
  NotifySize = 1
SPECIFICATION FileFairSpec
INVARIANTS
  FinishedIsOnDisk
  AgreeOnSuccess
  OneVerdictEach
PROPERTIES
  EndsUnlessPeerClosed
  CancelEnds
CHECK_DEADLOCK FALSE
