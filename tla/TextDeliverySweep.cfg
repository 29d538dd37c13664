CONSTANTS
  Msgs = {m1, m2}
  Timeo = 1
  MaxTime = 3
  MaxStarts = 0
SPECIFICATION Spec
INVARIANT ClearedOnlyByOwnAnswer
CHECK_DEADLOCK FALSE
