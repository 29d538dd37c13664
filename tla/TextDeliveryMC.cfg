CONSTANTS
  Msgs = {m1, m2}
  Timeo = 1
  MaxTime = 4
  MaxStarts = 1
SPECIFICATION FairSpec
INVARIANTS
  AnsweredNeverTimesOut
PROPERTIES
  KeepsItsFate
  ExpiredIsShown
CHECK_DEADLOCK FALSE
