CONSTANTS
  Writers = {w1, w2}
  Values = {0, 1, 2, 3}
  Full = 255
  MaxBlink = 2
SPECIFICATION LedSpec
INVARIANTS
  TakenOverOnlyWhileLit
  PowerComesBack
CHECK_DEADLOCK FALSE
