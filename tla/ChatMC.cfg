CONSTANTS
  Peers = {a, b}
  TestUser = t
  MaxEvents = 2
  MaxClicks = 2
SPECIFICATION Spec
INVARIANTS
  MessagesAreSeen
  OnlyScreenshotsHide
  UserNeverKills
  FromTheOfferer
CHECK_DEADLOCK FALSE
