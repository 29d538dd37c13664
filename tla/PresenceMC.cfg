CONSTANTS
  own = own
  p = p
  q = q
  Machines <- AllMachines
  a = a
  b = b
  c = c
  Addresses <- AllAddresses
  Home <- Homes
  Own = own
  Networks <- UsualNetworks
  WithColon <- ColonNetworks
  MaxMoves <- UsualMoves
  MaxRestarts <- UsualRestarts
  Receivers = {r1, r2}
  MaxPending = 2
SPECIFICATION FairSpec
INVARIANTS
  OneFellowPerAddress
  ListIsTheModel
  AnswerReachesAsker
PROPERTIES
  ChangeIsShown
CHECK_DEADLOCK FALSE
