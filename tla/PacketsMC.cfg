CONSTANTS
  Threads = {ui, recv, detect}
  Ui = ui
  MaxId = 15
  MaxCalls = 3
  MyName <- NameWithSep
  Texts <- SomeTexts
  Files <- SomeFiles
  IntMax = 2
  RcvSize = 30
  EncOut <- ToGbk
  EncIn <- FromGbk
  Numeral <- InDecimal
SPECIFICATION PSpec
INVARIANTS
  ArrivesAsSent
  ServesWhatWasOffered
PROPERTY NeverReissued
CHECK_DEADLOCK FALSE
