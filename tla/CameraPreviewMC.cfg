CONSTANTS
  MaxFrames = 2
  MaxAsked = 1
  Inferences = 2
  HistorySize = 1
  Devices = {1, 2}
  MaxMessages = 1
SPECIFICATION PreviewSpec
INVARIANTS
  OneLoop
  QueriesLiveContext
  ModelIsBack
  EveryProfileIsReported
  ShownAfterStopWasInFlight
PROPERTY ImplementsMailbox
CHECK_DEADLOCK FALSE
