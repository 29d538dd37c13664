CONSTANTS
  FrameSizes <- SomeSizes
  ModelSize <- SmallModel
  Cells <- SomeCells
  Outputs <- SomeOutputs
  Zps <- SomeZps
  Dens <- SomeDens
  Common = 2
  Anchors <- SomeAnchors
  ConfThreshold <- Quarter
  NmsThreshold <- NineTwentieths
  MaxResults = 2
SPECIFICATION Spec
INVARIANTS
  EachWithItsScore
  GoesForOneThatStays
  MapsBack
CHECK_DEADLOCK FALSE
