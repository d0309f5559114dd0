CONSTANTS
  Depth = 8
  Latency = 2
  HeadSlots = 2
  MaxWindows = 2
  Edge = TRUE
  Conditions = {TRUE, FALSE}
  Configs <- ShortConfigs
SPECIFICATION FairSpec
INVARIANTS ClusterInStep
PROPERTIES ImplementsSegmentedCapture FillsUnlessHeldOff
