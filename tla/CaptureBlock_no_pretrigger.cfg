CONSTANTS
  Depth = 4
  Latency = 1
  HeadSlots = 2
  MaxWindows = 2
  Edge = FALSE
  Conditions = {TRUE}
  Configs <- AllConfigs
SPECIFICATION FairSpec
PROPERTIES FillsOnItsOwn
