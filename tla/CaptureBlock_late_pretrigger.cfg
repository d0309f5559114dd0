CONSTANTS
  Depth = 4
  Latency = 1
  HeadSlots = 2
  MaxWindows = 2
  Edge = FALSE
  Conditions = {TRUE, FALSE}
  Configs <- LongConfigs
SPECIFICATION Spec
INVARIANTS WindowsInOrder
