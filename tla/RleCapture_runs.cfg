CONSTANTS
  Values = {0, 1}
  Depth = 4
  CountMax = 3
  TriggerOn = {1}
  Edge = FALSE
  CycleWrap = 4
  Caps = {0, 2}
SPECIFICATION FairSpec
INVARIANTS KeptIsRecent PostIsComplete MarkerOnMatch
PROPERTIES KeepsGoing
