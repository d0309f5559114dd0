CONSTANTS
  Depth = 6
  Latency = 2
  Configs <- LegalConfigs
SPECIFICATION Spec
INVARIANTS TypeOK SlotsInBuffer WindowsInOrder IInv
