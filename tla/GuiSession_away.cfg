SPECIFICATION FairSpec
CONSTANTS
  None = None
  wide = wide
  narrow = narrow
  la = la
  bx = bx
  v1 = v1
  v2 = v2
  Images = {wide, narrow}
  Holds <- HoldsOf
  Settings = {v1, v2}
  MaxFaults = 1
  MaxCalls = 1
PROPERTY RecoversOnALaterTick
CHECK_DEADLOCK FALSE
