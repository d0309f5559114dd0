SPECIFICATION FairSpec
CONSTANTS
  None = None
  wide = wide
  narrow = narrow
  la = la
  bx = bx
  v1 = v1
  v2 = v2
  Images = {wide, narrow}
  Holds <- HoldsOf
  Settings = {v1, v2}
  MaxFaults = 2
  MaxCalls = 3
INVARIANTS SessionLasts DisconnectCloses
PROPERTIES ReplayFits Recovers
CHECK_DEADLOCK FALSE
