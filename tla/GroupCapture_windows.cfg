SPECIFICATION Spec
CONSTANTS
  None = None
  one = one
  two = two
  CycleLimit = 4
  Tasks = {one, two}
  TimeScale = 6
  MaxFires = 2
  Uses <- CrossedWindows
PROPERTY FireFindsAllArmed
CHECK_DEADLOCK FALSE
