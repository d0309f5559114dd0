SPECIFICATION Spec
CONSTANTS
  None = None
  one = one
  two = two
  CycleLimit = 4
  Tasks = {one, two}
  TimeScale = 6
  MaxFires = 2
  Uses <- PassingUses
INVARIANTS ReadsAreAccounted CaptureIsOwn PlansHold
PROPERTIES FireFindsAllArmed PollsTell
CHECK_DEADLOCK FALSE
