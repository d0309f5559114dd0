CONSTANTS
  None = None
  one = one
  two = two
  pill = pill
  Tasks = {one, two, pill}
  LastAddress = 3
  Refusing = {3}
  Bits = {0, 1, 2}
  SlotCount = 2
  Uses <- OverlapUse
SPECIFICATION Spec
INVARIANTS EveryWriteIsJournalled
CHECK_DEADLOCK FALSE
