CONSTANTS
  a = a
  b = b
  c = c
  x = x
  y = y
  TickLatency = 3
  Spaced = FALSE
  MaxOwed = 2
  Panels <- StrobeOnly
SPECIFICATION Spec
INVARIANTS FiresAsWritten
