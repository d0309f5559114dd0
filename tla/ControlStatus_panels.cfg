CONSTANTS
  a = a
  b = b
  c = c
  x = x
  y = y
  TickLatency = 3
  Spaced = TRUE
  MaxOwed = 2
  Panels <- EveryPanel
SPECIFICATION FairSpec
INVARIANTS StrobesAsWritten StickyUntilNamed RebaseKeepsInFlight
PROPERTIES StrobesFire
