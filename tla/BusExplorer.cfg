CONSTANTS
  a = a
  b = b
  x = x
  TargetAddresses = {a, b}
  ZeroAddress = a
  Bits = {x}
  SlotCount = 2
  Hosts = {h}
  Uses <- AllUses
SPECIFICATION FairSpec
INVARIANTS AnswersAreOwed ScanIsCurrent CommandIsMine
PROPERTIES CommandsEnd ImplementsCommandEngine
