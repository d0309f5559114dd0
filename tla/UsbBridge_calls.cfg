CONSTANTS
  read = read
  write = write
  one = one
  other = other
  Nobody = Nobody
  Waiting = Waiting
  Failed = Failed
  Dropped = Dropped
  Callers = {one, other}
  Commands <- Frames
  OutTransfers <- TwoWhenWrite
  InTransfers <- TwoWhenRead
  MaxBursts = 2
  MaxHeld = 4
  Quiet = TRUE
SPECIFICATION FairSpec
INVARIANTS LinkInStep
PROPERTIES AnswerIsMine CallsEnd
