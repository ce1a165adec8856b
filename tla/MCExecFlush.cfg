SPECIFICATION ExecSpec
CONSTANTS
  b1 = b1
  b2 = b2
  b3 = b3
  p1 = p1
  p2 = p2
  p3 = p3
  NumVcpu = 1
  Block <- TwoBlocks
  Length <- TwoLength
  start <- TwoStart
  RunsBlock <- Alone
  InitFirst = TRUE
  MaxRealPc = 3
  MaxInts <- OneEach
  MaxStates <- NoneYet
  None = None
INVARIANT PendingHasInterrupt
