SPECIFICATION MCSpec
CONSTANTS
  b1 = b1
  b2 = b2
  b3 = b3
  NumVcpu = 1
  Block <- MCBlock
  Length <- MCLength
  start <- MCStart
  RunsBlock <- Alone
  InitFirst = TRUE
  Icr <- OfB2
  MaxRealPc = 5
  MaxInts <- TwoEach
  MaxStates <- TwoEach
  None = None
  MaxAllInts = 2
  MaxReentries = 2
INVARIANTS TransitionsKept InterruptTargets
CHECK_DEADLOCK FALSE
