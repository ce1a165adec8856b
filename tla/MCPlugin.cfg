SPECIFICATION MCSpec
CONSTANTS
  b1 = b1
  b2 = b2
  NumVcpu = 2
  Block <- MCBlock
  Length <- MCLength
  start <- MCStart
  RunsBlock <- Shared
  InitFirst = TRUE
  MaxRealPc = 2
  MaxInts <- ZeroOne
  MaxStates <- NoneYet
  None = None
INVARIANTS RecordsAlive SavedIsFinal IdsCoverSource
CHECK_DEADLOCK FALSE
