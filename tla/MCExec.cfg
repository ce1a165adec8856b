SPECIFICATION ExecSpec
CONSTANTS
  b1 = b1
  b2 = b2
  b3 = b3
  p1 = p1
  p2 = p2
  p3 = p3
  NumVcpu = 2
  Block <- ThreeBlocks
  Length <- MCLength
  start <- MCStart
  RunsBlock <- Private
  InitFirst = TRUE
  MaxRealPc = 3
  MaxInts <- TwoZero
  MaxStates <- ZeroOne
  None = None
INVARIANTS RealPcsUnique ReentryRecorded EdgesHappened InterruptsResolved
           PrevIsSet
