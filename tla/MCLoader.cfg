SPECIFICATION LoaderSpec
CONSTANTS
  v1 = v1
  b1 = b1
  b2 = b2
  b3 = b3
  b4 = b4
  i1 = i1
  s1 = s1
  e1 = e1
  e2 = e2
  save = save
  None = None
  Blank = Blank
  VCPU <- OneVcpu
  Block <- TornBlocks
  Length <- MCLength
  real_pc <- MCRealPc
  PcBytes = 2
  Executed <- MCExecuted
  Interrupt <- OneInterrupt
  State <- OneState
  Edge <- TwoEdges
  MaxFlush = 1
  MaxSaved = 1
  MaxRetired = 2
  MaxItems = 2
INVARIANTS  ExecutedBlocksLoaded CleanLoad
PROPERTY LoadFinishes
CHECK_DEADLOCK FALSE
