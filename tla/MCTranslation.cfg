SPECIFICATION Spec
CONSTANTS
  v1 = v1
  v2 = v2
  VCPU <- MCVCPU
  Tb <- MCTb
  MaxBlocks = 4
  NoBlock = NoBlock
  NoTb = NoTb
SYMMETRY MCSymmetry
INVARIANTS TypeOK OneHome NoUseAfterFree FlagIffRetired
PROPERTY ImplementsBlockLife
CHECK_DEADLOCK FALSE
