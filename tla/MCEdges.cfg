SPECIFICATION EdgesSpec
CONSTANTS
  v1 = v1
  v2 = v2
  l1 = l1
  l2 = l2
  p1 = p1
  p2 = p2
  r1 = r1
  VCPU <- Two
  Loc <- OneBlock
  Phys <- MCPhys
  translate <- OneTranslate
  RealPc <- MCRealPc
  BufferN = 2
  SetN = 1
  MaxJobs = 1
  None = None
INVARIANTS EdgesTypeOK NeverOverflows NoEdgeLost ExitLossBounded
PROPERTIES JobsGetSaved ExitFinishes
CHECK_DEADLOCK FALSE
