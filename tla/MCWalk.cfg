SPECIFICATION MCSpec
CONSTANTS
  a1 = a1
  a2 = a2
  a3 = a3
  None = None
  Addr <- MCAddr
PROPERTY WalkFinishes
INVARIANTS ListsReachable LabelsDefined NextIsNext
CHECK_DEADLOCK FALSE
