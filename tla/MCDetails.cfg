SPECIFICATION DetailsSpec
CONSTANTS
  m0 = m0
  Module <- MCModule
  Code <- MCCode
  AltCode <- SameCode
  Shape <- MCShape
  MaxRecords = 3
  MaxSaves = 2
  MaxAlts <- MCMaxAlts
INVARIANTS OrganizedComplete InlanedFound
CHECK_DEADLOCK FALSE
