SPECIFICATION MCSpec
CONSTANTS
  Label = {l1}
  Lens <- MCLens
  Kinds <- MCKinds
  MaxNext = 4
  MaxSaves = 2
  MaxPlaced = 2
  MaxSize = 6
  NotLoaded = NotLoaded
INVARIANTS LabelsResolved RealPcsInOrder NextIsRight
PROPERTY LoadedIsFirstSaved
