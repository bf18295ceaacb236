SPECIFICATION Spec
CONSTANTS
  HalfWord = 4
  FrameCount = 5
  DMASegment = 2
  Unusable = {}
  MaxHolders = 2
INVARIANT HandedOutOnce
