SPECIFICATION Spec
CONSTANTS
  HalfWord = 4
  FrameCount = 5
  DMASegment = 2
  Unusable = {2, 9, 17}
  MaxHolders = 2
INVARIANTS TypeOK LowFramesAccounted
