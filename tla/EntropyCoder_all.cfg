CONSTANTS
  Run = 8
  LastCnt = 12
  Components = {0, 1}
  Sizes = {1}
  MaxNonzero = 2
  MaxBlocks = 2
  MaxBubbles = 1
SPECIFICATION FairSpec
INVARIANT
  CodesAreTheBlocks
PROPERTY
  ImageEnds
