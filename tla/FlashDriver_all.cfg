CONSTANTS
  MaxWords = 3
  FrameLite = TRUE
  Pairs = TRUE
  Quick = TRUE
SPECIFICATION FairSpec
INVARIANTS
  TypeOK
  ReturnsWhenAllDone
PROPERTIES
  ButtonWaitsForErase
  FileCallsEnd
