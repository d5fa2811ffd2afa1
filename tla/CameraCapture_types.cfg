CONSTANTS
  Resolutions = {1, 2}
  HeaderBytes = 1
  Word = 2
  BufferWords = 4
  MaxWords = 4
  MaxRead = 3
  MaxCaptures = 2
  MaxOut = 7
SPECIFICATION Spec
INVARIANT
  TypeOK
