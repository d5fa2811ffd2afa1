CONSTANTS
  Word = 8
  Byte = 2
  Codes <- MCCodes
  MaxCodes = 4
SPECIFICATION PackFairSpec
INVARIANT
  ImageIsItsCodes
PROPERTY
  LastWordComes
