CONSTANTS
  Names = {1}
  Handles = {h1}
  Strings <- MCStrings
  MaxFile = 3
  BufferSize = 2
SPECIFICATION Spec
INVARIANT EndOfFileIsNil
