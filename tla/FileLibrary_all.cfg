CONSTANTS
  Names = {1, 2, 3}
  Handles = {h1, h2}
  Strings <- MCStrings
  MaxFile = 3
  BufferSize = 2
SPECIFICATION Spec
SYMMETRY Symmetry
CONSTRAINT Bound
INVARIANTS
  DirectoryIsSorted
  LinesAreReadBack
PROPERTIES
  ImplementsFileStore
