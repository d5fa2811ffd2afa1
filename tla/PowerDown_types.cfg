CONSTANTS
  MaxResets = 2
SPECIFICATION Spec
INVARIANT
  TypeOK
