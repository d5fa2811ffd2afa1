CONSTANTS
  Signals = {"source", "data"}
  MaxSignals = 3
  MaxRefs = 1
  ScriptsCatch = FALSE
  Unregisters = TRUE
  Paced = FALSE
SPECIFICATION Spec
INVARIANTS
  DataIsNotRepeatedOrTorn
