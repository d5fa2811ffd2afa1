CONSTANTS
  Signals = {"source", "reset"}
  MaxSignals = 2
  MaxRefs = 1
  ScriptsCatch = FALSE
  Unregisters = TRUE
  Paced = FALSE
SPECIFICATION Spec
INVARIANTS
  ResetIsNotExecuted
