CONSTANTS
  Signals = {"source", "break", "data"}
  MaxSignals = 3
  MaxRefs = 1
  ScriptsCatch = FALSE
  Unregisters = TRUE
  Paced = FALSE
SPECIFICATION CallbacksEndSpec
PROPERTIES
  BreakAlwaysStops
