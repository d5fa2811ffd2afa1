CONSTANTS
  Signals = {"source", "reset", "break"}
  MaxSignals = 3
  MaxRefs = 1
  ScriptsCatch = FALSE
  Unregisters = TRUE
  Paced = FALSE
SPECIFICATION Spec
INVARIANTS
  HostNeverCrashesLua
