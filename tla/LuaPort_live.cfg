CONSTANTS
  Signals = {"source", "empty", "reset", "break", "data", "tap"}
  MaxSignals = 4
  MaxRefs = 1
  ScriptsCatch = FALSE
  Unregisters = TRUE
  Paced = TRUE
SPECIFICATION FairSpec
INVARIANTS
  PacedDataIsWhole
PROPERTIES
  BreakStopsTheScript
  SlotIsServed
  TapLineFalls
