CONSTANTS
  Signals = {"source", "not_lua", "empty", "reset", "break", "data", "tap"}
  MaxSignals = 3
  MaxRefs = 2
  ScriptsCatch = TRUE
  Unregisters = TRUE
  Paced = FALSE
SPECIFICATION Spec
INVARIANTS
  TypeOK
  RanInOrder
  HookFiresOncePerSignal
  CalleeIsTheRegisteredFunction
PROPERTIES
  MailboxSpec
