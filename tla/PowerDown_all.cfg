CONSTANTS
  MaxResets = 2
SPECIFICATION FairSpec
INVARIANTS
  RailsAreNested
  AsleepMeansOff
  ReadyWhenLuaRuns
PROPERTY
  DockedSleeps
