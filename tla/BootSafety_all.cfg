CONSTANTS
  MaxBootAttempts = 8
  MaxPowerLosses = 2
SPECIFICATION BootFairSpec
INVARIANTS
  BootTypeOK
  AttemptsAreBounded
  DfuComesFirst
PROPERTIES
  FaultyAppReachesDfu
