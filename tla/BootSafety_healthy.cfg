CONSTANTS
  MaxBootAttempts = 8
  MaxPowerLosses = 0
SPECIFICATION BootSpec
INVARIANTS
  HealthyAppStaysOutOfDfu
