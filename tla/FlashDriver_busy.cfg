CONSTANTS
  MaxWords = 2
  FrameLite = FALSE
  Pairs = TRUE
  Quick = FALSE
SPECIFICATION Spec
PROPERTIES
  NoResetByBusy
