CONSTANTS
  MaxResets = 0
SPECIFICATION Spec
PROPERTY
  UnpairingMeansButton
