SPECIFICATION Spec
CHECK_DEADLOCK FALSE
CONSTANTS
  Precision = 13
  Unit = 8192
  MaxPlaces = 4
  MaxExponent = 6
  Boxes <- MCBoxes
  Screens <- MCScreens
INVARIANTS
  VerifierAgrees
