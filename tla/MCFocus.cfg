SPECIFICATION Spec
CHECK_DEADLOCK FALSE
CONSTANTS
  Unit = 2
  Boxes <- MCBoxes
  Screens <- MCScreens
INVARIANTS
  FocusTellsTheTruth
