SPECIFICATION Spec
CONSTANTS
  Settings <- MCHeld
  Planned <- MCPlanned
  Calls = {c1}
  Gates = {"detail"}
  MaxSteps = 3
  MaxReads = 2
  MaxPending = 1
  MaxSignals = 1
  MaxRemedies = 1
  MaxTries = 2
PROPERTIES
  LatchedTurnExecutesNothing
CHECK_DEADLOCK FALSE
