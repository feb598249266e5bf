SPECIFICATION Spec
CONSTANTS
  Settings <- MCTurns
  Planned <- MCPlanned
  Calls = {c1}
  Gates = {"detail"}
  MaxSteps = 3
  MaxReads = 2
  MaxPending = 1
  MaxSignals = 1
  MaxRemedies = 1
  MaxTries = 2
INVARIANTS
  TypeOK
  CallTakesEffectOnce
  VerifiedTextWasJudged
  OrderIsPursued
PROPERTIES
  ChangeIsNotRedone
  EndingStands
  HeldTurnStartsNoDeepRun
  TurnEnds
CHECK_DEADLOCK FALSE
