SPECIFICATION FairSpec
CONSTANTS
  c1 = c1
  c2 = c2
  None = None
  Callers = {c1, c2}
  Pids = {p1, p2}
  MayDieAlone = {p1}
INVARIANTS
  TypeOK
  OneLane
  StopKillsItsGroup
PROPERTIES
  TermedSupervisorEnds
