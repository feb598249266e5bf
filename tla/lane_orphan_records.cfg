SPECIFICATION Spec
CONSTANTS
  t1 = t1
  t2 = t2
  t3 = t3
  NoJob = NoJob
  Tasks = {t1, t2}
  Workers = {w1}
  Fast = fast
  RealTime = {t2}
  ContextTasks = {t2}
  NotOurs = {}
  Unclaimable = {}
  Shared = {}
  Age <- MCAge
  CooldownTicks = 2
  MayHappen = {"crash"}
  MaxAccidents = 1
INVARIANTS
  OrphansStayRecorded
