SPECIFICATION Spec
CONSTANTS
  t1 = t1
  t2 = t2
  t3 = t3
  NoJob = NoJob
  Tasks = {t1, t2}
  Workers = {w1, w2}
  Fast = fast
  RealTime = {t2}
  ContextTasks = {}
  NotOurs = {}
  Unclaimable = {}
  Shared = {}
  Age <- MCAge
  CooldownTicks = 2
  MayHappen = {"crash", "handBack", "fault"}
  MaxAccidents = 1
INVARIANTS
  OneHandlerPerTask
PROPERTIES
  LeaseSpec
