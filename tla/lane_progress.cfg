SPECIFICATION FairSpec
CONSTANTS
  t1 = t1
  t2 = t2
  t3 = t3
  NoJob = NoJob
  Tasks = {t1, t2, t3}
  Workers = {w1, w2}
  Fast = fast
  RealTime = {}
  ContextTasks = {}
  NotOurs = {t1}
  Unclaimable = {t2}
  Shared = {}
  Age <- MCAge
  CooldownTicks = 2
  MayHappen = {"crash"}
  MaxAccidents = 1
PROPERTIES
  OrphansAreReturned
  
