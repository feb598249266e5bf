SPECIFICATION Spec
CONSTANTS
  t1 = t1
  t2 = t2
  t3 = t3
  NoJob = NoJob
  Tasks = {t1, t2}
  Workers = {w1}
  Fast = fast
  RealTime = {t2}
  ContextTasks = {t2}
  NotOurs = {}
  Unclaimable = {}
  Shared = {t1}
  Age <- MCAge
  CooldownTicks = 2
  MayHappen = {"crash", "limit", "handBack", "start", "cancel", "fault", "load"}
  MaxAccidents = 3
INVARIANTS
  TypeOK
  SlotsAreHeld
  RunsAreMarked
  QueuedWorkIsOffered
  RecordsAreLive
