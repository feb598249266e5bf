SPECIFICATION FairSpec
CONSTANTS
  i1 = i1
  i2 = i2
  t1 = t1
  t2 = t2
  b1 = b1
  Items = {i1}
  Threads = {t1, t2}
  Batches = {b1}
  MaxUpdates = 1
  MayHappen = {"kill", "source", "short", "early"}
  MaxAccidents = 1
INVARIANTS
  TypeOK
  DoneIsNotOwed
PROPERTIES
  ItemIsOffered
