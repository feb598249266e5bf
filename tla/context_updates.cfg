SPECIFICATION Spec
CONSTANTS
  i1 = i1
  i2 = i2
  t1 = t1
  t2 = t2
  b1 = b1
  Items = {i1, i2}
  Threads = {t1, t2}
  Batches = {}
  MaxUpdates = 1
  MayHappen = {"source", "short", "answer"}
  MaxAccidents = 1
SYMMETRY Alike
INVARIANTS
  NothingIsSkipped
  RelayIsBounded
PROPERTIES
  PersonsWordStands
