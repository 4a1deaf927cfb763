SPECIFICATION Spec
CONSTANTS
  r1 = r1  r2 = r2  w1 = w1  w2 = w2  t1 = t1  t2 = t2
  Row = {r1, r2}
  Work = {w1, w2}
  WorkOf <- OneEach
  Thread = {t1, t2}
  Faults = {"corrupt", "delete", "unreadable", "lose", "fsync", "write", "sweep"}
  MaxFaults = 2
  MaxDeaths = 1
  MaxAdmin = 2
  Catalog = TRUE
SYMMETRY Connections
CHECK_DEADLOCK FALSE
INVARIANTS
  CompleteIsTrue
  AbsentIsNotEmpty
  NoLaundering
