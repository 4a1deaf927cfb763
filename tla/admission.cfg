SPECIFICATION Spec
CONSTANTS
  Proc = {p1, p2, p3}
  Pid = {i1, i2}
  Session = {s1, s2}
  Selection = {m1, m2}
  MaxRuns = 2
  NoProc = NoProc
  NoPid = NoPid
  NoSession = NoSession
  NoSelection = NoSelection
SYMMETRY Symmetry
CHECK_DEADLOCK FALSE
INVARIANTS
  TypeOK
  OneDriver
  OneLiveAgent
  LaunchedAsBound
PROPERTIES
  FailureIsAbsence
