SPECIFICATION OwnedFairSpec
CONSTANTS
  ChildJob = {j1}
  MaxDeaths = 3
  RecordMayFail = FALSE
CHECK_DEADLOCK FALSE
INVARIANTS
  LiveIsRecorded
  OverIsOver
PROPERTIES
  CancelEnds
