CONSTANTS
  MaxAppends = 4
  MaxFaults = 1
  MaxLosses = 1
  MaxKills = 1
  MaxClaims = 1
  MaxEdits = 2
  ParentsKept = TRUE
SPECIFICATION CustodySpec
CHECK_DEADLOCK FALSE
INVARIANTS
  EvidenceStands
  FailsClosed
  KillsAreHarmless
