CONSTANTS
  a = a  b = b  d = d  C = C  P = P  o = o  role1 = role1  NoWaypoint = NoWaypoint
  Leaf = {a, d}
  Container = {C, P}
  LeafOrder <- BothOrder
  Chain <- BothChain
  LastChild <- BothLast
  TopLast = P
  FirstLeaf <- BothFirst
  Output = {o}
  LeafNeeds <- BothOutputs
  Needs <- BothNeeds
  Role = {role1}
  NeedsRole <- BothRoles
  Child = {k1}
  Orienting = {}
  Incompatible = {}
  MaxRuns = 4
  MaxCrashes = 1
  MaxFaults = 0
  LoseClaims = FALSE
SPECIFICATION FairSpec
CHECK_DEADLOCK FALSE
INVARIANTS
  WaitingIsRecoverable
  ClosureHolds
  CompletedIsComplete
PROPERTIES
  TerminalStays
  WaitIsAnswered
