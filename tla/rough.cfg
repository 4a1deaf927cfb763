CONSTANTS
  a = a  b = b  d = d  C = C  P = P  o = o  role1 = role1  NoWaypoint = NoWaypoint
  Leaf = {a, b, d}
  Container = {C}
  LeafOrder <- FlatOrder
  Chain <- LateChain
  LastChild <- LateLast
  TopLast = C
  FirstLeaf <- LateFirst
  Output = {o}
  LeafNeeds <- NoOutputs
  Needs <- LateNeeds
  Role = {}
  NeedsRole <- LateRoles
  Child = {}
  Orienting = {b, d}
  Incompatible = {d}
  MaxRuns = 4
  MaxCrashes = 1
  MaxFaults = 1
  LoseClaims = TRUE
SPECIFICATION Spec
CHECK_DEADLOCK FALSE
INVARIANTS
  OnlyFailureStrands
