CONSTANTS
  a = a  b = b  d = d  C = C  P = P  o = o  role1 = role1  NoWaypoint = NoWaypoint
  Leaf = {a, b, d}
  Container = {}
  LeafOrder <- FlatOrder
  Chain <- FlatChain
  LastChild <- Empty
  TopLast = d
  FirstLeaf <- Empty
  Output = {}
  LeafNeeds <- NoOutputs
  Needs <- Empty
  Role = {}
  NeedsRole <- Empty
  Child = {}
  Orienting = {}
  Incompatible = {}
  MaxRuns = 5
  MaxCrashes = 1
  MaxFaults = 1
  LoseClaims = FALSE
SPECIFICATION Spec
CHECK_DEADLOCK FALSE
INVARIANTS
  TypeOK
  OneLiveLine
  NeedsInputIsAnswerable
  AdvanceFollowsClaim
PROPERTIES
  RetriedStays
  QuestionLeftByDecision
