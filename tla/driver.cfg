SPECIFICATION FairSpec
CONSTANTS
  a = a
  b = b
  NoWaypoint = NoWaypoint
  Leaf = {a, b}
  Container = {}
  LeafOrder <- Order
  Chain <- Flat
  LastChild <- None
  TopLast = b
  Driven = a
  MaxDrives = 2
  MaxChanges = 4
  MaxClaims = 1
CHECK_DEADLOCK FALSE
INVARIANTS
  TypeOK
PROPERTIES
  StuckIsHonest
  PromptIsWelcome
  TurnEndAnswered
  HoldEndsDrive
