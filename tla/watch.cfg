SPECIFICATION FairSpec
CONSTANTS
  w1 = w1
  w2 = w2
  x1 = x1
  y1 = y1
  Works = {w1, w2}
  Watchers = {x1}
  Estates = {y1}
  Subject <- FirstWork
  MaxEvents = 2
CHECK_DEADLOCK FALSE
INVARIANTS
  NothingLost
PROPERTIES
  ImplementsFeed
  EventArrives
