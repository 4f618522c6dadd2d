\* Two producers, two consumers and a main thread on a deque of two items; any interleaving.
SPECIFICATION FairSpec
CONSTANTS
  w1 = w1
  w2 = w2
  r1 = r1
  r2 = r2
  m = m
  Threads = {w1, w2, r1, r2, m}
  Items = {x1}
  NoItem = NoItem
  Capacity = 2
  Program <- Closing
INVARIANTS
  IndInv
  ItemsAreComing
  RoomIsComing
PROPERTY
  CloseReleasesConsumers
  TimedPopLeavesClosed
