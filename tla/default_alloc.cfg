\* Three lists, blocks of one, two and three units of Align, and a large one.
\* The calls are bounded and a process without memory ends, so a state without a successor is allowed.
SPECIFICATION Spec
CONSTANTS
  Align = 2
  MaxBytes = 6
  Refill = 2
  Requests = {2, 4, 5, 7}
  MaxCalls = 8
CHECK_DEADLOCK FALSE
INVARIANTS
  AllocInv
  NothingIsLost
  
