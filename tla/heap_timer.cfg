\* Four timers, three timeouts.  A failed assertion ends the process, so a state without a successor is allowed.
SPECIFICATION Spec
CONSTANTS
  Ids = {a, b, c, d}
  Timeouts = {0, 1, 2}
  MaxTime = 2
SYMMETRY Alike
CHECK_DEADLOCK FALSE
INVARIANTS
  TimerInv
  HeapOrder
PROPERTY
  TickLeavesNothingDue
  RightTimerLeaves
