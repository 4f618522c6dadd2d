\* The first add() may already break an assertion.
SPECIFICATION Spec
CONSTANTS
  Ids = {a, b, c, d}
  Timeouts = {0, 1, 2}
  MaxTime = 2
SYMMETRY Alike
CHECK_DEADLOCK FALSE
INVARIANT
  AssertionsHold
