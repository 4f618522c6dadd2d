\* Every call that changes the buffer, clear() included; three slots, so two values; any interleaving.
SPECIFICATION Spec
CONSTANTS
  Threads = {w, r, b, m}
  w = w
  b = b
  r = r
  m = m
  NoThread = NoThread
  Values = {v0, v1}
  Default = v0
  N = 3
  Program <- Contended
INVARIANTS
  IndInv
  ReadersAreWoken
PROPERTY
  IsBoundedQueue
