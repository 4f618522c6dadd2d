\* Producers, consumers and a closing main thread, as in ut_safe_rbf; three slots, so two values; any interleaving.
SPECIFICATION FairSpec
CONSTANTS
  Threads = {w, r, b, m}
  w = w
  b = b
  r = r
  m = m
  NoThread = NoThread
  Values = {v0}
  Default = v0
  N = 3
  Program <- ProducerConsumer
INVARIANTS
  WritersAreWoken
PROPERTY
  ValuesAreRead
  SlotsAreWritten
  CloseReleasesSleepers
