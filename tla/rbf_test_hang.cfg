\* The same test: does the join of the consumers return?
\* The test ends, so a state without a successor is allowed.
SPECIFICATION TestSpec
CONSTANTS
  Producers = {p1, p2}
  Consumers = {c1, c2}
  Main = main
  Threads = {p1, p2, c1, c2, main}
  NoThread = NoThread
  Records = 3
  Values = {0, 1, 2, 3}
  Default = 0
  N = 3
  Program <- TestProgram
CHECK_DEADLOCK FALSE
PROPERTY
  ConsumersAreJoined
