\* Two loggers, two days.  The process ends, so a state without a successor is allowed.
SPECIFICATION LogSpec
CONSTANTS
  l1 = l1
  l2 = l2
  writer = writer
  main = main
  Loggers = {l1, l2}
  Writer = writer
  Main = main
  Threads <- LogThreads
  LinesOf <- TwoAndOne
  Days = 2
  MaxLines = 2
  Items <- Lines
  NoItem = NoItem
  NoThread = NoThread
  Capacity = 1
  Program <- NoProgram
CHECK_DEADLOCK FALSE
INVARIANTS
  LogInv
  LinesKeepTheirOrder
  PushNeverWaits
  FileIsOfToDay
PROPERTY
  LinesAreWritten
  SleepingWriterIsJoined
