\* Three workers, two clients, three tasks of which one never returns.  The pool may end up idle or destroyed for good.
SPECIFICATION FairSpec
CONSTANTS
  Workers = {w1, w2, w3}
  Clients = {owner, client}
  Owner = owner
  Tasks = {k1, k2, k3}
  Endless = {k3}
  NoTask = NoTask
CHECK_DEADLOCK FALSE
INVARIANTS
  IndInv
  TasksAreConserved
  NoTaskWaitsForABusyWorker
PROPERTY
  TasksAreRun
  WorkersExit
