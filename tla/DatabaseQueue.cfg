SPECIFICATION Spec
CONSTANTS
  NoOwner = NoOwner
  Backend = {"sqlite", "mongo"}
  Owner = {w1, w2}
  Body = {b1}
  TTL = 2
  MaxWait = 1
  MaxAttempts = 1
  MaxTasks = 2
  MaxTime = 5
SYMMETRY WorkerSymmetry
INVARIANTS TypeOK
PROPERTIES KeepsPromise
CHECK_DEADLOCK FALSE
