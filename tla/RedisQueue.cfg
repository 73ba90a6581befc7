SPECIFICATION Spec
CONSTANTS
  NoOwner = NoOwner
  Owner = {w1, w2}
  TTL = 1
  Batch = 1
  MaxWait = 1
  MaxTasks = 2
  MaxTime = 3
SYMMETRY WorkerSymmetry
INVARIANTS TypeOK Recoverable NeverEarly
PROPERTIES KeepsPromise
CHECK_DEADLOCK FALSE
