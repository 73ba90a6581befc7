SPECIFICATION Spec
CONSTANTS
  Worker = {w1, w2}
  NoTask = NoTask
  MaxTasks = 3
  MaxAttempts = 2
INVARIANT NoTaskLost
CHECK_DEADLOCK FALSE
