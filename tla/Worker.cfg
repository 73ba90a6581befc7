SPECIFICATION FairSpec
CONSTANTS
  NoOwner = NoOwner
  Owner = {w1, w2}
  MaxAttempts = 2
  Timeouts = TRUE
  MaxSubmitted = 2
  MaxTasks = 3
  EngineErrors = TRUE
  MaxFaults = 1
INVARIANTS TypeOK StartNotForgotten AttemptsBounded
PROPERTIES StartedRuns AttemptsCounted
CHECK_DEADLOCK FALSE
