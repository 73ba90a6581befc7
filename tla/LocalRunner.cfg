SPECIFICATION FairSpec
CONSTANTS
  MaxGen = 2
  Worker = {w1}
  Exec <- Goroutines
  Branch = {1, 2}
  Stopper = {s1}
  MaxTasks = 2
INVARIANTS TypeOK FirstErrorWins ResultsComplete StopMeansStopped TaskKept
PROPERTIES NewWorkersSpared StopReturns TaskHandled
CHECK_DEADLOCK FALSE
