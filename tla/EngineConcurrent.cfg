SPECIFICATION Spec
CONSTANTS
  c1 = c1
  c2 = c2
  e1 = e1
  e2 = e2
  s1 = s1
  s2 = s2
  NoEngine = NoEngine
  Data = Data
  None = None
  Call = {c1, c2}
  Engine = {e1, e2}
  EngineOf <- TwoEngines
  Steps <- ShortApproval
  Signal = {s1}
  Backend = "redis"
  Api = {"Start", "RunInstance", "Resume", "SignalNow", "Signal", "RecoverStuckInstances"}
  Solo = FALSE
  SlowSteps = FALSE
  StoreMayFail = TRUE
INVARIANTS TypeOK StatusIsEarned LeaseExclusive ResultsInOrder
