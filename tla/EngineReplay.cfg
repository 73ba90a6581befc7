SPECIFICATION FairSpec
CONSTANTS
  c1 = c1
  c2 = c2
  e1 = e1
  e2 = e2
  s1 = s1
  s2 = s2
  NoEngine = NoEngine
  Data = Data
  None = None
  Call = {c1, c2}
  Engine = {e1, e2}
  EngineOf <- TwoEngines
  Steps <- AllKinds
  Signal = {s1, s2}
  Backend = "mongo"
  Api = {"Run", "Start", "RunInstance", "Resume", "SignalNow", "Signal", "GetInstance", "RecoverStuckInstances"}
  Solo = TRUE
  SlowSteps = TRUE
  StoreMayFail = FALSE
PROPERTIES NoStepRepeated ResultsAreKept RunningSettles KeepsLifecycle
