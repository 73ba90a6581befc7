SPECIFICATION Spec
CONSTANTS
  a = a
  b = b
  c1 = c1
  c2 = c2
  e1 = e1
  e2 = e2
  NoEngine = NoEngine
  Absent = Absent
  Call = {c1, c2}
  Engine = {e1, e2}
  EngineOf <- TwoProcesses
  Id = {1, 2}
  Definition <- Orders
  MaxCalls = 4
  MaxCrashes = 1
INVARIANT ReplayedAsStarted
SYMMETRY Fingerprints
CHECK_DEADLOCK FALSE
