\* Two partitions that move between two engines, two failures.
SPECIFICATION Spec
CONSTANTS
  p1 = p1
  p2 = p2
  m1 = m1
  m2 = m2
  m3 = m3
  Engines = {e1, e2}
  Partitions <- MCPartitions
  NumAlarms = 1
  AlarmKinds = {"malformed", "incomplete", "valid"}
  Methods <- MCMethods
  Actions <- MCActions
  Configured <- MCConfigured
  Periodic <- MCPeriodic
  MaxFaults = 2
  NoEngine = NoEngine
  NoAlarm = NoAlarm
SYMMETRY EngineSymmetry
INVARIANTS TypeOK NoLoss ExpiresWhole AttemptsPaidFor
PROPERTY DeliveryPromise
CHECK_DEADLOCK FALSE
