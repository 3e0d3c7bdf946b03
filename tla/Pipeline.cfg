\* Two notification engines and a retry engine, two alarms, one method, one retry, one
\* failure.
SPECIFICATION PipelineFairSpec
CONSTANTS
  Engines = {e1, e2}
  RetryEngines = {r1}
  Partitions = {p1}
  NumAlarms = 2
  AlarmKinds = {"valid"}
  Methods = {m1}
  Actions <- MCActions
  Configured = {m1}
  Periodic = {}
  MaxAttempts = 2
  MaxFaults = 1
  NoEngine = NoEngine
  NoAlarm = NoAlarm
  NoMessage = NoMessage
INVARIANTS NothingForgotten ToldPaidFor TriesPaidFor StaleIsExplained DeliveredInOrder
  AtMostOneInFlight
PROPERTY EverybodyIsTold
CHECK_DEADLOCK FALSE
