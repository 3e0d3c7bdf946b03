\* The alarms that pass the parser may lack the field that Notification reads.
SPECIFICATION FairSpec
CONSTANTS
  p1 = p1
  p2 = p2
  m1 = m1
  m2 = m2
  m3 = m3
  Engines = {e1}
  Partitions = {p1}
  NumAlarms = 2
  AlarmKinds = {"incomplete", "valid"}
  Methods <- MCMethods
  Actions <- MCActions
  Configured <- MCConfigured
  Periodic <- MCPeriodic
  MaxFaults = 0
  NoEngine = NoEngine
  NoAlarm = NoAlarm
PROPERTY ParsedAlarmsCommitted
CHECK_DEADLOCK FALSE
