\* The third driver that the help of repo_driver names, and a database without errors.
SPECIFICATION Spec
CONSTANTS
  p1 = p1
  p2 = p2
  p3 = p3
  email = email
  webhook = webhook
  slack = slack
  Processes <- MCProcesses
  Types <- MCTypes
  Enabled <- MCEnabled
  Drivers = {"orm"}
  MaxErrors = 0
INVARIANT WorkingDatabaseSuffices
CHECK_DEADLOCK FALSE
