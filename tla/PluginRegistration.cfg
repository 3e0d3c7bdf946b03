\* Three processes with different plugins, every initial table, every kind of
\* repository, and one database error for each process.
SPECIFICATION FairSpec
CONSTANTS
  p1 = p1
  p2 = p2
  p3 = p3
  email = email
  webhook = webhook
  slack = slack
  Processes <- MCProcesses
  Types <- MCTypes
  Enabled <- MCEnabled
  Drivers = {"mysql", "pgsql", "orm"}
  MaxErrors = 1
INVARIANTS TypeOK ReadyIsRegistered
PROPERTY RegistrationEnds
CHECK_DEADLOCK FALSE
