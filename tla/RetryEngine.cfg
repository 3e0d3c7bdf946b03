\* One notification, three attempts, two engines, two failures.
SPECIFICATION FairSpec
CONSTANTS
  Engines = {e1, e2}
  NoEngine = NoEngine
  Notifications = {n1}
  MaxAttempts = 3
  MaxFaults = 2
  NoMessage = NoMessage
INVARIANTS TypeOK NotDroppedEarly AttemptsPaidFor LateSendsPaidFor
PROPERTY RetriesEnd
CHECK_DEADLOCK FALSE
