\* What the README says of the retry limit, when a lookup raises.
SPECIFICATION Spec
CONSTANTS
  Engines = {e1}
  NoEngine = NoEngine
  Notifications = {n1}
  MaxAttempts = 2
  MaxFaults = 1
  NoMessage = NoMessage
INVARIANT RetriedToTheLimit
CHECK_DEADLOCK FALSE
