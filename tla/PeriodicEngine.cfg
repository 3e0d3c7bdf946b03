\* An alarm that enters its state twice, two engines, one failure.
SPECIFICATION FairSpec
CONSTANTS
  Engines = {e1, e2}
  NoEngine = NoEngine
  Notifications = {n1}
  MaxTransitions = 2
  MaxFaults = 1
  NoMessage = NoMessage
INVARIANTS TypeOK StreamKept StreamsPaidFor LateSendsPaidFor
PROPERTIES KeepsSending FallsSilent
CHECK_DEADLOCK FALSE
