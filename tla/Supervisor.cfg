\* Two children, two signals from outside.
SPECIFICATION FairSpec
CONSTANTS
  N = 2
  MaxSignals = 2
INVARIANTS TypeOK StatusTellsCause ExitIsCarriedOut NoOrphans
PROPERTY SignalsEndDaemon
CHECK_DEADLOCK FALSE
