\* A child that dies before main has installed the handler of SIGCHLD.
SPECIFICATION FairSpec
CONSTANTS
  N = 2
  MaxSignals = 0
PROPERTY ChildDeathEndsDaemon
CHECK_DEADLOCK FALSE
