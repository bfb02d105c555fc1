CONSTANTS
  InitProcs = 2
  MaxGrow = 1
SPECIFICATION FairSpec
PROPERTY WatchersFinish
