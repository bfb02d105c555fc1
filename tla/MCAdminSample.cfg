CONSTANTS
  InitProcs = 3
  MaxGrow = 1
SPECIFICATION FairSpec
INVARIANT TypeOK
PROPERTY WatchersFinishWhenSized
