CONSTANTS
  GoMaxProcs = 1
  SingleProc = FALSE
  MaxProcs = 8
SPECIFICATION FairSpec
INVARIANT TypeOK FleetConsistent
PROPERTY LoopsExit
