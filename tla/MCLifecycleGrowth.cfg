CONSTANTS
  GoMaxProcs = 1
  SingleProc = FALSE
  MaxProcs = 4
SPECIFICATION Spec
PROPERTY GrowOnlyWhenSustained
