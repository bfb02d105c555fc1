CONSTANTS
  InitProcs = 2
  MaxGrow = 1
SPECIFICATION Spec
INVARIANT ErrorHasErrorStatus
