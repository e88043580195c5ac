SPECIFICATION Spec
CONSTANTS
  MAX_NUM_TAPS = 2
  MaxLen = 3
  Batch <- MCBatch
INVARIANTS
  LoopsComputeReference
  EveryClaimAnswered
  OccupantPours
CHECK_DEADLOCK FALSE
