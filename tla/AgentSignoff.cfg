SPECIFICATION Spec
CONSTANTS
  Batches <- Verified
  Guidance = {}
  MaxSteps = 2
  MaxBlocks = 2
  MaxEmpties = 2
  MaxRecoveries = 1
  MaxNudges = 1
  MaxParallel = 2
  MaxTurns = 1
INVARIANT SignOffIsProven
CHECK_DEADLOCK FALSE
