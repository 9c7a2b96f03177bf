SPECIFICATION Spec
CONSTANTS
  Batches <- ReadsAndWrites
  Guidance = {g1, g2}
  MaxSteps = 2
  MaxBlocks = 2
  MaxEmpties = 2
  MaxRecoveries = 1
  MaxNudges = 1
  MaxParallel = 2
  MaxTurns = 1
  g1 = g1
  g2 = g2
INVARIANTS ProviderOrder ToldWhatRan GuidanceIsHeard RoundsBounded
PROPERTIES TurnEnds
CHECK_DEADLOCK FALSE
