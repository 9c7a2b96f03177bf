SPECIFICATION Spec
CONSTANTS
  p1 = p1
  p2 = p2
  c1 = c1
  Paths = {p1, p2}
  Contents = {c1}
  Absent = Absent
  NoPath = NoPath
  MaxTurns = 3
  MaxLog = 5
  Targets = {0, 1, 2}
  Scopes = {"both"}
  CrashPoints = {"idle", "turn"}
  Compaction = FALSE
  Summaries = FALSE
  Overlap = FALSE
  DeleteFails = FALSE
SYMMETRY FileSymmetry
CONSTRAINT RewindLeavesContent
INVARIANTS TypeOK SoleWriterKeepsItsFile
PROPERTIES RewindRestoresTurnStart RewindCutsAtTurn
CHECK_DEADLOCK FALSE
