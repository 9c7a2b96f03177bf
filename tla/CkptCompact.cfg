SPECIFICATION Spec
CONSTANTS
  p1 = p1
  p2 = p2
  c1 = c1
  Paths = {p1}
  Contents = {c1}
  Absent = Absent
  NoPath = NoPath
  MaxTurns = 3
  MaxLog = 5
  Targets = {0, 1}
  Scopes = {"code", "conversation", "both"}
  CrashPoints = {"idle", "turn", "rewind"}
  Compaction = TRUE
  Summaries = TRUE
  Overlap = FALSE
  DeleteFails = TRUE
PROPERTIES PromptsKept
CHECK_DEADLOCK FALSE
