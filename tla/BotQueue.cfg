SPECIFICATION FairSpec
CONSTANTS
  MaxMessages = 4
  MaxCommands = 1
  Cap = 2
  Drops = {"new", "old", "summarize"}
  Modes = {"steer", "followup", "collect", "interrupt"}
  StopAllowed = TRUE
INVARIANTS OneTurnUntilStopped TurnsInOrder
PROPERTIES QueuedMessageLeaves
CHECK_DEADLOCK FALSE
