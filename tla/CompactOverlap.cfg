SPECIFICATION Spec
CONSTANTS
    RecentKeep = 1
    TailBudget = 12
    SmallEnough = 8
    WorthPruning = 3
    WorthFolding = 3
    UserTurns <- BriefNormalPaste
    ToolResults <- LongOrError
    CallLists <- OneOrTwoCalls
    MaxMessages = 6
    ArchiveDir = TRUE
    Collide = FALSE
    Overlap = TRUE
INVARIANTS UserTurnsSurvive
CHECK_DEADLOCK FALSE
