SPECIFICATION FairSpec
CONSTANTS
    s1 = s1
    Sessions = {s1}
    NoSession = NoSession
    StartIn = {NoSession, s1}
    MaxJobs = 1
    StallWarning = TRUE
INVARIANTS CompletionToldOnce NaturalEndNoted
PROPERTIES  DestroyWindowCloses CloseReleasesTempRoot
CHECK_DEADLOCK FALSE
