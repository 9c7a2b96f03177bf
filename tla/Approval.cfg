SPECIFICATION FairSpec
CONSTANTS
  s1 = s1
  MaxTurns = 1
  MaxCalls = 2
  Kinds = {"writer", "trust", "plan"}
  Setters = {s1}
INVARIANTS OnePrompt AnswerIsForItsCall FreshDecisionIsTheUsers WindowIsApproved
PROPERTIES DeadlineFreesEveryCall
CHECK_DEADLOCK FALSE
