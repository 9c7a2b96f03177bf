SPECIFICATION Spec
CONSTANTS
  f1 = f1
  f2 = f2
  g1 = g1
  g2 = g2
  r1 = r1
  r2 = r2
  s1 = s1
  s2 = s2
  Frontends = {f1}
  Goals = {g1}
  Reasons = {r1}
  Sessions = {s1, s2}
  Todos <- AnyTodos
  MaxAutoTurns = 3
  MaxIdleTurns = 2
  MaxCommands = 2
  MaxRestarts = 1
INVARIANTS TypeOK FileIsCurrent
PROPERTIES GoalEndsForCause LoopEnds
CHECK_DEADLOCK FALSE
