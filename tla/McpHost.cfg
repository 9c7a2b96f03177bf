SPECIFICATION Spec
CONSTANTS
  t1 = t1
  t2 = t2
  Tabs = {t1, t2}
  Users = {t1}
  MaxSpawns = 2
INVARIANTS OneServer NoEscape ToolsAreOfTheServer
PROPERTIES NothingHangs
CHECK_DEADLOCK FALSE
