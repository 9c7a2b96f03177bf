SPECIFICATION Spec
CONSTANTS
  a = a
  b = b
  Controllers = {a, b}
  Scenarios <- SharedOrAlone
CONSTRAINT NotDivergent
SYMMETRY ControllerSymmetry
INVARIANTS TypeOK SavedMessageSurvives NothingSaidIsLost
CHECK_DEADLOCK FALSE
PROPERTY SavesOwnWhatTheyReplace
