SPECIFICATION Spec
CONSTANTS
  None = None
  MaxTime = 100
  MaxGroup = 4
  MaxHistory = 2
  MaxEdits = 3
  Project <- MCProject
  Groups <- MCGroups
INVARIANTS
  UndoIsPossible
PROPERTIES
  UndoAndRedoAreExact
  SplitIsSeamless
  CaptionsAreNotDetached
CHECK_DEADLOCK FALSE
