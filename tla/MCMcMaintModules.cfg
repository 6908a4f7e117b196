CONSTANTS
  NumUnits = 3
  Junk = Junk
SPECIFICATION Spec
INVARIANT MenuHasMainModules
CHECK_DEADLOCK FALSE
