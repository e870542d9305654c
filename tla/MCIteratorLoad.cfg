SPECIFICATION Spec
CONSTANTS
  NbWorkers = 2
  BatchSize = 3
  MaxKey = 3
  Commands = {"seek"}
  MaxCommands = 1
  MayFail = FALSE
  NULL = NULL
PROPERTY AllLoadedWhenMerged
CHECK_DEADLOCK FALSE
