SPECIFICATION FairSpec
CONSTANTS
  NbWorkers = 2
  BatchSize = 2
  MaxKey = 3
  Commands = {"seek", "first"}
  MaxCommands = 2
  MayFail = TRUE
  NULL = NULL
INVARIANTS
  TypeOK
  SeenOnce
  NothingSkipped
  ItemsAlive
  BatchesOwned
PROPERTY NextReturns
CHECK_DEADLOCK FALSE
