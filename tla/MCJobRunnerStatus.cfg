SPECIFICATION Spec
CONSTANTS
  NTasks = 2
  SpawnMayFail = FALSE
  MaxCount = 1
  WithReader = TRUE
  MaxWrites = 0
INVARIANT CompletedIsTrue
