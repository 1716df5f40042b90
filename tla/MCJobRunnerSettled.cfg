SPECIFICATION Spec
CONSTANTS
  NTasks = 2
  SpawnMayFail = FALSE
  MaxCount = 1
  WithReader = FALSE
  MaxWrites = 0
INVARIANT Settled
