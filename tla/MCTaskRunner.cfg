SPECIFICATION Spec
CONSTANTS
  NTasks = 1
  SpawnMayFail = FALSE
INVARIANT OutcomeRecorded
INVARIANT CompletedExited0
PROPERTY StopReturns
