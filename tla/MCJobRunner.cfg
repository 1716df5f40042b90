SPECIFICATION FairSpec
CONSTANTS
  NTasks = 2
  SpawnMayFail = TRUE
  MaxCount = 0
  WithReader = FALSE
  MaxWrites = 1
INVARIANT TypeOK
INVARIANT NoOrphans
INVARIANT OneAtATime
PROPERTY NoDoubleRun
PROPERTY RunsWhatIsLeft
PROPERTY ImplementsExecution
PROPERTY StopReturns
PROPERTY WaitReturns
