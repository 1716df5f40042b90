SPECIFICATION Spec
CONSTANTS
  NWorkers = 2
  NConns = 3
  Conns <- MCConns
  NoFd = NoFd
  NListeners = 2
  Ep <- MCEp
  QCap = 2
  MaxSignals = 2
  SafeSignals = FALSE
  CreateMayFail = TRUE
INVARIANT TypeOK
INVARIANT OneOwner
INVARIANT NoMissedWakeup
INVARIANT NothingLeft
PROPERTY ImplementsQueue
CHECK_DEADLOCK FALSE
