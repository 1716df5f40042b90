SPECIFICATION FairSpec
CONSTANTS
  NWorkers = 1
  NConns = 1
  Conns <- MCConns
  NoFd = NoFd
  NListeners = 1
  Ep <- MCEp
  QCap = 1
  MaxSignals = 1
  SafeSignals = FALSE
  CreateMayFail = FALSE
PROPERTY StopCompletes
CHECK_DEADLOCK FALSE
