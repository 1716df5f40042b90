SPECIFICATION FairSpec
CONSTANTS
  NWorkers = 2
  NConns = 2
  Conns <- MCConns
  NoFd = NoFd
  NListeners = 2
  Ep <- MCEp
  QCap = 1
  MaxSignals = 1
  SafeSignals = TRUE
  CreateMayFail = FALSE
PROPERTY AcceptedIsClosed
PROPERTY StopCompletes
