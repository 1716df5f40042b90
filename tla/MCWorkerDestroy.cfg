SPECIFICATION Spec
CONSTANTS
  Api = {a1, a2}
  Main = Main
  Jobs = {j1, j2}
  NoJob = NoJob
  Runners = {r1, r2}
  NoRunner = NoRunner
  Tids = {t1, t2}
  NoTid = NoTid
  NoOne = NoOne
  SerialSignals = TRUE
INVARIANT DestroyStopsWork
