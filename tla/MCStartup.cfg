SPECIFICATION FairSpec
CONSTANTS
  Instances = {i1, i2}
  Configs <- MCConfigs
  MaxEvents = 3
INVARIANT TypeOK
INVARIANT RunningIsReachable
INVARIANT NothingLeftBehind
INVARIANT Outlive
PROPERTY RecoversFromStalePath
