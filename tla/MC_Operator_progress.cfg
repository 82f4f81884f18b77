\* Two-node ring, persistence on, no failures: the progress the reconciler promises.
CONSTANTS
  f1 = f1  f2 = f2  f3 = f3  w1 = w1  w2 = w2
  Files <- MCFiles
  Workers <- MCWorkers
  Iteration <- MCIteration
  NoRow = NoRow
  WorldSize = 2
  Persistent = TRUE
  MaxIteration = 2
  QueueCap = 4
  MaxBackupFail = 0
  MaxPersistFail = 0
  MaxOom = 0
  Interval = 2
  MaxClaims = 3
  MaxTime = 6
  MaxSkew = 1
SPECIFICATION MCSpec
INVARIANT LimTypeOK RateLimited DelayBounded
PROPERTY EvictionTerminates EventuallyDurable
