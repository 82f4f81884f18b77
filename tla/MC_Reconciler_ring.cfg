\* Two-node ring, persistence on; backup, persist and allocation may each fail once.
CONSTANTS
  f1 = f1  f2 = f2  f3 = f3  w1 = w1  w2 = w2
  Files <- MCFiles
  Workers <- MCWorkers
  Iteration <- MCIteration
  NoRow = NoRow
  WorldSize = 2
  Persistent = TRUE
  MaxIteration = 2
  QueueCap = 2
  MaxBackupFail = 1
  MaxPersistFail = 1
  MaxOom = 1
SPECIFICATION Spec
INVARIANT TypeOK NoReadAfterDelete NoDataLoss ReplicatedWhenBackedUp
