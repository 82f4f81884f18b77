\* A stale reconciler overwrites an evicted (OBSOLESCENT) record with BROKEN.
CONSTANTS
  f1 = f1  f2 = f2  f3 = f3  w1 = w1  w2 = w2
  Files <- MCFiles
  Workers <- MCWorkers
  Iteration <- MCIteration
  NoRow = NoRow
  WorldSize = 2
  Persistent = TRUE
  MaxIteration = 2
  QueueCap = 4
  MaxBackupFail = 0
  MaxPersistFail = 0
  MaxOom = 0
SPECIFICATION Spec
PROPERTY LegalTransitions
