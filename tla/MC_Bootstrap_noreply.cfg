CONSTANTS
  r1 = r1  r2 = r2  p1 = p1  p2 = p2
  nP = nP  nR = nR  nS = nS
  Pred <- nP
  Self <- nR
  Succ <- nS
  Files <- MCFiles
  Owner <- MCOwner
  Iteration <- MCIteration
  InitSelf = {"PERSISTENT"}
  InitPred = {"CACHED", "PERSISTENT", "OBSOLESCENT"}
  PredEvicts = FALSE
  MinRetry = 1
  MaxRetry = 10
  NoRow = NoRow
SPECIFICATION Spec
PROPERTY BootstrapCompletes
