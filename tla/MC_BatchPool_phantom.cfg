CONSTANTS
  w1 = w1  w2 = w2  fd = fd  hd = hd  m1 = m1  m2 = m2  ch = ch  resch = resch
  Default = Default  NoThread = NoThread
  Workers <- MCWorkers
  Feeder <- fd
  Handler <- hd
  Threads <- MCThreads
  Tasks <- MCTasks
  TaskSeq <- MCTaskSeq
  Ch <- ch
  ResCh <- resch
  Chans <- MCChans
  Values <- MCValues
  Cap <- MCCap
SPECIFICATION Spec
INVARIANT NoFatalTask
CHECK_DEADLOCK FALSE
