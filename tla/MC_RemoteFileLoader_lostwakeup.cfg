CONSTANTS
  c1 = c1  c2 = c2  c3 = c3  c4 = c4  c5 = c5  ld = ld  f1 = f1  f2 = f2  req = req
  Default = Default  NoThread = NoThread
  Clients <- MCClients5
  Loader <- ld
  Threads <- MCThreads5
  Files <- MCFiles
  Values <- MCFiles
  Want <- MCWant5
  Req <- req
  Chans <- MCChans
  Cap <- MCCap
  MaxLoadFail = 0
SPECIFICATION Spec
PROPERTY ClientsServed
CHECK_DEADLOCK FALSE
