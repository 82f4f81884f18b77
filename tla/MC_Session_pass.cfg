CONSTANTS
  Ops <- MCOps
  NChunks = 2
  FailPoints <- MCClientFailPoints
  MaxFail = 1
  BlockPow = 3
  MaxResponses = 2
  BufferSize = 2
  SizeT = 1
  MaxMeta = 1
  MaxBytes = 5
  MaxTensors = 2
SPECIFICATION Spec
INVARIANT TypeOK TransferComplete RoundTrip CopyRaceFree HostImageExact
