\* Two allocating threads, two files, requests of 1 or 2 units, capacity 3, size_t of 3 bits.
CONSTANTS
  t1 = t1  t2 = t2  f1 = f1  f2 = f2
  Threads = {t1, t2}
  Files = {f1, f2}
  Sizes <- MCSizes
  Capacity = 3
  SizeBits = 3
  Callers = {"createMetadata", "handleBackup", "TryLoadFromFile"}
  MaxOps = 4
  MaxFail = 1
SPECIFICATION Spec
INVARIANT WithinCapacity
CHECK_DEADLOCK FALSE
