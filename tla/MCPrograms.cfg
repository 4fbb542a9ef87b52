SPECIFICATION AllSpec
CONSTANTS
  Threads = {t1, t2, t3}
  NULL = NULL
  MaxRefs = 3
  parent = parent
  MAX_PID_CNT = 3
  MsgLen = 2
  num_threads = 3
  Clients = {c1, c2, c3}
  RcvBuf = 2
  MaxFailed = 2
CHECK_DEADLOCK FALSE
INVARIANTS
  CountsReferences
  NoUseAfterFree
  WriterFindsReader
  PipeHasTwoEnds
  StepsDoNotMix
  MemoryOutlivesUse
  CountedClientsWait
PROPERTIES
  LastReleaseFrees
  NobodyWaitsForever
