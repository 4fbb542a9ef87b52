SPECIFICATION Spec
CONSTANTS
  Consumers = {t1, t2}
  main = main
  Addr = {a1, a2, a3}
  NULL = NULL
  N = 3
  MaxSpurious = 1
CHECK_DEADLOCK FALSE
INVARIANTS
  MutualExclusion
  PointersValid
  NothingLostOrRepeated
PROPERTIES
  ImplementsMsgStack
  AllPrinted
