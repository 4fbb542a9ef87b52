SPECIFICATION Spec
CONSTANTS
  Procs = {p1, p2, p3}
  NoSem = NoSem
  max_tries = 3
  Worlds <- AsCommitted
CHECK_DEADLOCK FALSE
INVARIANT
  MutualExclusion
