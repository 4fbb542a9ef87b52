SPECIFICATION Spec
CONSTANTS
  Procs = {p1, p2, p3}
  NoSem = NoSem
  max_tries = 3
  Worlds <- LargestWorlds
CHECK_DEADLOCK FALSE
INVARIANTS
  ExclusionUntilSpoilt
  ValueCountsHolders
PROPERTY
  EveryoneEnds
