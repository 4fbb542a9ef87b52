SPECIFICATION Spec
CONSTANTS
  Peers = {p1, p2}
  Kids = {k1, k2}
  parent = parent
  None = None
  MaxSent = 1
CHECK_DEADLOCK FALSE
INVARIANTS
  OneOwner
PROPERTIES
  ClosedPeerIsReleased
  QueuedPeerIsAccepted
