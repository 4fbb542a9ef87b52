SPECIFICATION Spec
CONSTANTS
  Peers = {p1, p2}
  Fds = {4, 5, 6}
  listenfd = 4
  None = None
  MAXLEN = 2
  MaxSent = 3
CHECK_DEADLOCK FALSE
INVARIANTS
  EventsAreCurrent
  NoEdgeIsLost
PROPERTIES
  EveryByteIsRead
  ClosedPeerIsReleased
