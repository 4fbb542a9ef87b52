SPECIFICATION Spec
SYMMETRY Symmetry
CONSTANTS
  Channels = {acc, c1, c2, c3, c4}
  acceptor = acc
  Fds = {3, 4, 5}
  ListenFd = 3
  None = None
  Peers = {p1, p2}
  MaxData = 1
  Allocate <- AnyAddress
CHECK_DEADLOCK FALSE
INVARIANTS
  EpollPointersAlive
  ActiveChannelsAlive
  ConnectionsOwnDescriptors
