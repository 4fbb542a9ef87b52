SPECIFICATION Spec
CONSTANTS
  Channels = {acc, c1, c2, c3}
  acceptor = acc
  Fds = {3, 4}
  ListenFd = 3
  None = None
  Peers = {p1, p2}
  MaxData = 1
  Allocate <- OneAddress
CHECK_DEADLOCK FALSE
INVARIANT
  NoPhantomConnection
