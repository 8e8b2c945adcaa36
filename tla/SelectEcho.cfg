\* three connections over two descriptors, two messages from each client
CONSTANTS
  Conns = {c1, c2, c3}
  Readers = {c1, c2, c3}
  LastFd = 5
  Parts = 1
  Cap = 2
  MaxSends = 2
SPECIFICATION Spec
INVARIANT RecvNeverBlocks
PROPERTIES Implements Answered
CHECK_DEADLOCK FALSE
