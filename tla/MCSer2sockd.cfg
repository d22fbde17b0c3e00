SPECIFICATION FairSpec
CONSTANTS
  MAXCONNECTIONS = 3
  MAX_FIFO_BUFFERS = 2
  MaxFd = 4
  BufferSize = 2
  MaxSent = 3
INVARIANTS StreamHasNoGap SocketsAreOwnedOnce
PROPERTIES SlowClientsAreClosed
