\* three clients, places for one or two workers, two listening sockets, a file of
\* two lines and an empty one
CONSTANTS
  a = a
  b = b
  mute = mute
  Clients = {a, b, mute}
  Message <- MCMessage
  MaxWorkers = {1, 2}
  Ports = 2
  Port <- MCPort
  File <- MCFile
SPECIFICATION Spec
INVARIANTS OwnAnswer NothingLeft
PROPERTIES Answered
CHECK_DEADLOCK FALSE
