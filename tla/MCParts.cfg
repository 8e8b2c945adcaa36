\* two clients, three processes, one change of the tree, three calls of popen()
CONSTANTS
  Clients = {c1, c2}
  MaxKeys = 2
  MaxBytes = 3
  Cap = 2
  Fds = {0, 1, 2, 7, 1500}
  INFINITY = 9999
  Limits <- MCLimits
  Users = {p1, p2, p3}
  InitVal = 1
  BIGCOUNT = 4
  MAXLINE = 3
  Texts = {0, 2}
  Errors <- MCErrors
  Passed = fd
  Nothing = nothing
  Files = {"stdin", "twin"}
  Twin = "twin"
  Length <- MCLength
  NAME_MAX = 2
  PATH_MAX = 6
  MaxChanges = 1
  maxfd = 6
  Calls = 3
  Meetings = 3
SPECIFICATION Spec
INVARIANTS SpeedCommanded Exclusive Restored Detached Counted Found Delivered
PROPERTIES LeaverEnds Settles TurnComes CallsReturn
CHECK_DEADLOCK FALSE
