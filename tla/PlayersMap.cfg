\* a recv may return two lines
CONSTANTS
  Players = {1, 2}
  Me = 1
  Edge = 1
  Keys = {"a", "d", "s"}
  Junk = {9}
  Parts = 1
  Batch = 2
  Cap = 2
  MaxMoves = 2
SPECIFICATION MapSpec
INVARIANT MapTrue
PROPERTIES NeverBack Current
CHECK_DEADLOCK FALSE
