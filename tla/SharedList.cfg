\* two processes, whose users wait for each other, with two objects, or do not, with one
CONSTANTS
  Procs = {p1, p2}
  Values = {1, 2}
  Limit = 2
  Objects = 2
  Crowded = 1
SPECIFICATION Spec
INVARIANTS InBounds ListEnds
PROPERTIES Implements CommandsEnd
CHECK_DEADLOCK FALSE
