\* two clients that come one at a time, two chunks of memory; they leave one at a
\* time, or whenever they like
CONSTANTS
  Clients = {c1, c2}
  Fds = {1, 2}
  Watched = 2
  Threads = {1, 2}
  Nodes = {1, 2}
  Spacings = {{"arrivals", "departures"}, {"arrivals"}}
SPECIFICATION Spec
INVARIANTS NothingLeft OwnThread
PROPERTIES Implements Told
CHECK_DEADLOCK FALSE
