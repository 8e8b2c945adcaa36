\* three threads; round wraps, so an old round number comes back
CONSTANTS
  Threads = {t1, t2, t3}
  Count = 3
  Wrap = 4
SPECIFICATION Spec
INVARIANTS LeftCounts NobodyLeftAsleep
PROPERTIES Implements ReleasedReturn
