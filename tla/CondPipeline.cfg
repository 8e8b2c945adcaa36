\* four reads, of which the third is short; one spurious wakeup
CONSTANTS
  Blocks = 3
  FullBlocks = 2
  MaxReads = 4
  MaxSpurious = 1
SPECIFICATION Spec
INVARIANTS RecordsFollowReads WriterNotAhead
PROPERTIES ReaderStops OrderlyShutdown
CHECK_DEADLOCK FALSE
