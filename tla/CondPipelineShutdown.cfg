\* SIGINT while the writer stands before its wait
CONSTANTS
  Blocks = 2
  FullBlocks = 1
  MaxReads = 3
  MaxSpurious = 0
SPECIFICATION Spec
PROPERTY ShutdownCompletes
CHECK_DEADLOCK FALSE
