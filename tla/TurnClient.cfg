\* a message arrives whole, as over the loopback interface
CONSTANTS
  Parts = 1
  Cap = 1
SPECIFICATION Spec
INVARIANT NoOverlap
PROPERTY BothServed
