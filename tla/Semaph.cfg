\* three processes that create, open, use and close one semaphore
CONSTANTS
  Users = {p1, p2, p3}
  InitVal = 1
  BIGCOUNT = 4
SPECIFICATION Spec
INVARIANT CreateSurvives
