\* both processes; pending signals are sets, so nothing needs a bound
SPECIFICATION ShakeSpec
INVARIANT ReleaseIsComing
PROPERTIES StopsAfterInt
CHECK_DEADLOCK FALSE
