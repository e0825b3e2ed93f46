CONSTANT Jobs <- TallJobs
CONSTANT Stale = 77
CONSTANT MaxCall = 3
SPECIFICATION Spec
INVARIANT BlocksFit
CHECK_DEADLOCK FALSE
