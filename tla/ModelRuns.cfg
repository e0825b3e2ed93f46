CONSTANT Jobs <- MCJobs
CONSTANT Stale = 77
CONSTANT MaxCall = 3
SPECIFICATION Spec
INVARIANT AnswersAreReference
INVARIANT AnyOrderComputesTheSame
INVARIANT ForwardIsReference
INVARIANT ProbeIsReference
CHECK_DEADLOCK FALSE
