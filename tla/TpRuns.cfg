CONSTANT Jobs <- MCJobs
CONSTANT Stale = 77
CONSTANT MaxCalls = 3
CONSTANT MaxCall = 3
SPECIFICATION TpSpec
INVARIANT RanksAnswerReference
INVARIANT ReducesLineUp
