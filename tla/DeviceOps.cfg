SPECIFICATION Spec
CONSTANTS
    Programs <- MCPrograms
    Later <- MCLater
    Cards = 2
    MaxCalls = 2
    MaxRetries = 1
INVARIANTS
    AnswerIsReference
    OnlyFailuresLeak
    NothingFreedInFlight
