SPECIFICATION FairSpec
CONSTANTS
  N = 2
  MaxAttempts = 2
  MayDie = TRUE
  Ids = {"x", "y"}
INVARIANTS
  IInv
  BarrierSafe
  LeavesNobodyBehind
  HonestVerdict
  AbortedForAReason
PROPERTIES
  RelaunchIsClean
  ImplementsBarrier
  CoordinatorReturns
  OrphansLeave
