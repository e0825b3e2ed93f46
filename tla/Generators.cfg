SPECIFICATION Spec
CONSTANTS
  Plans <- MCPlans
  MinCapacity = 2
  MaxKeyBuckets = 2
  MaxFailures = 1
INVARIANTS
  ApprovedGrowthFits
  CardAccounted
  RefusalNamesLargest
