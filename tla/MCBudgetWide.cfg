SPECIFICATION BudgetSpec
CONSTANTS
  r1 = r1
  r2 = r2
  a1 = a1
  a2 = a2
  NoLease = NoLease
  NoRow = NoRow
  Requests <- MCRequests
  Attempts <- MCAttempts
  ShardCount = 2
  Cap = 2
  Estimate <- MCEstimate
  Costs <- BothCosts
INVARIANTS BooksExact CallIsCovered
