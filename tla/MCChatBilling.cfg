CONSTANTS
  r1 = r1  r2 = r2
  Requests <- MCRequests
  Minimums = {0, 1}
  Costs = {0, 2}
  MaxCost = 2
  Quotas = {0, 3}
  DefaultQuota = 2
  CostLimit = 1
  Amounts = {2}
  MaxCredit = 2
  MaxMonth = 2
  MaxFaults = 1
SPECIFICATION Spec
SYMMETRY Symmetry
INVARIANTS OverdraftBounded CostOvershootBounded QuotaRespected BooksAgree
