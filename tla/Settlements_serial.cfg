CONSTANTS
  Sales = {s1,s2}
  Requests = {r1}
  Nobody = Nobody
  Total = 2
  Amounts = {1,2}
  Operations <- Everything
  MaxReceipts = 2
  MaxInFlight = 1
  s1 = s1
  s2 = s2
  r1 = r1

SPECIFICATION Spec

INVARIANT PaidMatchesAllocations
PROPERTY AllocationNeverExceedsOwed
INVARIANT VoidedSalesAreSettled
