CONSTANTS
  Sales = {s1}
  Requests = {r1,r2}
  Nobody = Nobody
  Total = 2
  Amounts = {2}
  Operations = {"RECEIVE", "RETURN"}
  MaxReceipts = 2
  MaxInFlight = 2
  s1 = s1
  r1 = r1
  r2 = r2

SPECIFICATION Spec

PROPERTY AllocationNeverExceedsOwed
