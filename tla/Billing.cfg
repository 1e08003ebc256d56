CONSTANTS
  Prices <- ThreePrices
  TrialPlan = 2
  Users = {u1}
  Handlers = {h1}
  MaxInvoices = 2
  MaxAttempts = 2
  MaxCrashes = 1
  u1 = u1
  h1 = h1

\* Once the bounded invoices are used up on the cheapest plan nothing is left to do.
CHECK_DEADLOCK FALSE

SPECIFICATION FairSpec

PROPERTY UpgradesArePaid
PROPERTY PaidStaysPaid
PROPERTY PaidOrdersAreApplied
INVARIANT OrdersAreKnown
INVARIANT OneOrderWaitsPerPlan
