CONSTANTS
  Requests = {r1}
  Employees = {"head", "hand"}
  Staff <- TwoPeople
  Policy <- Registered
  Months = {1}
  Withholdings <- TypedTax
  LastYear = 1
  MaxRuns = 1
  MaxPayments = 1
  r1 = r1

\* Once the bounded runs and payments are used up nothing is left to do.
CHECK_DEADLOCK FALSE

SPECIFICATION Spec

PROPERTY TakesBackOnlyDebtsThere
