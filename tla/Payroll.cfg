CONSTANTS
  Requests = {r1,r2}
  Employees = {"head", "hand"}
  Staff <- TwoPeople
  Policy <- Registered
  Months = {1, 2}
  Withholdings <- TypedTax
  LastYear = 3
  MaxRuns = 3
  MaxPayments = 1
  r1 = r1
  r2 = r2

\* Once the bounded runs and payments are used up nothing is left to do.
CHECK_DEADLOCK FALSE
SYMMETRY RequestSymmetry

SPECIFICATION Spec

INVARIANT PayrollStands
PROPERTY CalendarStands
