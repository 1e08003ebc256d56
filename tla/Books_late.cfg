CONSTANTS
  Clerks = {c1}
  Admins = {a1}
  NoRequest = NoRequest
  NumYears = 1
  PeriodsPerYear = 1
  Amounts <- OneAmount
  MaxEntries = 2
  MaxInFlight = 2
  c1 = c1
  a1 = a1
SPECIFICATION LateSpec
PROPERTY FrozenPeriods
