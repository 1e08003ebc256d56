CONSTANTS
  Clerks = {c1,c2}
  Admins = {a1}
  NoRequest = NoRequest
  NumYears = 2
  PeriodsPerYear = 1
  Amounts <- OneAmount
  MaxEntries = 4
  MaxInFlight = 3
  c1 = c1
  c2 = c2
  a1 = a1

SPECIFICATION FairLateSpec

INVARIANT NumbersGapFree
INVARIANT ReversedOnce
PROPERTY RequestsFinish
PROPERTY ImplementsLedger
INVARIANT ClosedYearsStand
INVARIANT OnlyLateEntriesEscape
