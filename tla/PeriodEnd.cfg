CONSTANTS
  Clerks = {c1}
  Uploads = {w1,w2}
  BankAccounts = {"A","B"}
  Dates = {1,2}
  Rows <- CrossingRows
  Files <- CrossingFiles
  Movements <- OneAccountMovements
  MaxPosted = 3
  c1 = c1
  w1 = w1
  w2 = w2
  Branches = {b1}
  Company = company
  Vouchers <- Trade
  NumYears = 2
  DaysPerYear = 2
  DaysPerBucket = 3
  PageSize = 2
  EntryDays = {1, 2, 3}
  Windows <- AcrossTheYearEnd
  MaxManual = 2
  MaxEntries = 6
  STEP = 20000
  StartIncomes <- EitherSide
  Stretch = 52000000
  MaxAssets = 3
  RatePercent = 25
  Costs = {10000}
  Proceeds = {2500, 12000}
  LastYear = 3
  Prices <- OddPrices
  PriceStretch = 30
  Quantities = {1, 2}
  TaxRates = {0, 5, 18, 28}
  CessRates = {0, 12}
  Discounts = {0, 10}
  MaxHead = 2
  SideDays <- SpreadDays
  Amounts = {m}
  References = {r}
  NoReference = none
  MaxLines = 2
  MaxBooked = 3

\* The calculations end when their bounded inputs are used up.
CHECK_DEADLOCK FALSE
SYMMETRY UploadSymmetry

SPECIFICATION Spec

INVARIANT NothingUnexplained
INVARIANT RecordedOnce
INVARIANT LinksStand
INVARIANT ProfitExplainsNetWorth
INVARIANT RetainedEarningsAreTheProfits
INVARIANT ReportsBalance
INVARIANT LedgerContinues
INVARIANT LeastCash
PROPERTY NeverWorseOffForEarning
INVARIANT ClaimsStand
INVARIANT LinesAddUp
INVARIANT SuggestionsAreTheStrongest
