----------------------------- MODULE Statements -----------------------------
(***************************************************************************)
(* What the accounts say: the reports every screen and return is drawn     *)
(* from (accountBalances, the trial balance, the financial statements, one *)
(* account's ledger page by page, the revenue trend), over a ledger that   *)
(* manual entries, their reversal, the closing and reopening of years and  *)
(* the retiring of accounts have been writing.                             *)
(*                                                                         *)
(* One request runs at a time here (Books has the interleavings), and each *)
(* report is read as of one instant.  A line is its signed amount, debit   *)
(* positive; a line of nil is a line that was not written.  A year's months*)
(* are shut exactly when the year is closed.                               *)
(***************************************************************************)
EXTENDS Integers, Sequences, FiniteSetsExt, Functions

CONSTANTS
    Branches,        \* branches of the company
    Company,         \* "no branch": the branchId of a closing entry, and of a
                     \* report on the whole business
    Vouchers,        \* manual entries: the account debited, credited, the amount
    NumYears,
    DaysPerYear,
    DaysPerBucket,   \* days of one bucket of the revenue trend
    PageSize,        \* rows of a ledger page (LEDGER_PAGE_SIZE, 50)
    EntryDays,       \* days on which manual entries are dated
    Windows,         \* first and last days of the reports looked at
    MaxManual,       \* bound: manual entries
    MaxEntries       \* bound: entries ever posted

ASSUME CompanyAssumption == Company \notin Branches
ASSUME CalendarAssumption ==
    /\ {NumYears, DaysPerYear, DaysPerBucket, PageSize} \subseteq Nat \ {0}
    /\ EntryDays \subseteq 1 .. NumYears * DaysPerYear
    /\ \A w \in Windows : /\ {w[1], w[2]} \subseteq 1 .. NumYears * DaysPerYear
                          /\ w[1] <= w[2]   \* runReport refuses any other

Years == 1 .. NumYears
Days  == 1 .. NumYears * DaysPerYear
YearOf(day) == (day - 1) \div DaysPerYear + 1
YearEnd(y)  == y * DaysPerYear

\* The chart of accounts: one account of each kind the reports treat apart.
\* Four of them run against their type, and one was made by the business.
Account(type, nature, section) == [type |-> type, nature |-> nature, section |-> section]
Chart ==
    [CASH          |-> Account("ASSET", "DEBIT", "BALANCE_SHEET"),
     DEPRECIATED   |-> Account("ASSET", "CREDIT", "BALANCE_SHEET"),
     LOAN          |-> Account("LIABILITY", "CREDIT", "BALANCE_SHEET"),
     DRAWINGS      |-> Account("EQUITY", "DEBIT", "BALANCE_SHEET"),
     RETAINED      |-> Account("EQUITY", "CREDIT", "BALANCE_SHEET"),
     SALES         |-> Account("INCOME", "CREDIT", "TRADING"),
     SALES_RETURNS |-> Account("INCOME", "DEBIT", "TRADING"),
     OWN_EXPENSE   |-> Account("EXPENSE", "DEBIT", "PROFIT_AND_LOSS")]
Accounts == DOMAIN Chart
ASSUME VouchersAssumption ==
    \A v \in Vouchers : /\ v.debit \in Accounts /\ v.credit \in Accounts \ {v.debit}
                        /\ v.amount \in Nat \ {0}
IsSystem(a) == a # "OWN_EXPENSE"
Typed(type) == {a \in Accounts : Chart[a].type = type}
Results     == Typed("INCOME") \union Typed("EXPENSE")

VARIABLES
    book,      \* journal entries in the order of their numbers
    closed,    \* FiscalYear.closedAt is set
    isActive   \* Account.isActive

reportVars == <<book, closed, isActive>>

ReversesNone == 0
Entries == DOMAIN book

---------------------------------------------------------------------------
(* Faulty forms of definitions below, against which the properties are     *)
(* checked; the specification does not use them.                           *)

FaultKeepsClosing(w)      == {"MANUAL", "CLOSING_ENTRY"}
FaultOwnNature(a, debit, credit) ==
    IF Chart[a].nature = "DEBIT" THEN debit - credit ELSE credit - debit
FaultActiveOnly(y)        == {a \in Results : isActive[a]}
FaultPerPage(page, i)     == (page - 1) * PageSize + 1 .. i
FaultNonNil(row, hasWindow) == row.closingDebit # 0 \/ row.closingCredit # 0
FaultProfitDebited(result) == result
FaultStatementKinds       == {"MANUAL", "CLOSING_ENTRY"}

---------------------------------------------------------------------------
(* Reading balances: balances.ts, double-entry.ts *)

SignedBalance(nature, debit, credit) ==
    IF nature = "DEBIT" THEN debit - credit ELSE credit - debit
BalanceSide(debit, credit) ==
    [debit  |-> IF debit >= credit THEN debit - credit ELSE 0,
     credit |-> IF debit >= credit THEN 0 ELSE credit - debit]

Window(from, to, branch, excludeClosing) ==
    [from |-> from, to |-> to, branch |-> branch, excludeClosing |-> excludeClosing]

\* The voucher types a window counts.
KindsRead(w) == IF w.excludeClosing THEN {"MANUAL"} ELSE {"MANUAL", "CLOSING_ENTRY"}

EntriesRead(w) ==
    {i \in Entries : /\ book[i].date \in w.from .. w.to
                     /\ w.branch \in {Company, book[i].branch}
                     /\ book[i].kind \in KindsRead(w)}

DebitOf(line)  == IF line > 0 THEN line ELSE 0
CreditOf(line) == IF line < 0 THEN - line ELSE 0
Debits(a, entries)  == SumFunctionOnSet([i \in entries |-> DebitOf(book[i].lines[a])], entries)
Credits(a, entries) == SumFunctionOnSet([i \in entries |-> CreditOf(book[i].lines[a])], entries)

\* One row of accountBalances.  What was carried in is everything before the
\* window, closing entries included whatever the window says of them.  Retired
\* accounts have a row too.
AccountBalance(a, w) ==
    LET before == EntriesRead(Window(1, w.from - 1, w.branch, FALSE))
        during == EntriesRead(w)
        debitBefore == Debits(a, before)
        creditBefore == Credits(a, before)
        debit == Debits(a, during)
        credit == Credits(a, during)
        opening == BalanceSide(debitBefore, creditBefore)
        closing == BalanceSide(debitBefore + debit, creditBefore + credit)
    IN  [openingDebit |-> opening.debit, openingCredit |-> opening.credit,
         periodDebit  |-> debit,         periodCredit  |-> credit,
         closingDebit |-> closing.debit, closingCredit |-> closing.credit]

NaturalSideForType(type) == IF type \in {"ASSET", "EXPENSE"} THEN "DEBIT" ELSE "CREDIT"
NaturalAmount(a, debit, credit) ==
    SignedBalance(NaturalSideForType(Chart[a].type), debit, credit)

---------------------------------------------------------------------------
(* The financial statements: statements-service.ts *)

\* The total of some accounts: a position, from the closing columns of the
\* balances since the books began, closing entries included; or the movement of
\* a period, from its own columns.
PositionOf(a, day, branch) ==
    LET row == AccountBalance(a, Window(1, day, branch, FALSE))
    IN  NaturalAmount(a, row.closingDebit, row.closingCredit)
MovementOf(a, w) ==
    LET row == AccountBalance(a, w)
    IN  NaturalAmount(a, row.periodDebit, row.periodCredit)
TotalAt(accounts, day, branch) ==
    SumFunctionOnSet([a \in accounts |-> PositionOf(a, day, branch)], accounts)
TotalIn(accounts, w) ==
    SumFunctionOnSet([a \in accounts |-> MovementOf(a, w)], accounts)

InSection(section, type) == {a \in Typed(type) : Chart[a].section = section}

TradingRevenue(from, to, branch) ==
    TotalIn(InSection("TRADING", "INCOME"), Window(from, to, branch, TRUE))
GrossProfit(from, to, branch) ==
    TradingRevenue(from, to, branch)
      - TotalIn(InSection("TRADING", "EXPENSE"), Window(from, to, branch, TRUE))

NetProfit(from, to, branch) ==
    LET w == Window(from, to, branch, TRUE)
    IN  GrossProfit(from, to, branch)
          + TotalIn(InSection("PROFIT_AND_LOSS", "INCOME"), w)
          - TotalIn(InSection("PROFIT_AND_LOSS", "EXPENSE"), w)

\* Everything earned up to the day and not yet closed to capital.
EarningsToDate(day, branch) ==
    TotalAt(Typed("INCOME"), day, branch) - TotalAt(Typed("EXPENSE"), day, branch)
EquityTotal(day, branch) ==
    TotalAt(InSection("BALANCE_SHEET", "EQUITY"), day, branch) + EarningsToDate(day, branch)
SheetDifference(day, branch) ==
    TotalAt(InSection("BALANCE_SHEET", "ASSET"), day, branch)
      - (TotalAt(InSection("BALANCE_SHEET", "LIABILITY"), day, branch)
           + EquityTotal(day, branch))

---------------------------------------------------------------------------
(* The trial balance, the account ledger, the trend *)

IsInteresting(row, hasWindow) ==
    \/ row.closingDebit # 0 \/ row.closingCredit # 0
    \/ hasWindow /\ (row.periodDebit # 0 \/ row.periodCredit # 0)

\* One account's lines in a window, in the order of date, then number.  The
\* running total is the database's, over every line of the window up to this
\* one; a page is a stretch of the numbered rows.
LinesOf(a, from, to) ==
    LET read == {i \in EntriesRead(Window(from, to, Company, FALSE)) : book[i].lines[a] # 0}
        before(i, j) == \/ book[i].date < book[j].date
                        \/ book[i].date = book[j].date /\ i <= j
    IN  [n \in 1 .. Cardinality(read) |->
            CHOOSE i \in read : Cardinality({j \in read : before(j, i)}) = n]

RowsBefore(page, n) == 1 .. n
Signed(a, i) == SignedBalance(Chart[a].nature, DebitOf(book[i].lines[a]),
                                               CreditOf(book[i].lines[a]))
OpeningBalance(a, from) ==
    LET before == EntriesRead(Window(1, from - 1, Company, FALSE))
    IN  SumFunctionOnSet([i \in before |-> Signed(a, i)], before)

PageCount(rows) == Max({1, (Len(rows) + PageSize - 1) \div PageSize})
LedgerPage(a, from, to, page) ==
    LET rows == LinesOf(a, from, to)
        running(n) == OpeningBalance(a, from)
                        + SumFunctionOnSet([m \in RowsBefore(page, n) |-> Signed(a, rows[m])],
                                           RowsBefore(page, n))
        first == (page - 1) * PageSize
        last == Min({first + PageSize, Len(rows)})
    IN  [n \in 1 .. last - first |->
            [line |-> rows[first + n], running |-> running(first + n)]]

TrendKinds == {"MANUAL"}
Bucket(day) == (day - 1) \div DaysPerBucket
\* The point of the trend for one bucket: the lines of the window that fall in
\* it, read past accountBalances.
TrendRevenue(from, to, bucket) ==
    LET lines == {l \in Entries \X InSection("TRADING", "INCOME") :
                     /\ book[l[1]].date \in from .. to
                     /\ Bucket(book[l[1]].date) = bucket
                     /\ book[l[1]].kind \in TrendKinds}
    IN  SumFunctionOnSet([l \in lines |-> - book[l[1]].lines[l[2]]], lines)

---------------------------------------------------------------------------
(* Writing the ledger *)

Posted(date, kind, branch, reverses, lines) ==
    [date |-> date, kind |-> kind, branch |-> branch, reverses |-> reverses,
     lines |-> lines]
Post(entry) == Len(book) < MaxEntries /\ book' = Append(book, entry)
IsReversed(i) == \E j \in Entries : book[j].reverses = i

\* createManualEntry: into an open month, to accounts that are not put away.
CreateManualEntry(v, day, branch) ==
    /\ Cardinality({i \in Entries : book[i].kind = "MANUAL"}) < MaxManual
    /\ ~ closed[YearOf(day)]
    /\ isActive[v.debit] /\ isActive[v.credit]
    /\ Post(Posted(day, "MANUAL", branch, ReversesNone,
                   [a \in Accounts |-> CASE a = v.debit  -> v.amount
                                         [] a = v.credit -> - v.amount
                                         [] OTHER        -> 0]))
    /\ UNCHANGED <<closed, isActive>>

Mirrored(lines) == [a \in Accounts |-> - lines[a]]

\* reverseManualEntry: dated as the entry it takes back, in its branch, whether
\* or not its accounts are still in use.
ReverseManualEntry(i) ==
    /\ book[i].kind = "MANUAL" /\ book[i].reverses = ReversesNone
    /\ ~ IsReversed(i)
    /\ ~ closed[YearOf(book[i].date)]
    /\ Post([book[i] EXCEPT !.reverses = i, !.lines = Mirrored(book[i].lines)])
    /\ UNCHANGED <<closed, isActive>>

\* setAccountActive: not one the system posts to, and put away only at nil.
SetAccountActive(a) ==
    /\ ~ IsSystem(a)
    /\ isActive[a] => PositionOf(a, NumYears * DaysPerYear, Company) = 0
    /\ isActive' = [isActive EXCEPT ![a] = ~ @]
    /\ UNCHANGED <<book, closed>>

\* postClosingEntry: every income and expense account is brought to nil as at
\* the year end; what that leaves is the year's result.
ClosedAccounts(y) == Results
BalanceLine(result) == - result   \* a profit is credited
NetAtEnd(a, y) ==
    LET row == AccountBalance(a, Window(1, YearEnd(y), Company, FALSE))
    IN  row.closingDebit - row.closingCredit
YearResult(y) ==
    SumFunctionOnSet([a \in ClosedAccounts(y) |-> - NetAtEnd(a, y)], ClosedAccounts(y))
ClosingLines(y) ==
    [a \in Accounts |-> CASE a \in ClosedAccounts(y) -> - NetAtEnd(a, y)
                          [] a = "RETAINED"          -> BalanceLine(YearResult(y))
                          [] OTHER                   -> 0]

EarlierYearsClosed(y) == \A z \in Years : z < y => closed[z]
NoLaterYearClosed(y)  == \A z \in Years : z > y => ~ closed[z]

CloseFiscalYear(y) ==
    LET lines == ClosingLines(y) IN
    /\ ~ closed[y] /\ EarlierYearsClosed(y)
    /\ IF \A a \in Results : lines[a] = 0
         THEN UNCHANGED book
         ELSE Post(Posted(YearEnd(y), "CLOSING_ENTRY", Company, ReversesNone, lines))
    /\ closed' = [closed EXCEPT ![y] = TRUE]
    /\ UNCHANGED isActive

\* reopenFiscalYear: the mirror of a closing entry is a closing entry itself.
\* findFirst has no order: any closing entry of the year may be the one found,
\* and the insert is refused when it has been reversed before.
ClosingEntries(y) ==
    {i \in Entries : /\ book[i].kind = "CLOSING_ENTRY"
                     /\ book[i].reverses = ReversesNone
                     /\ YearOf(book[i].date) = y}

ReopenFiscalYear(y) ==
    /\ closed[y] /\ NoLaterYearClosed(y)
    /\ \/ /\ ClosingEntries(y) = {}
          /\ UNCHANGED book
       \/ \E i \in ClosingEntries(y) :
             /\ ~ IsReversed(i)
             /\ Post([book[i] EXCEPT !.reverses = i, !.lines = Mirrored(book[i].lines)])
    /\ closed' = [closed EXCEPT ![y] = FALSE]
    /\ UNCHANGED isActive

ReportsInit ==
    /\ book = << >>
    /\ closed = [y \in Years |-> FALSE]
    /\ isActive = [a \in Accounts |-> TRUE]

ReportsNext ==
    \/ \E v \in Vouchers, day \in EntryDays, branch \in Branches : CreateManualEntry(v, day, branch)
    \/ \E i \in Entries : ReverseManualEntry(i)
    \/ \E a \in Accounts : SetAccountActive(a)
    \/ \E y \in Years : CloseFiscalYear(y)
    \/ \E y \in Years : ReopenFiscalYear(y)

ReportsSpec == ReportsInit /\ [][ReportsNext]_reportVars

---------------------------------------------------------------------------
(* Properties *)

Reports == Branches \union {Company}

\* On books with no entry every figure is nil and no report is looked at.
SomethingPosted == book # << >>

\* Every entry written balances, closing entries and reversals included.
ReportsTypeOK ==
    /\ \A i \in Entries : /\ book[i] \in [date : Days, kind : {"MANUAL", "CLOSING_ENTRY"},
                                          branch : Reports, reverses : 0 .. i - 1,
                                          lines : [Accounts -> Int]]
                          /\ SumFunctionOnSet(book[i].lines, Accounts) = 0
    /\ closed \in [Years -> BOOLEAN]
    /\ isActive \in [Accounts -> BOOLEAN]

\* The two statements tell one story: between two balance sheets the owner's
\* funds have grown by the profit the profit and loss account of the days
\* between reports, less what was drawn, for the business and for each branch,
\* whatever was closed and reopened in between (loadBalances reads a period
\* without closing entries and a position with them).
Drawn(from, to, branch) == TotalIn({"DRAWINGS"}, Window(from, to, branch, FALSE))
ProfitExplainsNetWorth ==
    SomethingPosted => \A branch \in Reports, w \in Windows :
        EquityTotal(w[2], branch) - EquityTotal(w[1] - 1, branch)
          = NetProfit(w[1], w[2], branch) + Drawn(w[1], w[2], branch)

\* What retained earnings holds at a closed year's end is the profits the
\* closed years reported, each once (postClosingEntry, reopenFiscalYear).
RetainedEarningsAreTheProfits ==
    \A y \in Years :
        closed[y] => PositionOf("RETAINED", YearEnd(y), Company)
                       = NetProfit(1, YearEnd(y), Company)

\* Assets are liabilities plus capital on every day, for the business and for
\* each branch, with accounts that run against their type (totalByType).
SheetBalances ==
    SomethingPosted => \A branch \in Reports, day \in Days : SheetDifference(day, branch) = 0

\* Leafing through an account's ledger, every running balance continues the
\* one before it, across a page's edge too, and the last one is the balance the
\* trial balance reports (fetchRows, getAccountLedger).
LedgerContinues ==
    SomethingPosted => \A a \in Accounts, w \in Windows :
        LET rows == LinesOf(a, w[1], w[2])
            shown(n) == LedgerPage(a, w[1], w[2], (n - 1) \div PageSize + 1)
                            [((n - 1) % PageSize) + 1].running
            lastPage == LedgerPage(a, w[1], w[2], PageCount(rows))
            closing == AccountBalance(a, Window(w[1], w[2], Company, FALSE))
        IN  /\ \A n \in DOMAIN rows :
                  shown(n) = Signed(a, rows[n])
                               + (IF n = 1 THEN OpeningBalance(a, w[1]) ELSE shown(n - 1))
            /\ rows # << >> =>
                  lastPage[Len(lastPage)].running =
                     SignedBalance(Chart[a].nature, closing.closingDebit, closing.closingCredit)

\* The trend's points add up to the trading account's revenue over the same
\* window, closed years or not (revenueTrend reads the lines itself).
Buckets == {Bucket(day) : day \in Days}
TrendAddsUp ==
    SomethingPosted => \A w \in Windows :
        SumFunctionOnSet([b \in Buckets |-> TrendRevenue(w[1], w[2], b)], Buckets)
          = TradingRevenue(w[1], w[2], Company)

\* The rows a trial balance prints add up, column by column, to the totals of
\* all the accounts underneath: a row left out is nil in every column
\* (isInteresting, getTrialBalance).
PrintedRowsAddUp ==
    SomethingPosted => \A branch \in Reports, w \in Windows, a \in Accounts :
        LET row == AccountBalance(a, Window(w[1], w[2], branch, FALSE))
        IN  \/ IsInteresting(row, TRUE)
            \/ \A column \in DOMAIN row : row[column] = 0

\* The sheet balances, the trial balance shows why, and the trend tells of the
\* same revenue, over entries that balance themselves
\* (getFinancialStatements, getTrialBalance, revenueTrend).
ReportsBalance == ReportsTypeOK /\ SheetBalances /\ PrintedRowsAddUp /\ TrendAddsUp
=============================================================================
