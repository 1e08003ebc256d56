# Verification of Retail Intelligence AI

Retail Intelligence AI is a multi-tenant accounting system for shops: a
Next.js application whose server actions run Prisma statements and
transactions against one PostgreSQL database. Nothing is shared in memory
between two requests; everything that can go wrong between them goes wrong in
the database, in the order in which their statements and commits arrive. This
directory models that: the modules take the server's operations apart into the
database steps they make, and ask what the books look like under every
interleaving of those steps. Beside them stand the calculations the returns and
the reports rest on, which are pure and are driven through their inputs.

PostgreSQL runs the transactions READ COMMITTED (nothing that writes asks for
more; two reports ask for REPEATABLE READ), so a statement sees what is
committed when it starts. What serialises requests is only what the code locks
itself: rows of `document_sequences` read `FOR UPDATE`, two advisory locks per
company (stock and fiscal calendar), and the rows a transaction has updated.

Paths below are relative to `src/src/server/` unless they say otherwise.

## Files

| file | what it is |
|---|---|
| `Books.tla`, `MCBooks.tla`, `Books_concurrent.cfg`, `Books_late.cfg` | posting, reversal, period and year close |
| `LateEntries.tla` | `Books` beside a record of the entries that a closing overtook |
| `Ledger.tla` | what the posting engine promises, which `Books` implements |
| `Settlements.tla`, `MCSettlements.tla`, `Settlements_serial.cfg`, `Settlements_concurrent.cfg`, `Settlements_race.cfg` | receipts, their voids, voided invoices, returns |
| `StockLedger.tla`, `MCStockLedger.tla`, `StockLedger_all.cfg` | stock movements, valuation, the Inventory account |
| `Payroll.tla`, `MCPayroll.tla`, `Payroll.cfg`, `Payroll_void.cfg` | payroll runs, their cancellation, and the fiscal calendar a dated document extends |
| `Banking.tla` | statement import, matching, recording, reconciliation |
| `Billing.tla`, `MCBilling.tla`, `Billing.cfg` | checkout, the payment provider's webhook, plan changes |
| `Team.tla`, `MCTeam.tla`, `Team.cfg` | invitations, roles, suspension, sessions |
| `Statements.tla` | trial balance, financial statements, account ledger, revenue trend |
| `IncomeTax.tla`, `Depreciation.tla`, `Gst.tla`, `SetOff.tla`, `Matching.tla` | one calculation each |
| `PeriodEnd.tla`, `MCPeriodEnd.tla`, `PeriodEnd.cfg`, `Gst_return_credit.cfg` | the work of a period end: `Banking`, `Statements` and the five calculations side by side |
| `Books_proofs.tla`, `Settlements_proofs.tla`, `StockLedger_proofs.tla`, `Payroll_proofs.tla`, `Billing_proofs.tla`, `Team_proofs.tla` | theorems about the module each is named after |
| `PeriodEnd_proofs.tla` | theorems about `Banking`, `Statements` and the five calculations |
| `Sums.tla` | lemmas on sums over finite sets and on step-by-step recursion, which the proofs about money cite |
| `PROJECT.json` | components, runs, mutants, the map from definitions to source lines, findings, hazards, theorems |

## Inventory

| component | state it keeps | operations | what must hold | here |
|---|---|---|---|---|
| General ledger (`accounting/post-journal-entry`, `accounting/journal-service`, `documents/reversal`) | `journal_entries`, `journal_lines` | postJournalEntry, createManualEntry, reverseManualEntry, reversePostedEntry | entries are numbered without gaps, reversed at most once, enter open periods only | `Books`, `Ledger` |
| Number series (`sequences/document-sequence`) | `document_sequences` | allocateDocumentNumber | no duplicate, no gap, under concurrency and rollback | `Books` |
| Period and year close (`accounting/period-service`, `year-close-service`, `balances`) | `fiscal_periods.status`, `fiscal_years.closedAt` | closePeriod, reopenPeriod, closeFiscalYear, reopenFiscalYear | a closed period is frozen, a closed year is swept once and carries nothing the sweep could have seen, years close in order | `Books` |
| Fiscal calendar (`fiscal/`) | `fiscal_years`, `fiscal_periods`, `isCurrent` | createFiscalYear, ensureFiscalYearFor, markCurrentYear | no hole, no year twice, the reports' year never goes back | `Payroll` |
| Settlements (`settlements/`) | receipts, payments, allocation rows, `paidAmount` | createReceipt, voidReceipt, createPayment, voidPayment | an invoice's paid figure is what its allocations say; nothing is settled past what is owed; the control account moves once per document | `Settlements` (receivable side) |
| Sales and sales returns (`sales/`, `returns/`) | sales, returns, credit notes | createSale, voidSale, createSalesReturn | goods come back once; a void leaves no money behind; the credit limit holds | `Settlements`, `StockLedger`, `Gst`; limit planned |
| Purchases and purchase returns (`purchases/`, `returns/`) | purchases, returns | createPurchase, voidPurchase, createPurchaseReturn | a void undoes what the bill did, to the last paisa | `StockLedger` (stock side) |
| Stock and valuation (`inventory/stock-service`, `lib/inventory/valuation`) | `inventory_balances`, `inventory_movements` | recordInward, recordOutward, rebuildLayers | position = sum of movements = Inventory account; nothing goes below nil | `StockLedger` |
| Stock counts (`inventory/adjustment-service`) | – | createStockAdjustment, reconcileStock | the shelf holds what was counted | `StockLedger` |
| Payroll (`payroll/`, `lib/payroll/statutory`) | payroll rows, payslips | createPayrollRun, voidPayroll | one live run per month; each authority is owed what was withheld for it; nothing already paid over is cancelled | `Payroll` |
| Banking (`banking/`, `lib/banking/matching`) | `bank_transactions` | import, suggest, match, unmatch, recordFromStatement | a line is imported once and matched to one entry, an entry to one line; the two balances differ by the outstanding items | `Banking`, `Matching` |
| Billing (`billing/`) | subscriptions, subscription invoices, payment events | startPlanUpgrade, handleRazorpayWebhook, changePlan, cancel/resume, plan limits | a captured payment is applied, a failure never overwrites it, a dearer plan is a paid one | `Billing`; limits planned |
| Team and roles (`company/team-service`, `rbac/`) | memberships, roles, invitations | invite, accept, changeMemberRole, setMemberStatus | nobody hands out what they do not hold; a link works once; there is always an Owner | `Team` |
| Sessions (`auth/`) | sessions, `sessionEpoch` | createSession, resolveSessionToken, revokeAllSessions | no session outlives a revocation | `Team` |
| Branches, settings (`company/`) | branches, company row | setPrimaryBranch, updateCompanyAccounting | an open primary branch; frozen settings stay frozen | planned |
| Ledger reads (`accounting/trial-balance-service`, `statements-service`, `ledger-service`, `analytics/sales-analytics`) | none | accountBalances, trial balance, statements, account ledger, trend | the reports agree with one another, whatever was closed and reopened | `Statements` |
| Tax (`lib/tax`) | none | computeIncomeTax, computeDepreciation, computeLine, applySetOff | no cliff, nothing claimed twice, no paisa lost, least cash | `IncomeTax`, `Depreciation`, `Gst`, `SetOff` |
| Expenses (`expenses/`) | expenses, fixed assets | create, void | nothing already settled is cancelled | planned |
| Opening balances (`master-data/`) | party and product records | createParty, updateParty | the record and the ledger tell one opening balance | planned |
| Rate limiting (`security/rate-limit`) | fixed windows | hit, reset | no more than the limit per window, and never a lock-out | planned |
| Other reports, forecast, advisor, auditor, AI accountant, search, dashboard | none, or append-only findings | reads | – | not planned: read-only |
| Documents, e-mail, export, import, provisioning, purge, admin, UI, deployment | – | – | – | not planned: I/O, layout, single-row edits |

`PROJECT.json` lists every part with its files and, for what is left out, why.

**How the parts meet.** Every document (sale, purchase, receipt, expense,
payroll, adjustment) is one transaction that may first have to extend the
fiscal calendar under its advisory lock, takes a number from its own series,
perhaps the stock lock, writes its rows and ends in `postJournalEntry`, which
takes the JOURNAL series of the entry's year. So the JOURNAL row is a lock every
posting takes, held to its commit, and often the *last* lock taken. Whatever a
service reads before that is only protected by the locks taken earlier, and most
guards ("is this period open", "is this invoice still posted", "what has been
paid") are read with none. Voids go through `reversePostedEntry`, and the unique
index on `reversesId` is what stops a document from being voided twice. Closing
a year reads balances and posts an entry through the same engine with closed
periods allowed. Bank lines link to journal entries of any module, and
unmatching a line that recorded its own entry reverses it. The reports read
journal lines alone. Billing and Team touch no books and run almost entirely
without transactions.

Each module carries, of the modules it meets, what its own properties can tell:
`Settlements` the JOURNAL row as a lock, `Payroll` payments as movements on five
accounts, `Banking` the documents of all other modules as entries that come and
are reversed, `Statements` every voucher as a balanced manual entry. What
`Books` proves about the engine is what each of them assumes of it.

**Hard behaviours.** Stale reads across a lock wait; absolute writes worked out
from such a read (`paidAmount`); opposite lock orders; two administrators at
once; sequences of legal calls nobody wrote a test for (close, reopen, close,
reopen; record, unmatch, record; a sale dated before its purchase); rounding
remainders on an empty shelf; provider events delivered twice, late or out of
order and handlers that die half way; a clock that passes a year's end while a
request waits; rules with thresholds where one rupee more changes the rate.
Each has a row under "hazards" in `PROJECT.json`, at the line where it bites,
with the property that watches it.

## How to read the modules

One action is one statement, one wait or one commit of the code; a guard that
refuses ends the request within the same action. `findFirst` with no total
order is a choice among the rows it may return. `RollBack` stands for a
statement that fails, a lost connection or a stopped process.

Several properties are conjunctions of named parts about one promise
(`ClosedYearsStand`, `VoidedSalesAreSettled`, `ReceiptsStand`,
`ShelfIsDescribed`, `PayrollStands`, `OrdersAreKnown`, `InvitationsWorkOnce`,
`LinksStand`, `ReportsBalance`, `LinesAddUp`, `ClaimsStand`,
`SuggestionsAreTheStrongest`): the parts are stated one by one above the
conjunction, and the module's type invariant is one of them. That of `Books` is
in no run: it is proved.

Definitions named `Fault...` are faulty forms of a definition that models code:
a dropped guard, a missing reset, a rate taken off the wrong figure. No
specification uses them. `PROJECT.json` lists, for every property, one that TLC
finds to violate it; the others break another part of a conjunction when put in
the place of the definition they stand beside (`FaultNoIndex` of `Banking` breaks
`ImportedOnce`, `FaultStatementKinds` breaks `TrendAddsUp`, and so on).

## Books

State: `periodStatus` and `closed` are the two status columns; `journal` is
`journal_entries`, an entry's identifier being its position; `nextNumber` and
`seqHolder` are the JOURNAL rows of `document_sequences`, one per year, and who
has them locked; `resultTo[y]` is the balance of the income and expense
accounts as at the end of year `y`, which the code computes by summing posted
lines and the model keeps as a running figure; `req[r]` is what a request is
doing and what it has read so far.

An entry's lines are abstracted to `amount`, its effect on income and expense
taken together. Whether debits equal credits is checked inside one request and
meets no other one.

| code | actions |
|---|---|
| createManualEntry, reverseManualEntry: checks before the transaction | `CreateManualEntry`, `ReverseManualEntry` |
| postJournalEntry: period lookup, refused when CLOSED unless a closing entry | `ResolvePeriod`, `PeriodTakesEntry` |
| allocateDocumentNumber: `SELECT ... FOR UPDATE`, `nextValue + 1` | `AllocateNumber` |
| insert, `reversesId` unique, original marked REVERSED, commit | `CommitEntry`, `Collide` |
| closePeriod, reopenPeriod | `ClosePeriod`, `CheckEarlierPeriods`, `ReopenPeriod`, `UpdatePeriod` |
| closeFiscalYear | `CloseFiscalYear`, `CheckPeriodsClosed`, `CheckEarlierYears`, `ReadBalances`, then the posting steps |
| reopenFiscalYear | `ReopenFiscalYear`, `CheckLaterYears`, `FindClosingEntry` or `FindNoClosingEntry`, then the posting steps or `UpdateYear` |

`Ledger` says what an auditor is promised, with no request, lock or transaction
in it: each year has a book of entries numbered from 1 that only grows at the
end, and an entry is taken back by one later entry of the opposite amount or not
at all. `Books` implements it under the mapping `Book`: place `n` of year `y` is
the journal entry of that year numbered `n` (`Numbered`), shown with the number
it reverses (`NumberTakenBack`).

| run | instance | what it shows |
|---|---|---|
| `Books_concurrent` | two clerks and one administrator, three in flight, interleaved at every step; two years of one period; four entries | numbering, reversal, the order of closed years and their single sweep (`ClosedYearsStand`) survive; every request ends; every step is one of `Ledger`; a closed year carries what late entries brought and nothing else (`OnlyLateEntriesEscape`) |
| `Books_late` | one clerk beside one administrator; a year of one period; two entries | violated: `FrozenPeriods`, see "Known disagreements" |

Two years are needed for the order of closes; four entries for post, close,
reopen and one beside them.

`postJournalEntry` looks at the month before it waits for the JOURNAL series and
not again, so an entry may commit after its month, and its year, were closed.
`LateEntries` says how far that goes. It runs `Books` unchanged and keeps two
history variables no step of `Books` reads: `overtaken`, the requests let into a
month that was open and is closed now, and `arrivedLate[y]`, what such requests
have brought to the last day of year `y` since its balances were read for the
closing that stands. `OnlyLateEntriesEscape` says that a closed year carries
exactly that: everything else that is posted, reversed, closed and reopened
around the closing is swept, and swept once. A month reopened inside a closed
year, or a closing entry reversed while its year stays closed, would leave amounts
that no overtaken request accounts for.

What overlapping requests break is under "Known disagreements".

## Settlements

State: `sale[s]` carries an invoice's status, `paidAmount`, the value and units
of the credit notes against it, and the units that have come back by any route;
`receipts` are the vouchers with their allocation rows; `control` is the
accounts-receivable balance; `lock` maps each lockable row (invoices, the
RECEIPT, SALES_RETURN and JOURNAL series, the stock lock) to its holder. Where
`Books` needs to know only who has the JOURNAL row, here the order of the locks
is the subject.

| code | actions |
|---|---|
| createReceipt: allocations read and validated, voucher number, absolute write of `paidAmount` per invoice, entry, commit | `CreateReceipt`, `AllocateVoucher`, `UpdatePaid`, `PostEntry`, `CommitReceipt` |
| voidReceipt: each invoice's paid figure re-read, then written | `VoidReceipt`, `ReadPaid`, `UpdatePaid`, `PostEntry`, `CommitVoidReceipt` |
| voidSale: checks, stock lock, reversal, delete of allocations, update of the invoice | `VoidSale`, `LockStock`, `PostEntry`, `ReleaseAllocations`, `LockVoidedSale`, `CommitVoidSale` |
| createSalesReturn | `CreateSalesReturn`, `AllocateVoucher`, `LockStock`, `PostEntry`, `CommitReturn` |
| PostgreSQL | `RollBack`, `DeadlockVictim`, `Refused` |

| run | instance | what it shows |
|---|---|---|
| `Settlements_serial` | two invoices of two units, receipts for one or two, one request at a time, every operation | the paid figure agrees with the allocation rows, nothing is settled past what is owed, a voided invoice holds no money and its goods come back once |
| `Settlements_concurrent` | one invoice, two requests at once, every operation | the control account moves by each document once; no receipt settles more than it is for; every request ends, deadlocks included |
| `Settlements_race` | one invoice of two units, two requests at once, receipts and returns | violated: `AllocationNeverExceedsOwed`, see "Known disagreements" |

Two invoices let one receipt be spread over several; two requests are enough
for every race here, because each relates two documents. The payable side
(payments, bills) is the same code with the arrow reversed and is not written
out again. Receipts that settle nothing (capital, loans) post an entry and touch
no invoice.

## StockLedger

State: `balance` is the cached position of one product at one branch,
`movements` the append-only ledger behind it, `account` the Inventory account,
`stockLock` the company's advisory lock. Money counts the fourth decimal, the
scale of `lib/money`, and `Divide` rounds half up as its `divide` does, so the
remainder a division leaves is in the model and not assumed away. Both
methods are modelled: weighted average from the cached position, FIFO by
replaying the movements by date (`RebuildLayers`, `Drain`).

A document is three actions: its checks before the lock (`CreatePurchase`,
`VoidSale`, ...), `RecordMovement` when it gets the lock and works the movement
out, and `Commit`, which writes position, movement and entry. The middle
action is one step because the lock keeps every other writer of these rows
out.

| run | instance | what it shows |
|---|---|---|
| `StockLedger_all` | two requests, both methods, bills of one unit for 1 and three for 8, four movements, all documents dated alike | the three figures of `reconcileStock` agree, a void leaves what the standing documents put there, a pooled shelf never goes below nil, the average describes the shelf |

Three units for 8 is a bill whose unit cost does not divide. Four
movements reach two bills, a sale and a void, which is where the costs of sold
and voided units part company. With one request at a time and weighted average
the value properties were also checked to six movements, which is too slow for a
run beside the others.

## Payroll

State: `runs` are the payroll rows with their payslips and what their entries
credited (`put`); `owed[l]` the ledger's balance of the five liability accounts;
`payments` what was remitted; `years`, `current` and `today` the fiscal years
there are, the one marked current and the one the clock is in; `job[u]` a
request. Payslips are worked out in whole rupees by `ComputeStatutory`, with the
ceiling, the limit and the two roundings of `lib/payroll/statutory`.

| code | actions |
|---|---|
| createPayrollRun: the live run looked for, payslips, the three refusals, the clock read for the calendar | `CreatePayrollRun` |
| ensureFiscalYearFor: the advisory lock, the second look, FUTURE_YEAR and BEFORE_FIRST_YEAR, the missing years | `LockCalendar` |
| allocateDocumentNumber on the PAYROLL row of the pay date's year | `AllocateReference` |
| insert under `payroll_one_live_run_per_period`, which waits for another's uncommitted row | `InsertRun` |
| entry, markCurrentYear seen at the commit | `PostRun` |
| voidPayroll: five balances against what the entry credited; reversal; CANCELLED | `VoidPayroll`, `ReverseRun` |
| createPayment on a liability (any amount typed; here, what some run put) | `PayLiability` |
| time | `NewYearBegins` |

| run | instance | what it shows |
|---|---|---|
| `Payroll` | two requests, two months, pay dates in years 0 to 3 of a calendar that starts with year 1, three runs, one payment, two employees | `PayrollStands`: a month has one live run though pay dates in different years share no series, the debts are the payslips that stand less what was remitted, nobody waits in a circle; `CalendarStands`: no hole, no future year, and `isCurrent` never goes back although a request may have read the clock before it waited for another that read it later |
| `Payroll_void` | one request, one month, one year, one payment | violated: `TakesBackOnlyDebtsThere`, see "Known disagreements" |

Three runs are a month run, cancelled and run again beside another month; year 0
is before the company's first; three years let the clock pass a year's end twice
while one request waits. One employee is above the insurance limit and the
provident-fund ceiling, the other below both with contributions that do not
divide, joining in the second month.

## Banking

State: `lines` are the imported statement lines with the entry each is linked
to, `journal` the entries with their day, the movement they make on each bank
account, the line they were recorded from and what they reverse; `job` the
requests. A line's fingerprint (account, day, signed amount, text) is its `row`.

| code | actions |
|---|---|
| importStatement: the fingerprints present are read, then the rest is inserted with duplicates skipped | `ReadExisting`, `InsertRows` |
| matchTransaction: the line and entry read, the checks, the link | `MatchTransaction`, `ReadEntry`, `LinkLine` |
| unmatchTransaction: an entry recorded from this line is reversed, the link cleared | `UnmatchTransaction`, `ClearLink` |
| recordFromStatement | `RecordFromStatement`, `PostAndLink` |
| documents of the other modules, and their voids | `PostDocument`, `VoidDocument` |
| reconciliationView, reconciliationDifference | `BookItems`, `StatementItems`, `LineOutstanding`, `EntryOutstanding`, `Unexplained` |

In the run `PeriodEnd` one clerk works beside two uploads of overlapping files,
with two accounts, two days and three entries. As at each day the two balances
differ by the outstanding items and nothing else (`NothingUnexplained`); a line
has one live entry recorded from it (`RecordedOnce`); a line is imported once,
matched to one entry, for the same amount (`LinksStand`).

Two days let a match cross the end of a period; two accounts, two equal rows in
one file and rows shared by two files are the cases of the fingerprint.
`MCPeriodEnd` posts documents that move one bank account each; transfers between
two of them are under "Known disagreements".

## Billing

State: `plan`, `invoices` and `recorded` are the tables; `orders`, `shown`,
`sent` and `answered` the provider's side (orders, the ones a browser can pay,
events to deliver and events answered); `job` and `hook` the users' requests and
the deliveries. No statement here holds a lock and only applyCapture runs in a
transaction.

applyCapture ends in one of three ways: another amount than the invoice's fails
it, money that the bank holds but has not captured changes nothing, and captured
money marks the invoice paid and gives the company the plan, unless an
administrator has retired that plan meanwhile (`webhook.ts:309`), which is left
as a choice. Prices do not change while an order is open: editing a plan is a
row edit of the administration, which is not modelled. Failed attempts on one
order are events of their own, told apart by a number.

| code | actions |
|---|---|
| startPlanUpgrade | `StartPlanUpgrade`, `FindPending`, `CreateInvoice`, `CreateOrder` or `OrderFails` and `FailCheckout`, `StoreOrder`, `ReturnSession` |
| changePlan | `ChangePlan`, `UpdatePlan` |
| handleRazorpayWebhook: recordEvent, applyCapture, applyFailure | `Deliver`, `ReadInvoice`, `ApplyCapture`, `ApplyFailure`, `FinishEvent` |
| the provider and the customer's bank (external) | `Attempt`, `Pay` |
| a process that dies between two statements | `UserCrash`, `HandlerCrash` |

| run | instance | what it shows |
|---|---|---|
| `Billing` | one user, one handler, three plans, two invoices, two attempts that bring no full money (failed, held, or short), one crash; events late, repeated, reordered | every order somebody can pay is known to an invoice for its plan, and that invoice is paid only by its money (`OrdersAreKnown`); a checkout started again finds the order that waits (`OneOrderWaitsPerPlan`); the plan gets dearer only with the full money for that plan (`UpgradesArePaid`); a late failure does not undo a payment (`PaidStaysPaid`); an order paid in full has its invoice paid in the end, one crash included (`PaidOrdersAreApplied`) |

Three plans are what the product has (`lib/billing/plans.ts:88`) and the fewest
with an upgrade from a paid plan. One crash is the
interesting number: a payment is reported under two events, so one lost delivery
is made up for by the other.

## Team

State: `members` (status and role by person), `invites` (the invitation tokens),
`epoch` (`User.sessionEpoch`), `sessions`, and `job`, with the permissions a
request started with in `holder`. A role is the set of its permissions. Only the
replacement of an older invitation and the acceptance of one run in a
transaction; everything else is statement by statement.

| code | actions |
|---|---|
| assertPermission | `Begin` |
| inviteMember: findAssignableRole, not a member yet, older invitations superseded, the new one written | `InviteMember`, `CheckRole`, `CheckNotMember`, `SupersedeOlder`, `IssueInvitation` |
| revokeInvitation | `RevokeInvitation` |
| acceptInvitation, createSession | `AcceptInvitation`, `Join`, `ReadEpoch`, `StartSession` |
| changeMemberRole, setMemberStatus: assertNotLastOwner, update, revokeAllSessions | `ChangeMemberRole`, `SetMemberStatus`, `CheckRole`, `CheckOwners`, `UpdateMember`, then `IncrementEpoch` and `MarkRevoked` for revokeAllSessions |

| run | instance | what it shows |
|---|---|---|
| `Team` | two people, one administrator's request beside two visitors, three nested roles, two invitations, sessions ended twice | a superseded or withdrawn link is dead and of two submissions one joins (`InvitationsWorkOnce`); a gained permission was held by whoever gave it, now or when the invitation was written (`PermissionsAreHandedOn`); losing access ends every session, one being opened included (`RemovalEndsSessions`) |

Two visitors with one link are the race; a manager who may manage users but holds
less than the Owner is the role the rule on handing out is about. A sign-in may
come between the two statements of revokeAllSessions; its session is at the new
epoch and is marked revoked all the same. `PermissionsAreHandedOn` speaks of the
role somebody has, suspended or not: reactivating a member gives back a role
that was handed on before and is no gain.

## Statements

State: `book`, the entries with a day, a branch and a signed line per account;
`closed` years; `isActive` accounts. One request runs at a time, a report is read
as of one instant, and a year's months are shut exactly when the year is closed:
`Books` has the interleavings, this module has what the books add up to. The
vouchers of the other modules are balanced manual entries here. `Chart` has one
account of each kind the reports treat apart, contra accounts and one the
business made included.

| code | actions and operators |
|---|---|
| createManualEntry, reverseManualEntry, setAccountActive | `CreateManualEntry`, `ReverseManualEntry`, `SetAccountActive` |
| closeFiscalYear, postClosingEntry, reopenFiscalYear | `CloseFiscalYear`, `ClosingLines`, `ReopenFiscalYear` |
| accountBalances with and without closing entries, by branch | `Window`, `EntriesRead`, `AccountBalance` |
| trading account, profit and loss, balance sheet | `TradingRevenue`, `NetProfit`, `EquityTotal`, `SheetDifference` |
| trial balance rows, one account's pages, revenueTrend | `IsInteresting`, `LedgerPage`, `TrendRevenue` |

In the run `PeriodEnd` there are a branch and the company, two years of two days,
two manual entries of five kinds, six entries, two windows across the year's end
and pages of two. Between two balance sheets the owner's funds grow by the
reported profit less drawings (`ProfitExplainsNetWorth`); retained earnings is the
profits of the closed years, each once (`RetainedEarningsAreTheProfits`); the sheet
balances, the printed rows add up, the trend is the statements' revenue
(`ReportsBalance`); running balances continue across pages (`LedgerContinues`).

Six entries are two vouchers, and a close, a reopening and a close again.

## Calculations

Five pure calculations, each a module of operators with a small machine that
drives it through the inputs a business gives it over time.

| module | code | machine | property |
|---|---|---|---|
| `IncomeTax` | slabs, rebate with marginal relief, surcharge with marginal relief, cess, rounding (`lib/tax/income-tax`) | a year's income grows by 20,000 at a time over 5.2 crore, from nothing and from 9.9 crore, for every assessee and regime | `NeverWorseOffForEarning`: earning more never lowers the tax and never costs more than was earned, across every threshold at once. The loss of the old regime's rebate at five lakh is excepted (`OldRebateLost`): a step the law itself leaves uncushioned |
| `Depreciation` | the pooled written-down value rolled forward from the oldest asset on every request (`lib/tax/depreciation`) | three assets bought on either side of the half-rate line and sold for less or more, over three years at 25 per cent, half of which is no whole number | `ClaimsStand`: what was claimed and what remains come to cost less proceeds; a past year's schedule never moves though it is recomputed from the whole register |
| `Gst` | supply type, exclusive and inclusive prices, halves, cess, rounding, and the line of a sales return (`lib/tax/gst`, `returns/sales-return-service`) | a price followed paisa by paisa, every rate, discount and cess, then returned in pieces | `LinesAddUp`: value and taxes add back to an inclusive price to the paisa, tax is the rate on the value but for what the roundings can add up to (`Slack`), and a plain line returned in any pieces cancels the sale |
| `SetOff` | the order input credit is spent in (`lib/tax/set-off`) | credits of 0 to 2 per head claimed one at a time against every liability up to 2 | `LeastCash`: no lawful spending leaves less to pay in cash |
| `Matching` | score, windows and greedy pairing (`lib/banking/matching`) | two lines and three entries on days 0, 3, 8 and 41, with or without a reference | `SuggestionsAreTheStrongest`: no stronger pair was passed over, and booking another entry never weakens what is suggested for a line |

The steps and days are chosen so that every threshold and every window lies
between two of them. Incomes are multiples of 2,000 rupees, at which every
percentage below the cess is exact, and the topmost slab, which has no upper
bound, ends at 200 crore.

## PeriodEnd

What an accountant does at the end of a period: agree the bank, read the
reports, work out the figures of the returns. `PeriodEnd` puts `Banking`,
`Statements` and the five calculations side by side. None of the seven touches
another's state, so a behaviour is about one of them (`subject`) and keeps the
others as they were (`Kept`): every behaviour of each is there, and no product
of them.

| run | instance | what it shows |
|---|---|---|
| `PeriodEnd` | those given with each of the seven | the three properties of `Banking`, the four of `Statements`, and one for each calculation |
| `Gst_return_credit` | the same | violated: `ReturnsMirrorTheSale`, see "Known disagreements" |

## Known disagreements

Four are kept as runs that TLC finds violated, each against what the
repository says of the program:

- `Books_late`: the periods page says that closing a period "stops anything
  further being posted into it" (`src/app/(app)/app/accounting/periods/page.tsx:32`),
  and `period-service.ts:16` that the figures behind it "must stop moving".
  `FrozenPeriods` says so of every step. A clerk's entry reads its month as open
  (`post-journal-entry.ts:107`), waits for its number, and commits after an
  administrator closed the month.
- `Settlements_race`: `settlement-service.ts:151` says that two receipts
  allocated to one invoice at the same moment cannot both succeed. The invoices
  and what credit notes took off them are read in the transaction with no lock
  on the invoice row; both receipts pass and `AllocationNeverExceedsOwed` fails. So it
  does for a receipt beside a return, with one receipt.
- `Payroll_void`: `payroll-service.ts:645-655` says a void is refused where an
  account no longer holds what the run put there, since reversing would drive it
  below nil. The balances are read (`:705`) statements before the reversal; a
  payment that commits in between is not seen, and `TakesBackOnlyDebtsThere` fails.
- `Gst_return_credit`: `createSalesReturn` prices what comes back from the stored
  quantity and rate alone. A discount, a price that includes tax and a cess are
  dropped, so a discounted line returned whole is credited at its full price,
  while the file's own comment says the return mirrors the sale exactly.
  `purchase-return-service.ts:176-207` does the same to a bill. Plain lines, which
  are all the tests return (`discountPercent: 0`), do cancel:
  `PlainReturnsCancelTheSale`.

The others were met while modelling and are seen by changing an instance as
described; most share one cause, a guard read with no lock. Where a passing run
has one request, one user, one handler or one clerk, the second is what is
described here: the run shows what holds without it, and the hazard's note in
`PROJECT.json` says which half of it that is.

- *Books.* With two administrators `SweptOnce`, `ClosedYearPeriodsClosed` and
  `ClosedYearsInOrder` fail: both close one year, a month is reopened while its
  year is being closed, two years are closed and reopened side by side. Even one
  at a time, after close, reopen, close, the next reopening may choose the
  closing entry that was reversed already and fails on `reversesId`
  (`ReopeningFindsStandingEntry`).
- *Settlements.* With two requests in flight, `PaidMatchesAllocations` fails (the
  second receipt overwrites the paid figure the first wrote,
  `settlement-service.ts:383`), `VoidedSaleHoldsNoMoney` fails (a receipt beside a
  void of its invoice, `sale-service.ts:809`), and so does
  `GoodsComeBackOnce` (a void beside a return, or two returns). `NoDeadlock`
  fails too: receipts lock an invoice and then JOURNAL, voids the other way
  round; one of them is aborted and ends, which is what `RequestsFinish` says.
- *StockLedger.* Under FIFO with two dates, `StockNeverNegative` fails: a sale
  dated before its purchase is replayed as taking nothing, so its units are sold
  again. A bill voided when its units are the last leaves nil units with a value
  under either method (buy one for 1 and one for 3, sell one, void the first;
  five movements), and under FIFO a sale after such a void may take the value
  below nil. A count posted beside a sale leaves another figure than was counted,
  the difference being worked out before the lock (`adjustment-service.ts:144`).
- *Banking.* Money moved between two of the business's own bank accounts is one
  entry; matched to one account's line it counts as cleared on the other too,
  whose difference is left unexplained (`reconciliation-service.ts:144` reads an
  entry's links without the account). It shows with a movement of -1 on one
  account and 1 on the other added to `OneAccountMovements`, as a violation of
  `NothingUnexplained`, which `lib/banking/matching.ts:241` says cannot be. With
  two clerks `OneLinePerEntry`, `RecordedOnce` and `NothingUnexplained` fail, and
  a matched entry may be voided, although a comment says a linked entry is
  always POSTED. Two movements equal in
  account, day, amount and text are imported as one.
- *Billing.* With two handlers `PaidStaysPaid` fails (`webhook.ts:343-345`: the
  status is read, then written unconditionally). With two users two orders wait
  for one plan (`OneOrderWaitsPerPlan`), and two concurrent plan changes grant an upgrade. An older order
  paid late lowers the plan (`webhook.ts:309`). With four plans `UpgradesArePaid`
  fails for one user and one handler (prices 0, 1, 2, 3 and two open orders): a
  change from the fourth plan to the third is read
  (`subscription-service.ts:212`), the older order for the second is paid, and
  the change, written without a second look (`:275`), is an upgrade nobody paid
  for. The product has three plans. Two lost deliveries lose a
  payment, where one does not. One after another, even, an invoice may be paid
  for the plan the company is already on (`NothingPaidTwice`,
  `checkout.ts:138-142`).
- *Team.* Two administrators inviting one address leave two open invitations,
  and each removing the other leaves no Owner (`AlwaysAnOwner`,
  `team-service.ts:746-759`).
- *Depreciation* pools a class of assets at one rate as one block. *Matching*:
  that of two equal rents in a fortnight the earlier line takes the earlier
  entry (`lib/banking/matching.ts:110-113`) does not always come out so, since
  pairs are taken by strength and closeness of dates.

## Fairness

Safety runs assume none. `RequestsFinish` of `Books` and `Settlements` assumes
that the server carries on a request it has started (weak fairness of its own
steps: there is no queue and no scheduler that could drop one short of a crash,
and a crash is `RollBack`); that a row lock is granted in turn (strong fairness
of the step that takes it: PostgreSQL queues waiters); and, in `Settlements`,
that the database ends a statement it refuses and aborts one request of every
deadlock. `PaidOrdersAreApplied` of `Billing` assumes that a delivery being
served goes on, unless its process dies, and that the provider delivers an event
of captured money again until it is answered, which is what the webhook's answers
are written for; of failures nothing is assumed.
Users are under no fairness at all: nobody is obliged to start anything, to pay
or to come back to a checkout. Crashes and `RollBack` are possible and never
required.

TLC's deadlock check is on for `Books`, `Settlements` and `StockLedger`. The other runs end when their bounded inputs (invoices, invitations,
payroll runs, entries, the inputs of a calculation) are used up, and switch it
off; `PayrollStands` states absence of a circle of waits for itself.

## What is proved

Each theorem holds for every value of its module's constants that the
assumptions declared beside them allow. They say no more than: the sets of users
and requests are disjoint where both occur and "nobody" is in none; sets that
money is summed over are finite; there is at least one year, period, plan,
request in flight; amounts and quantities are natural numbers; the windows asked
of `Statements` do not end before they begin, and its vouchers move an amount
between two accounts; rates and discounts are whole percentages, of which a
discount and a rate of depreciation are at most a hundred; incomes are multiples
of 2,000; and, in `Team`, the founder is one of the people and the Owner role grants everything any role
does. TLC evaluates all of them in every run. Where a theorem needs more, its
own ASSUME says so, and the table says it in words: "one in flight" is
`MaxInFlight = 1`, "one user", "one handler", "one administrator" and "one clerk"
that the set has at most one member.

| theorem | module | states |
|---|---|---|
| `TypeCorrect` | `Books_proofs` | `Spec => []TypeOK` |
| `GapFreeNumbers` | `Books_proofs` | `Spec => []NumbersGapFree` |
| `ReversalsPairOff` | `Books_proofs` | `Spec => []ReversedOnce` |
| `EngineImplementsLedger` | `Books_proofs` | `Spec => ImplementsLedger` |
| `ClosedYearsKeep` | `Books_proofs` | one in flight, or one administrator: `Spec => []ClosedYearsStand` |
| `ClosedYearsAreSwept` | `Books_proofs` | one in flight, or one administrator: `LateSpec => []OnlyLateEntriesEscape` |
| `ControlAccount` | `Settlements_proofs` | `Spec => []ControlAccountAgrees` |
| `ReceiptsStanding` | `Settlements_proofs` | `Spec => []ReceiptsStand` |
| `PaidMatches` | `Settlements_proofs` | one in flight: `Spec => []PaidMatchesAllocations` |
| `VoidedSalesSettled` | `Settlements_proofs` | one in flight: `Spec => []VoidedSalesAreSettled` |
| `NeverOverAllocated` | `Settlements_proofs` | one in flight: `Spec => AllocationNeverExceedsOwed` |
| `Reconciles` | `StockLedger_proofs` | `Spec => []StockReconciles` |
| `VoidsUndo` | `StockLedger_proofs` | `Spec => []VoidsUndoExactly` |
| `PooledStockStands` | `StockLedger_proofs` | `Spec => []PooledStockNeverNegative` |
| `ShelfDescribed` | `StockLedger_proofs` | `Spec => []ShelfIsDescribed` |
| `PayrollIsBookedOnce` | `Payroll_proofs` | `Spec => []PayrollStands` |
| `CalendarIsFull` | `Payroll_proofs` | `Spec => CalendarStands` |
| `EveryOrderIsKnown` | `Billing_proofs` | `Spec => []OrdersAreKnown` |
| `OneOrderWaits` | `Billing_proofs` | one user: `Spec => []OneOrderWaitsPerPlan` |
| `PaymentsStand` | `Billing_proofs` | one handler: `Spec => PaidStaysPaid` |
| `UpgradesPaid` | `Billing_proofs` | one user, one handler, at most three plans, of different prices: `Spec => UpgradesArePaid` |
| `TypeCorrect` | `Team_proofs` | `Spec => []TypeOK` |
| `PermissionsComeFromHolders` | `Team_proofs` | `Spec => PermissionsAreHandedOn` |
| `RemovedAreSignedOut` | `Team_proofs` | `Spec => RemovalEndsSessions` |
| `OneLinkOneMember` | `Team_proofs` | one administrator: `Spec => InvitationsWorkOnce` |
| `LinesRecordedOnce` | `PeriodEnd_proofs` | one clerk: `BankSpec => []RecordedOnce` |
| `MatchesStand` | `PeriodEnd_proofs` | one clerk: `BankSpec => []LinksStand` |
| `BankExplained` | `PeriodEnd_proofs` | one clerk, documents on one account each: `BankSpec => []NothingUnexplained` |
| `LeastCashAlways` | `PeriodEnd_proofs` | `SetOffSpec => []LeastCash` |
| `SuggestionsStrongest` | `PeriodEnd_proofs` | `MatchingSpec => []SuggestionsAreTheStrongest` |
| `ClaimsAlwaysStand` | `PeriodEnd_proofs` | `BlockSpec => []ClaimsStand` |
| `EarningNeverCosts` | `PeriodEnd_proofs` | `IncomeSpec => NeverWorseOffForEarning` |
| `LinesAlwaysAddUp` | `PeriodEnd_proofs` | `GstSpec => []LinesAddUp` |
| `ReportsAddUp` | `PeriodEnd_proofs` | `ReportsSpec => []ReportsBalance` |
| `LedgersContinue` | `PeriodEnd_proofs` | `ReportsSpec => []LedgerContinues` |
| `RetainedIsProfits` | `PeriodEnd_proofs` | no manual entry on retained earnings: `ReportsSpec => []RetainedEarningsAreTheProfits` |
| `NetWorthExplained` | `PeriodEnd_proofs` | no manual entry on retained earnings: `ReportsSpec => []ProfitExplainsNetWorth` |

### Books

`NumbersGapFree` is not inductive: that a commit extends the series by one rests
on the committing request having read the number the row still hands out. The
strengthening is `RowLocks`: a request about to commit holds the row of its
year and carries the number it hands out, and nobody else holds a row. The
invariant is `TypeOK /\ RowLocks /\ NumbersGapFree`. Most steps are `Quiet`
(they leave journal and rows alone and do not enter or leave the locked
section) and preserve it by one lemma; the work is in `AllocateNumber`,
`CommitEntry` and `RollBack`.

`ReversedOnce` relates entries, so its strengthening says what a waiting request
knows of the entry it will reverse: `RefJobs`, that this entry exists, is of
the kind, period and opposite amount the request carries. It stays true because
entries are only added and only their status changes. A reopening aims at a
closing entry found by year while its job is dated on the year's last day;
that the periods agree needs `ClosingOnLastDay`. The status half needs the
guard on `reversesId` at the insert, which is why `InsertAllowed` is expanded
in `CommitEntry` and nowhere else.

`EngineImplementsLedger` rests on both. Gap-free numbers make `Numbered` well
defined: each place below `nextNumber[y]` is held by exactly one entry. A commit
adds one place to one year's book and leaves what every earlier place shows, the
reversed entry's status being no part of it; the entry added is a `Post` when it
reverses nothing, and otherwise a `TakeBack` of a place that `ReversedOnce` and
the guard on `reversesId` say was not taken back before, whose amount `RefJobs`
gives. Every other step leaves `Book` unchanged.

Closing a year is a request of many steps, and what it checked first must still
be so when it writes. `Checked` says, step by step, what an administrator's
request has found out: the periods are closed (`PeriodsChecked`), the earlier
years are and the year has no entry that counts (`CloseChecked`), no later year
is closed and the entry to reverse is the year's one standing closing entry
(`ReopenChecked`). It is inductive as long as no two requests change periods or
years at once, so the hypothesis of `ClosedYearsKeep` is exactly that (`Alone`):
one administrator beside any clerks, or any number in turn. That a reopening
after close, reopen, close commits only against the entry still standing comes
from `SweptOnce` and the guard on `reversesId`.

`ClosedYearsAreSwept` is about the clerks' side of it, and there no hypothesis on
the clerks is needed. `LateInv` says which requests are overtaken: exactly those
past their look at a month that is closed now (`ShutOut`), so an entry that
commits into a closed month is a late one. And it says what a closing under way
carries (`LateJob`): the balance its year had when it was read, which is the
balance now less what has come late since. At the commit of the closing entry
the two meet (`CommitLate`). Between the reading and the end of the request,
nothing but an overtaken request can change the year's balance: the months are
closed (`Checked`), and while one administrator's request writes no other's
closing is under way (`NobodyCloses`). Most steps read and write nothing of this and are
settled by one lemma (`QuietLate`).

### Sums

Every property about money is a sum: over an invoice's receipts, a shelf's
movements, a run's payslips. `SumFunctionOnSet` of the community modules is a
recursive function on the subsets of a finite set, and `Sums` proves of it what
the rest needs: that the recursion has a solution (`AddsExists`), that the order
of adding does not matter (`SumWithout`), that one changed figure changes the
sum by the difference (`SumChanges`), and what an appended row adds
(`SumGrows`). Each is an induction in the form "a smallest subset on which it
fails has none smaller" (`Smallest`), because the induction theorems of the
library take an operator as a parameter. `StepsExist` does the same for a
recursion over `0 .. N`, which the replay of the FIFO layers is.

### Settlements

With any number of requests in flight, `ControlAccountAgrees` and
`ReceiptsStand` hold because of what comes last in each document: `JobStands`
says that a request past its journal entry (`PastEntry`) holds the JOURNAL row
and that its document still stands (`Accepted`). Two voids of one receipt both
read it POSTED; the one that gets the row second is refused by the entry it
would reverse, before anything it worked out is written. What a request read
earlier is in no part of this invariant, and so it says nothing of `paidAmount`.

The three other properties fail with two in flight (see "Known disagreements"),
so their theorems assume `MaxInFlight = 1`, for any invoices, amounts and
receipts. `InTurn` then adds what the code relies on without a lock: that the
amounts still owed, the paid figures and the allocation rows a request has read
are those of the database (`Fresh`), down to which invoices a receipt has
written and which are to do. Had the code read them under the invoice's lock,
`Fresh` would hold without the assumption; it is the exact statement of what is
missing.

### StockLedger

What a commit writes was worked out when the lock was taken, so the invariant
follows a movement on its way: what a request asks of the stock service
(`Asks`), that a void asks for the mirror image of the movement it names
(`TakesBack`), and, while it holds the lock, that what was worked out is about
the shelf as it is (`Works`). Of the rows on record, `RowStands` says that a
void names a purchase or a sale and that a purchase never has a negative value,
which `PooledStockNeverNegative` needs: a bill is voided at its own cost, checked
against the value left. `VoidsUndo` is for both methods; that FIFO's replay
works out integers at all is the lemma on `RebuildLayers`, proved through
`StepsExist`. `StockNeverNegative` of the FIFO method is false and no theorem.

### Payroll

`OpeningStands` says that the years a request is about to open are still the
missing ones, because it alone holds the calendar (`Alone`); from it comes that
the calendar stays an interval that begins with year 1 (`CalendarFull`).
`BookingStands` says that a run at its entry is its month's first, and that one
about to be reversed is there. The debts are sums of
payslips by authority, and `RunsStand` ties each run's entry to its payslips:
what is credited to five accounts is gross pay and the employer's share,
nothing twice. `SomebodyMoves` is a state predicate with the guards written
out (`CalendarReady`, `ReferenceReady`, ...), and is proved from the order of
the waits: calendar before series before index.

### Banking

The three theorems are for one clerk at a time, beside any number of uploads and
whatever documents are posted and voided. What a clerk's request has read stays
true until it writes (`Sound`): the line it found free is free, the one it is to
let go is linked to the entry it read, the entry it found unclaimed and of the
line's amount is so still. That is the part two clerks break. `WellLinked` keeps
links and entries in range; with `LinkedOnce`, `ImportedOnce`, `LinksAgree` and
`RecordedOnce` this is inductive. Uploads and the other modules only add lines
linked to nothing and entries recorded from none (`Grown`); the three writes of a
link go through `Relinked`. `ImportedOnce` needs no hypothesis about the uploads,
since what is inserted is tested against what is there then (`InsertFacts`).

`BankExplained` also needs that no document moves two of the accounts, without
which it fails (see "Known disagreements"). Then line and entry are each other's
only partner, on one account, and what is not outstanding on either side is
matched term by term: the two sums are equal by `SumMatched`, and what is taken
off each is a part of its sum by `SumParts`.

### Statements

The chart is the one in the module, an account of each kind; years, days, buckets,
pages, branches, vouchers and windows are any. The inductive invariant is
`BooksInOrder`. `WellBooked`: entries balance, and none reverses a later one.
`ClosingKept`: a closing entry touches results and retained earnings only.
`ClosedInOrder`: no year is closed before an earlier one. `Swept`: at a closed
year's end the income and expense accounts stand at nil. `Swept` is what a close
establishes and a reopening must give back; it survives every posting since only
open years accept one, and by `ClosedInOrder` an open year's days come after the
ends of all closed ones.

Every figure a report prints is then rewritten as a net of lines (`BalanceIs`,
`MovementIs`, `PositionIs`). The sheet balances because the nets of all accounts
cancel (`NetsCancel`, which adds up entry by entry what is summed account by
account: `SumSwapped`), the trend because each of the lines it reads falls in one
bucket and on one account (`SumGrouped`, used once for either order). For
`RetainedIsProfits` and `NetWorthExplained`, `ClosingCarries` says what reading a
window with and without closing entries leaves between the two: exactly what
retained earnings moved by. A manual entry on retained earnings, which
createManualEntry does not refuse, moves it with no profit behind it, and both
properties then speak of something else: hence the hypothesis, which the vouchers
of the run meet.

The rows of a ledger are placed by how many come before them; that every line is
among them once is `Ranked`, with which the running balance on the last row is
the opening balance plus the net of the window. Pages are a matter of quotient
and remainder (`Quotient`, `PageShowsAt`).

### SetOff

`LeastCashAlways` needs no invariant but types: whatever the liability and the
credit, `NoSpendingBeatsTheSetOff` bounds the credit any lawful spending can use
by what `applySetOff` uses, head by head in the order it spends, and the set-off
is itself lawful. It is the answer to whether the fixed order of the code can
ever cost a business cash.

The theorems about the calculations, like those about `Banking` and `Statements`,
are about each machine on its own (`SetOffSpec`, `MatchingSpec`, `BankSpec`,
`ReportsSpec`, ...), which `PeriodEnd` only places side by side for TLC.

### Matching

For statements and books of any length. `suggestMatches` sorts the candidates and
takes each whose line and entry are both still there; the model takes the first
free one until none is. `Greedily` is what holds of the pairs taken at every
turn: they share no side with one another, and whatever is no longer free shares
one with a pair taken that does not come after it. Each turn uses one line more,
so after as many turns as there are lines nothing is free (`TakenByGreed`), and
`NoStrongerPairLeft` is that statement with the order of the sort weakened to
strength and closeness.

`EvidenceOnlyHelps` compares two pairings of different books (`CoverHelps`).
Suppose some line is worse off with the entry than without it, and take the first
old pair, in the order of the sort, whose line is. It is a candidate still, so the
new pairing has a pair at least as strong on its line, which would do, or on its
entry. That pair's line was given something stronger still without the new entry,
and so comes earlier in the order and is worse off as well: a contradiction with
the choice. The order of the sort being total on candidates is what the argument
rests on (`FirstIs`).

### Depreciation

For any number of assets and years and any rate. `RollYearIs` is one year of it:
what is claimed and what is left come to the opening balance and the additions
less the proceeds, or to nothing. Added up over the years (`AddedUp`,
`NothingClaimedTwiceOver`), that is `NothingClaimedTwice`; proceeds that exceed a
block are what the two can differ by. For `PastSchedulesStand` the invariant is
`DepreciationInv`: no asset is dated after the current year (`BlockOK`), and what
was filed is what would be computed again (`FiledOK`). A purchase or a sale is of
the current year, so the years before it are rolled forward from the same figures
(`RollYearStays`), and two roll-forwards that agree year by year agree
(`RunsAgree`).

### Income tax

For every assessee and regime, at any income and for any rise. In units of 2,000
rupees the slabs are a sum of shares of the income (`Share`), whose rise by a unit
costs at most 30 per cent (`BaseRises`); the rebate with its relief is the lesser
of that sum and what is earned above its limit, which rises by no more than the
income does (`RebatedRises`). The surcharge is a ladder of at most four bands,
whose tax at each threshold the code computes from the one below. `InBand` is the
tax in one band: within it the income's rise covers the tax's, because the tax
before surcharge is linear there (`RebatedFlattens`) and the highest rate of tax
and surcharge together stays under the whole (`WithinABand`); and the relief makes
the tax at a threshold the same from below and from above (`AtTheThreshold`), so
no band makes it jump. Any two incomes are then compared threshold by threshold
(`RisesToTheNext`, `RisesToABand`, `AllRise`). It is a theorem about these tables:
a rate above 100 per cent with its surcharge, or a relief worked out from the
wrong threshold, would break it.

### GST

For any price of whole paise, quantity, discount and rates. Each quotient is
rounded by half a unit at most (`RatioIs`) and each figure by half a paisa
(`Round2Is`), and the three parts of `LinesAddUp` follow these through the line.
An inclusive price is paid exactly because both taxes are what the value leaves of
it (`LinePaid`). How far a tax may stray from its rate is the content of `Slack`,
and the proof is where its terms come from. `Unwound`: half a paisa on the value
counts for the rate as well, hence the factor 100 + tax + cess. `CessOfIs`: the
share of the tax that is cess is a quotient the code keeps to four decimals
(`divide` in `lib/money`), so on an inclusive line with cess the split strays with
the tax itself, by up to one part in 20,000 of it. At the amounts of the run that is
less than a paisa; of a tax of 2,000 rupees it is ten. Only with both does the
tolerance hold at every price, which trying larger prices in TLC would
not have shown.

Of a return, each note is priced at the line's rate to the unit and its total to
the rupee (`NoteIs`); over all notes the deviations add up to one unit and half a
rupee each (`NotesAddUp`, by `SumScaled` and `SumAtMost`), and the values add up to
the line's because nothing is outstanding (`PlainCancels`). The inductive invariant
is only that the line is one that can be keyed in (`GstInv`).

### Billing

`EveryOrderIsKnown` covers the state between two statements of a checkout and of
a delivery. A request between its invoice and its order holds an invoice with
no order and its own plan (`Opening`), no two hold one (`OwnInvoices`), and the
order it will store is for that plan (`Storing`); so storing it overwrites
nothing, a crash in between leaves an invoice without an order and an order
nobody is shown, and what is shown belongs to an invoice (`Returning`). A
delivery acts on an invoice whose order its event is about (`Delivery`), the
provider reports full money as an order too (`Reported`), and an invoice's order
is the provider's, for its plan (`Ordered`): so PAID means the money is there.
All rest on what never goes back (`Kept`).

The other three need requests that do not overlap. `InvoicesWritten` says which
step writes what of an invoice; with it, an order begins to wait only when it is
stored (`WaitingBegins`), by a request that found none waiting, and with one
user that is still so (`Asked`). With one handler the invoice a delivery is
about to change has not been paid since it was read (`Unpaid`). `UpgradesPaid`
has a hypothesis the code does not state, that there are at most three plans:
a change of plan in flight is for less than the dearest, an older order for more
than the cheapest, and with three plans no order paid meanwhile takes the plan
below the one changed to (`RoomForNoThird`). With four it does, see "Known
disagreements".

### Team

The theorems about `Team` are for any number of administrators, where its run
has one, and rest on what a request may still rely on long after it read it.
`Sound` says this of each: the link it follows exists (`Joins`), past the role
check its actor held what the role grants (`Permitted`), the membership it
changes has not gone back to none (`Belongs`), and the epoch a sign-in carries
has been reached (`Dated`). With `Vouched`, the same for what an invitation
hands on, and `SessionsDated`, no session is ahead of its user's epoch, it is
inductive. A demoted administrator's request still in flight is covered: its
`holder` is what was held when it started, which is what the property allows.
Only `UpdateMember` and `Join` write memberships (`MembersWritten`), only
`IncrementEpoch` takes a request past revoking (`RevokingEnds`), and its new
epoch is past every session and every sign-in under way (`EpochPassesAll`); the
rows `MarkRevoked` takes out afterwards can only be fewer sessions.

`OneLinkOneMember` is for one administrator's request at a time; with two, two
requests find the same invitations to supersede and each adds its own, see
"Known disagreements". Only the newest invitation to an address can be open
(`NewestOpens`), and a request about to write another one has every open one
among those it closes (`Superseding`). The second is what a second administrator
breaks: the list is read a statement before it is used. The people following
links may be any number, since a link is taken in the statement that tests it.

### Only model-checked

Liveness (`RequestsFinish`, `PaidOrdersAreApplied`), which is beyond the proof
system: it has no rules for fairness. Every other property of a passing run is a
theorem, some of them under a hypothesis the table names, without which they fail
as described under "Known disagreements". What the two systems share is the
model: that a definition says what the code does is shown by neither.

## Plan

1. `CreditLimit`: the limit read under a series row that two years do not share.
2. `OpeningBalance`: the record and the ledger parting when two edits overlap.
3. `Vouchers` (expenses and fixed assets), the payable side where it differs,
   the branch and settings operations of `company/`, custom roles, and
   cancelling and resuming a subscription.
4. `Limits` and `RateLimit`: counters checked before the insert; fixed windows,
   the check that times out, two replicas.
5. Proofs: `Fresh` of `Settlements` as the guard a locked read would give, and
   from it the theorems of one request in flight for any number of them.

Hazards the list in `PROJECT.json` names without a property are those of the
first two; others known and left to these modules: plan limits counted before
the insert (`billing/guards.ts:223`), settings frozen by a read
(`company/settings-service.ts:227`), closing a branch beside making it primary
(`company/branch-service.ts:214`), a rate-limit check that times out
(`security/rate-limit.ts:292`).

## Not modelled

Reports other than those of `Statements`, forecast, advisor, search and
dashboard only read. The AI accountant is a bounded loop over read-only tools
and an external model. Documents and e-mail are layout and one external call.
Provisioning and purge are single transactions on a company nobody else uses.
The GST returns and the income-tax working paper lay out figures the
calculations model. The user interface, some two fifths of the source lines,
holds no business state. The triggers of the integrity migration restate inside
the database what the services check and are not modelled; the modules rely on
the unique indexes and on the checks that `paidAmount` is neither negative nor
more than the invoice. Tenant isolation is a `companyId` in every query and has
no state of its own: every module models one company.
