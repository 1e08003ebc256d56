------------------------------- MODULE Books -------------------------------
(***************************************************************************)
(* The general ledger of one company: the posting engine (postJournalEntry *)
(* and the JOURNAL number series behind it), manual entries and their      *)
(* reversal, and the closing and reopening of periods and fiscal years.    *)
(*                                                                         *)
(* Every server action is a request that takes several database steps.     *)
(* PostgreSQL runs them READ COMMITTED: a statement sees what is committed *)
(* when it starts and a transaction's writes appear to the others when it  *)
(* commits, so one action below is one statement, or a commit.  The JOURNAL*)
(* row of document_sequences is read FOR UPDATE and held to the commit.    *)
(*                                                                         *)
(* An entry's lines are abstracted to `amount`, the change the entry makes *)
(* to the income and expense accounts taken together (its other side lies  *)
(* in balance-sheet accounts); FiscalYear.closedAt to a Boolean; the days  *)
(* of a period to the period.                                              *)
(***************************************************************************)
EXTENDS Integers, Sequences, FiniteSets

CONSTANTS
    Clerks,          \* requests of users who post and reverse manual entries
    Admins,          \* requests of users who close and reopen periods and years
    NoRequest,       \* "nobody holds this row"
    NumYears,        \* fiscal years of the company's calendar
    PeriodsPerYear,  \* fiscal periods of a year (12 in the code)
    Amounts,         \* the results a manual entry can carry
    MaxEntries,      \* bound: entries ever posted
    MaxInFlight      \* bound: requests running at once (1 = one after another)

ASSUME NamesAssumption == /\ NoRequest \notin Clerks \union Admins
                          /\ Clerks \intersect Admins = {}
ASSUME SizesAssumption == /\ NumYears \in Nat \ {0}
                          /\ PeriodsPerYear \in Nat \ {0}
                          /\ Amounts \subseteq Int \ {0}
                          /\ MaxEntries \in Nat
                          /\ MaxInFlight \in Nat \ {0}

Requests == Clerks \union Admins
Years    == 1 .. NumYears
Periods  == Years \X (1 .. PeriodsPerYear)
YearOf(p)     == p[1]
LastPeriod(y) == <<y, PeriodsPerYear>>
Before(p, q)  == p[1] < q[1] \/ (p[1] = q[1] /\ p[2] < q[2])
NoEntry  == 0

VARIABLES
    periodStatus,  \* FiscalPeriod.status
    closed,        \* FiscalYear.closedAt is set
    journal,       \* journal_entries; an entry's id is its position
    resultTo,      \* income and expense balance as at each year end
    nextNumber,    \* document_sequences.nextValue of the JOURNAL series
    seqHolder,     \* the request whose transaction has that row locked
    req            \* what each request is doing and has read so far

vars == <<periodStatus, closed, journal, resultTo, nextNumber, seqHolder, req>>

Kinds == {"MANUAL", "REVERSAL", "CLOSING", "REOPENING"}
Ops   == {"NONE", "POST", "REVERSE", "CLOSE_PERIOD", "REOPEN_PERIOD",
          "CLOSE_YEAR", "REOPEN_YEAR"}
Steps == {"idle", "checking", "ordering", "balancing", "posting", "numbering",
          "writing", "updating"}

Entry == [number : Nat \ {0}, period : Periods, kind : Kinds,
          status : {"POSTED", "REVERSED"}, reverses : Nat, amount : Int]
Job   == [op : Ops, at : Steps, period : Periods, amount : Int, ref : Nat,
          number : Nat]

NoJob == [op |-> "NONE", at |-> "idle", period |-> <<1, 1>>, amount |-> 0,
          ref |-> NoEntry, number |-> 0]

InFlight == {r \in Requests : req[r].at # "idle"}
MayStart(r) == req[r].at = "idle" /\ Cardinality(InFlight) < MaxInFlight
\* The bounded journal has room for what the running requests may still write.
HasRoom == Len(journal) + Cardinality(InFlight) < MaxEntries

Goto(r, step)    == req' = [req EXCEPT ![r].at = step]
Finish(r)        == req' = [req EXCEPT ![r] = NoJob]
KeepsBooks       == UNCHANGED <<periodStatus, closed, journal, resultTo, nextNumber>>
\* The first read finds what the operation asks for, or the request ends there.
Start(r, found, job) ==
    /\ MayStart(r)
    /\ req' = IF found THEN [req EXCEPT ![r] = job] ELSE req
    /\ KeepsBooks /\ UNCHANGED seqHolder

---------------------------------------------------------------------------
(* Faulty forms of definitions below, against which the properties are     *)
(* checked; the specification does not use them.                           *)

FaultNoRowLock(r)        == TRUE
FaultDuplicateReversal(r) == TRUE
FaultReopenAlways(p)     == TRUE
FaultIgnoreLaterYears(y) == TRUE
FaultLockKept(r)         == seqHolder

---------------------------------------------------------------------------
(* Statements every posting shares: postJournalEntry. *)

\* The refusal of postJournalEntry: only the entries the year close and the
\* year reopening write are let into a period that is not open.
IntoClosedPeriod(r) == req[r].op \in {"CLOSE_YEAR", "REOPEN_YEAR"}
PeriodTakesEntry(r) ==
    periodStatus[req[r].period] = "OPEN" \/ IntoClosedPeriod(r)

ResolvePeriod(r) ==
    /\ req[r].at = "posting"
    /\ IF PeriodTakesEntry(r) THEN Goto(r, "numbering") ELSE Finish(r)
    /\ KeepsBooks /\ UNCHANGED seqHolder

\* allocateDocumentNumber: SELECT ... FOR UPDATE waits for the row.  The new
\* nextValue stays the transaction's own until it commits.
SequenceRowFree(r) == seqHolder[YearOf(req[r].period)] = NoRequest

AllocateNumber(r) ==
    LET y == YearOf(req[r].period) IN
    /\ req[r].at = "numbering"
    /\ SequenceRowFree(r)
    /\ seqHolder' = [seqHolder EXCEPT ![y] = r]
    /\ req' = [req EXCEPT ![r].at = "writing", ![r].number = nextNumber[y]]
    /\ KeepsBooks

\* The transaction is gone: an error, a timeout, a lost connection.  Nothing it
\* wrote remains and its row locks are released.
ReleasedBy(r) == [y \in Years |-> IF seqHolder[y] = r THEN NoRequest ELSE seqHolder[y]]
RollBack(r) ==
    /\ req[r].at # "idle"
    /\ Finish(r)
    /\ seqHolder' = ReleasedBy(r)
    /\ KeepsBooks

KindOf(op) == CASE op = "POST"       -> "MANUAL"
                [] op = "REVERSE"    -> "REVERSAL"
                [] op = "CLOSE_YEAR" -> "CLOSING"
                [] OTHER             -> "REOPENING"

EntryOf(r) == [number   |-> req[r].number, period |-> req[r].period,
               kind     |-> KindOf(req[r].op), status |-> "POSTED",
               reverses |-> req[r].ref, amount |-> req[r].amount]

\* journal_entries.reversesId is @unique.
AlreadyReversed(e) == \E i \in 1 .. Len(journal) : journal[i].reverses = e
InsertAllowed(r)   == req[r].ref = NoEntry \/ ~ AlreadyReversed(req[r].ref)
Collide(r) == req[r].at = "writing" /\ ~ InsertAllowed(r) /\ RollBack(r)

\* reversePostedEntry also marks the original REVERSED; reopenFiscalYear
\* posts its mirror image and leaves the closing entry POSTED.
JournalBefore(r) ==
    IF req[r].op = "REVERSE"
      THEN [journal EXCEPT ![req[r].ref].status = "REVERSED"]
      ELSE journal

ClosedAfter(r) ==
    CASE req[r].op = "CLOSE_YEAR"  -> [closed EXCEPT ![YearOf(req[r].period)] = TRUE]
      [] req[r].op = "REOPEN_YEAR" -> [closed EXCEPT ![YearOf(req[r].period)] = FALSE]
      [] OTHER -> closed

\* The insert, the updates that follow it and the commit.
CommitEntry(r) ==
    LET y == YearOf(req[r].period) IN
    /\ req[r].at = "writing"
    /\ InsertAllowed(r)
    /\ journal' = Append(JournalBefore(r), EntryOf(r))
    /\ nextNumber' = [nextNumber EXCEPT ![y] = req[r].number + 1]
    /\ resultTo' = [z \in Years |-> resultTo[z] + (IF z >= y THEN req[r].amount ELSE 0)]
    /\ closed' = ClosedAfter(r)
    /\ seqHolder' = ReleasedBy(r)
    /\ Finish(r)
    /\ UNCHANGED periodStatus

---------------------------------------------------------------------------
(* Manual entries: createManualEntry, reverseManualEntry. *)

CreateManualEntry(r, p, a) ==
    /\ HasRoom
    /\ Start(r, TRUE, [NoJob EXCEPT !.op = "POST", !.at = "posting",
                                    !.period = p, !.amount = a])

\* Only a POSTED entry that somebody typed is reversed here; the reversal is
\* dated, and so periodised, as the entry it reverses.
ReverseManualEntry(r, i) ==
    /\ HasRoom
    /\ Start(r, journal[i].kind = "MANUAL" /\ journal[i].status = "POSTED",
             [NoJob EXCEPT !.op = "REVERSE", !.at = "posting", !.ref = i,
                           !.period = journal[i].period, !.amount = - journal[i].amount])

---------------------------------------------------------------------------
(* Periods: closePeriod, reopenPeriod.  No transaction spans their steps. *)

ClosePeriod(r, p) ==
    Start(r, periodStatus[p] = "OPEN",
          [NoJob EXCEPT !.op = "CLOSE_PERIOD", !.at = "ordering", !.period = p])

CheckEarlierPeriods(r) ==
    /\ req[r].op = "CLOSE_PERIOD" /\ req[r].at = "ordering"
    /\ IF \E q \in Periods : Before(q, req[r].period) /\ periodStatus[q] = "OPEN"
         THEN Finish(r)
         ELSE Goto(r, "updating")
    /\ KeepsBooks /\ UNCHANGED seqHolder

\* A month of a closed year is reopened through the year.
ReopenPeriodAllowed(p) == ~ closed[YearOf(p)]

ReopenPeriod(r, p) ==
    Start(r, periodStatus[p] = "CLOSED" /\ ReopenPeriodAllowed(p),
          [NoJob EXCEPT !.op = "REOPEN_PERIOD", !.at = "updating", !.period = p])

UpdatePeriod(r) ==
    /\ req[r].op \in {"CLOSE_PERIOD", "REOPEN_PERIOD"} /\ req[r].at = "updating"
    /\ periodStatus' = [periodStatus EXCEPT ![req[r].period] =
                          IF req[r].op = "CLOSE_PERIOD" THEN "CLOSED" ELSE "OPEN"]
    /\ Finish(r)
    /\ UNCHANGED <<closed, journal, resultTo, nextNumber, seqHolder>>

---------------------------------------------------------------------------
(* Years: closeFiscalYear, reopenFiscalYear.  The checks come before the   *)
(* transaction, and the balances are read on another connection than its.  *)

CloseFiscalYear(r, y) ==
    /\ HasRoom
    /\ Start(r, ~ closed[y], [NoJob EXCEPT !.op = "CLOSE_YEAR", !.at = "checking",
                                           !.period = LastPeriod(y)])

EveryPeriodClosed(y) == \A p \in Periods : YearOf(p) = y => periodStatus[p] = "CLOSED"

CheckPeriodsClosed(r) ==
    /\ req[r].op = "CLOSE_YEAR" /\ req[r].at = "checking"
    /\ IF EveryPeriodClosed(YearOf(req[r].period)) THEN Goto(r, "ordering") ELSE Finish(r)
    /\ KeepsBooks /\ UNCHANGED seqHolder

CheckEarlierYears(r) ==
    /\ req[r].op = "CLOSE_YEAR" /\ req[r].at = "ordering"
    /\ IF \E z \in Years : z < YearOf(req[r].period) /\ ~ closed[z]
         THEN Finish(r)
         ELSE Goto(r, "balancing")
    /\ KeepsBooks /\ UNCHANGED seqHolder

\* postClosingEntry: the opposite of what the accounts carry on the last day,
\* and no entry at all when every one of them is at nil.  A year that breaks
\* even may have accounts that carry something: then an entry of nil result.
HasEntries(y) ==
    \E i \in 1 .. Len(journal) : journal[i].kind = "MANUAL" /\ YearOf(journal[i].period) <= y

ReadBalances(r, carry) ==
    LET y == YearOf(req[r].period) IN
    /\ req[r].op = "CLOSE_YEAR" /\ req[r].at = "balancing"
    /\ resultTo[y] # 0 => carry
    /\ carry => HasEntries(y)
    /\ req' = [req EXCEPT ![r].amount = - resultTo[y],
                          ![r].at = IF carry THEN "posting" ELSE "updating"]
    /\ KeepsBooks /\ UNCHANGED seqHolder

ReopenFiscalYear(r, y) ==
    /\ HasRoom
    /\ Start(r, closed[y], [NoJob EXCEPT !.op = "REOPEN_YEAR", !.at = "ordering",
                                         !.period = LastPeriod(y)])

NoLaterYearClosed(y) == \A z \in Years : z > y => ~ closed[z]

CheckLaterYears(r) ==
    /\ req[r].op = "REOPEN_YEAR" /\ req[r].at = "ordering"
    /\ IF NoLaterYearClosed(YearOf(req[r].period)) THEN Goto(r, "balancing") ELSE Finish(r)
    /\ KeepsBooks /\ UNCHANGED seqHolder

\* findFirst without orderBy: any POSTED closing entry of the year.
IsClosingEntry(i, y) == /\ journal[i].kind = "CLOSING"
                        /\ journal[i].status = "POSTED"
                        /\ YearOf(journal[i].period) = y
ClosingEntries(y) == {i \in 1 .. Len(journal) : IsClosingEntry(i, y)}

FindClosingEntry(r, i) ==
    /\ req[r].op = "REOPEN_YEAR" /\ req[r].at = "balancing"
    /\ i \in ClosingEntries(YearOf(req[r].period))
    /\ req' = [req EXCEPT ![r].ref = i, ![r].amount = - journal[i].amount,
                          ![r].at = "posting"]
    /\ KeepsBooks /\ UNCHANGED seqHolder

FindNoClosingEntry(r) ==
    /\ req[r].op = "REOPEN_YEAR" /\ req[r].at = "balancing"
    /\ ClosingEntries(YearOf(req[r].period)) = {}
    /\ Goto(r, "updating")
    /\ KeepsBooks /\ UNCHANGED seqHolder

\* A year without a closing entry is closed, or reopened, by closedAt alone.
UpdateYear(r) ==
    /\ req[r].op \in {"CLOSE_YEAR", "REOPEN_YEAR"} /\ req[r].at = "updating"
    /\ closed' = ClosedAfter(r)
    /\ Finish(r)
    /\ UNCHANGED <<periodStatus, journal, resultTo, nextNumber, seqHolder>>

---------------------------------------------------------------------------
Init ==
    /\ periodStatus = [p \in Periods |-> "OPEN"]
    /\ closed = [y \in Years |-> FALSE]
    /\ journal = << >>
    /\ resultTo = [y \in Years |-> 0]
    /\ nextNumber = [y \in Years |-> 1]
    /\ seqHolder = [y \in Years |-> NoRequest]
    /\ req = [r \in Requests |-> NoJob]

Posting(r) == ResolvePeriod(r) \/ AllocateNumber(r) \/ CommitEntry(r)

ClerkStep(r) ==
    \/ \E p \in Periods, a \in Amounts : CreateManualEntry(r, p, a)
    \/ \E i \in 1 .. Len(journal) : ReverseManualEntry(r, i)

AdminStart(r) ==
    \/ \E p \in Periods : ClosePeriod(r, p)
    \/ \E p \in Periods : ReopenPeriod(r, p)
    \/ \E y \in Years : CloseFiscalYear(r, y)
    \/ \E y \in Years : ReopenFiscalYear(r, y)

AdminStep(r) ==
    \/ CheckEarlierPeriods(r)
    \/ UpdatePeriod(r)
    \/ CheckPeriodsClosed(r)
    \/ CheckEarlierYears(r)
    \/ \E carry \in BOOLEAN : ReadBalances(r, carry)
    \/ CheckLaterYears(r)
    \/ \E i \in 1 .. Len(journal) : FindClosingEntry(r, i)
    \/ FindNoClosingEntry(r)
    \/ UpdateYear(r)

Next ==
    \/ \E r \in Clerks : ClerkStep(r)
    \/ \E r \in Admins : AdminStart(r) \/ AdminStep(r)
    \/ \E r \in Requests : Posting(r) \/ RollBack(r)

Spec == Init /\ [][Next]_vars

\* A request that has started is carried on by the server; a collision on
\* reversesId ends in a rollback; a row lock is granted in turn, so a request
\* that finds the row free again and again gets it.
Fairness ==
    /\ \A r \in Admins : WF_vars(AdminStep(r))
    /\ \A r \in Requests : /\ WF_vars(ResolvePeriod(r) \/ CommitEntry(r))
                           /\ SF_vars(AllocateNumber(r))
                           /\ WF_vars(Collide(r))

FairSpec == Spec /\ Fairness

---------------------------------------------------------------------------
(* Properties *)

TypeOK ==
    /\ periodStatus \in [Periods -> {"OPEN", "CLOSED"}]
    /\ closed \in [Years -> BOOLEAN]
    /\ journal \in Seq(Entry)
    /\ resultTo \in [Years -> Int]
    /\ nextNumber \in [Years -> Nat \ {0}]
    /\ seqHolder \in [Years -> Requests \union {NoRequest}]
    /\ req \in [Requests -> Job]

EntryYear(i) == YearOf(journal[i].period)

\* The JOURNAL series of a year is handed out in commit order, never twice and
\* without a gap, whatever ran at the same time and whatever was rolled back
\* (allocateDocumentNumber).
NumbersGapFree ==
    \A y \in Years :
        /\ \A n \in 1 .. nextNumber[y] - 1 :
              \E i \in 1 .. Len(journal) : EntryYear(i) = y /\ journal[i].number = n
        /\ \A i \in 1 .. Len(journal) : EntryYear(i) = y => journal[i].number < nextNumber[y]
        /\ \A i, j \in 1 .. Len(journal) :
              i < j /\ EntryYear(i) = y /\ EntryYear(j) = y
                => journal[i].number < journal[j].number

\* An entry is reversed at most once, by an entry of its own period that takes
\* its amount back, and a manual entry reads REVERSED exactly when it has been
\* (reversePostedEntry under two concurrent reverseManualEntry).
ReversedOnce ==
    /\ \A i, j \in 1 .. Len(journal) :
          i # j /\ journal[i].reverses # NoEntry => journal[i].reverses # journal[j].reverses
    /\ \A j \in 1 .. Len(journal) :
          LET i == journal[j].reverses IN
          i # NoEntry => /\ i < j
                         /\ journal[i].period = journal[j].period
                         /\ journal[i].amount = - journal[j].amount
    /\ \A i \in 1 .. Len(journal) :
          journal[i].kind = "MANUAL" => (journal[i].status = "REVERSED" <=> AlreadyReversed(i))

\* Years are closed oldest first and reopened newest first: no closed year
\* stands on an open one (closeFiscalYear, reopenFiscalYear).
ClosedYearsInOrder ==
    \A y, z \in Years : closed[y] /\ z < y => closed[z]

\* A closed year has no month that takes entries again (closeFiscalYear and
\* the YEAR_CLOSED refusal of reopenPeriod).
ClosedYearPeriodsClosed ==
    \A y \in Years : closed[y] => EveryPeriodClosed(y)

\* A year's result is swept once: at most one closing entry of a closed year
\* is not reversed, and none of an open one (closeFiscalYear, reopenFiscalYear).
Standing(y) == {i \in ClosingEntries(y) : ~ AlreadyReversed(i)}
SweptOnce ==
    \A y \in Years : /\ ~ closed[y] => Standing(y) = {}
                     /\ \A i, j \in Standing(y) : i = j

\* All three at once, under requests that check their neighbours before they
\* write (closeFiscalYear, reopenFiscalYear, reopenPeriod).
ClosedYearsStand == ClosedYearsInOrder /\ ClosedYearPeriodsClosed /\ SweptOnce

\* Nothing but the year's own closing and reopening entries is committed into
\* a period that is closed (closePeriod, postJournalEntry).  It fails: the
\* period is read before the number row is waited for, and may be closed by the
\* time the entry commits.  LateEntries says how far the damage goes.
FrozenPeriods ==
    [][\A i \in 1 .. Len(journal') :
         i > Len(journal) /\ journal'[i].kind \in {"MANUAL", "REVERSAL"}
           => periodStatus[journal'[i].period] = "OPEN"]_vars

\* A year can always be reopened: the entry reopenFiscalYear is about to
\* reverse has not been reversed before.
ReopeningFindsStandingEntry ==
    \A r \in Admins : req[r].op = "REOPEN_YEAR" /\ req[r].at = "writing" => InsertAllowed(r)

\* The books as an auditor reads them, year by year and number by number: the
\* posting engine, its locks and its rollbacks implement an append-only ledger
\* in which every correction is a visible entry (postJournalEntry,
\* allocateDocumentNumber, reversePostedEntry, reopenFiscalYear).
Numbered(y, n) ==
    CHOOSE i \in 1 .. Len(journal) : EntryYear(i) = y /\ journal[i].number = n
NumberTakenBack(e) == IF e.reverses = NoEntry THEN 0 ELSE journal[e.reverses].number
Shown(e) == [amount |-> e.amount, takesBack |-> NumberTakenBack(e)]
Book == [y \in Years |-> [n \in 1 .. nextNumber[y] - 1 |-> Shown(journal[Numbered(y, n)])]]

Abstract == INSTANCE Ledger WITH book <- Book
ImplementsLedger == Abstract!Spec

\* Every request ends, posted, refused or failed: waiting for the number
\* series never lasts for ever.
RequestsFinish == \A r \in Requests : req[r].at # "idle" ~> req[r].at = "idle"

=============================================================================
