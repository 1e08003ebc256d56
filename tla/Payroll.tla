------------------------------- MODULE Payroll -------------------------------
(***************************************************************************)
(* Running payroll, and the fiscal calendar every dated document may have   *)
(* to extend first: a month is paid by one run that leaves five debts, the  *)
(* run may be cancelled while they stand, and a pay date the calendar has   *)
(* not reached opens the years up to it.                                    *)
(*                                                                         *)
(* A request is one READ COMMITTED transaction and an action one of its     *)
(* waits with what it then reads.  The JOURNAL row is the last thing either *)
(* transaction waits for, so taking it and the commit are one action.       *)
(* Money is whole rupees; years and months are numbered, the company having *)
(* been set up in year 1.                                                   *)
(***************************************************************************)
EXTENDS Integers, Sequences, FiniteSets, FiniteSetsExt, Functions

CONSTANTS
    Requests,     \* requests that run and cancel payrolls
    Employees,
    Staff,        \* each employee's pay, and the months of joining and leaving
    Policy,       \* the registrations and the professional tax of the company
    Months,       \* the months that are paid
    Withholdings, \* what may be typed as each employee's tax deducted at source
    LastYear,     \* bound: the calendar is watched up to this year
    MaxRuns,      \* bound: runs ever posted
    MaxPayments   \* bound: remittances and salary payments

ASSUME StaffAssumption ==
    /\ IsFiniteSet(Employees) /\ Months \subseteq Nat
    /\ Staff \in [Employees -> [basic : Nat, allowances : Nat, joins : Nat, leaves : Nat]]
    /\ Policy \in [providentFund : BOOLEAN, insurance : BOOLEAN, monthly : Nat, threshold : Nat]
    /\ Withholdings \subseteq [Employees -> Nat]
ASSUME BoundsAssumption == LastYear \in Nat \ {0} /\ MaxRuns \in Nat /\ MaxPayments \in Nat

Liabilities == {"SALARY_PAYABLE", "PF_PAYABLE", "ESI_PAYABLE", "PROFESSIONAL_TAX_PAYABLE",
                "TDS_PAYABLE"}
Years == 1 .. LastYear
None  == 0

VARIABLES
    today,    \* the fiscal year the clock is in
    years,    \* fiscal_years: those the calendar has
    current,  \* the year that carries isCurrent
    runs,     \* payroll rows with their payslips, an id being a position
    owed,     \* what the ledger holds on each liability, credits positive
    payments, \* payments made on the five liabilities
    job       \* what each request is doing and has read

calendar == <<today, years, current>>
vars == <<today, years, current, runs, owed, payments, job>>

NoJob == [op |-> "NONE", at |-> "idle", month |-> None, year |-> None, slips |-> {},
          asOf |-> None, holdsCalendar |-> FALSE, marks |-> FALSE, opening |-> {}, run |-> None]
Idle(u) == job[u].at = "idle"
Done(u) == job' = [job EXCEPT ![u] = NoJob]
Live(i) == runs[i].status = "APPROVED"
RunIds  == 1 .. Len(runs)

---------------------------------------------------------------------------
(* Faulty forms of definitions below, against which the properties are     *)
(* checked; the specification does not use them.                           *)

FaultNoSecondLook(u)     == FALSE
FaultNoIndex(u)          == TRUE

---------------------------------------------------------------------------
(* One employee's pay for a month: lib/payroll/statutory.ts *)

PF_CEILING == 15000
ESI_LIMIT  == 21000
\* Provident fund at 12 per cent goes to the nearest rupee, insurance at 0.75
\* and 3.25 per cent to the next.
Nearest(amount, percent) == (2 * amount * percent + 100) \div 200
NextRupee(amount, parts) == (amount * parts + 9999) \div 10000

ComputeStatutory(e, tds) ==
    LET pay    == Staff[e]
        gross  == pay.basic + pay.allowances
        pfWage == IF ~ Policy.providentFund THEN 0 ELSE Min({pay.basic, PF_CEILING})
        inEsi  == Policy.insurance /\ gross <= ESI_LIMIT
        pf     == Nearest(pfWage, 12)
        esi    == IF inEsi THEN NextRupee(gross, 75) ELSE 0
        pt     == IF gross >= Policy.threshold THEN Policy.monthly ELSE 0
    IN  [employee |-> e, gross |-> gross, pf |-> pf, esi |-> esi, pt |-> pt, tds |-> tds,
         net |-> gross - (pf + esi + pt + tds),
         employerPf |-> pf, employerEsi |-> IF inEsi THEN NextRupee(gross, 325) ELSE 0]

\* Joining or leaving during the month still puts somebody on the run.
EmployedDuring(m) == {e \in Employees : /\ Staff[e].joins <= m
                                        /\ Staff[e].leaves = None \/ Staff[e].leaves >= m}
Payslips(m, tds) == {ComputeStatutory(e, tds[e]) : e \in EmployedDuring(m)}

\* The credit lines of the entry; gross pay and the employer's shares are debited.
CreditLines(slips) ==
    [l \in Liabilities |->
       CASE l = "SALARY_PAYABLE" -> SumFunction([s \in slips |-> s.net])
         [] l = "PF_PAYABLE"     -> SumFunction([s \in slips |-> s.pf])
                                    + SumFunction([s \in slips |-> s.employerPf])
         [] l = "ESI_PAYABLE"    -> SumFunction([s \in slips |-> s.esi])
                                    + SumFunction([s \in slips |-> s.employerEsi])
         [] l = "PROFESSIONAL_TAX_PAYABLE" -> SumFunction([s \in slips |-> s.pt])
         [] l = "TDS_PAYABLE"    -> SumFunction([s \in slips |-> s.tds])]

---------------------------------------------------------------------------
(* The calendar: ensureFiscalYearFor *)

MissingUpTo(y) == (1 .. y) \ years
CalendarFree == \A u \in Requests : ~ job[u].holdsCalendar
CalendarReady(u) == job[u].at = "calendar" /\ CalendarFree
FoundMeanwhile(u) == job[u].year \in years

\* markCurrentYear, as the opening transaction sees the calendar.
CurrentAfter(u) == IF job[u].asOf \in years \union job[u].opening THEN job[u].asOf ELSE current

\* The lock is held to the end of the transaction, whatever the second look
\* finds; what is opened is seen when it commits.
LockCalendar(u) ==
    /\ CalendarReady(u)
    /\ IF FoundMeanwhile(u)
         THEN job' = [job EXCEPT ![u].at = "numbering", ![u].holdsCalendar = TRUE]
         ELSE IF job[u].year > job[u].asOf \/ job[u].year < 1
                THEN Done(u)
                ELSE job' = [job EXCEPT ![u].at = "numbering", ![u].holdsCalendar = TRUE,
                                        ![u].marks = TRUE, ![u].opening = MissingUpTo(job[u].year)]
    /\ UNCHANGED <<calendar, runs, owed, payments>>

NewYearBegins ==
    /\ today < LastYear
    /\ today' = today + 1
    /\ UNCHANGED <<years, current, runs, owed, payments, job>>

---------------------------------------------------------------------------
(* createPayrollRun *)

HasRoom == Len(runs) + Cardinality({u \in Requests : job[u].op = "RUN"}) < MaxRuns
LiveRuns(m) == {i \in RunIds : Live(i) /\ runs[i].month = m}

CreatePayrollRun(u, m, y, tds) ==
    LET slips == Payslips(m, tds) IN
    /\ Idle(u) /\ HasRoom
    /\ LiveRuns(m) = {}
    /\ SumFunction([s \in slips |-> s.gross]) # 0
    /\ \A s \in slips : s.net >= 0
    /\ job' = [job EXCEPT ![u] = [NoJob EXCEPT !.op = "RUN", !.month = m, !.year = y, !.slips = slips,
                                               !.asOf = today,
                                               !.at = IF y \in years THEN "numbering" ELSE "calendar"]]
    /\ UNCHANGED <<calendar, runs, owed, payments>>

\* The PAYROLL row of the pay date's year is locked to the commit.
SeriesFree(y) == \A v \in Requests : job[v].year = y => job[v].at \notin {"inserting", "posting"}
ReferenceReady(u) == job[u].at = "numbering" /\ SeriesFree(job[u].year)
AllocateReference(u) ==
    /\ ReferenceReady(u)
    /\ job' = [job EXCEPT ![u].at = "inserting"]
    /\ UNCHANGED <<calendar, runs, owed, payments>>

\* payroll_one_live_run_per_period: a second live row is refused, and an insert
\* waits for one another transaction has made and not committed.
Inserting(m) == {v \in Requests : job[v].at = "posting" /\ job[v].month = m}
InsertAllowed(u) == LiveRuns(job[u].month) = {} /\ Inserting(job[u].month) = {}

InsertReady(u) == job[u].at = "inserting" /\ InsertAllowed(u)
InsertRun(u) ==
    /\ InsertReady(u)
    /\ job' = [job EXCEPT ![u].at = "posting"]
    /\ UNCHANGED <<calendar, runs, owed, payments>>

PostRun(u) ==
    LET put == CreditLines(job[u].slips) IN
    /\ job[u].at = "posting"
    /\ runs' = Append(runs, [month |-> job[u].month, year |-> job[u].year, status |-> "APPROVED",
                             slips |-> job[u].slips, put |-> put])
    /\ owed' = [l \in Liabilities |-> owed[l] + put[l]]
    /\ years' = years \union job[u].opening
    /\ current' = IF job[u].marks THEN CurrentAfter(u) ELSE current
    /\ Done(u)
    /\ UNCHANGED <<today, payments>>

---------------------------------------------------------------------------
(* voidPayroll *)

\* Each account still holds what this run put on it.
StillOwed(i) == \A l \in Liabilities : runs[i].put[l] > 0 => owed[l] >= runs[i].put[l]

VoidPayroll(u, i) ==
    /\ Idle(u)
    /\ Live(i) /\ StillOwed(i)
    /\ job' = [job EXCEPT ![u] = [NoJob EXCEPT !.op = "VOID", !.at = "reversing", !.run = i]]
    /\ UNCHANGED <<calendar, runs, owed, payments>>

\* reversePostedEntry: reversesId is unique, so the entry is reversed once.
NotReversed(i) == Live(i)
ReversalReady(u) == job[u].at = "reversing" /\ NotReversed(job[u].run)
ReverseRun(u) ==
    LET i == job[u].run IN
    /\ ReversalReady(u)
    /\ owed' = [l \in Liabilities |-> owed[l] - runs[i].put[l]]
    /\ runs' = [runs EXCEPT ![i].status = "CANCELLED"]
    /\ Done(u)
    /\ UNCHANGED <<calendar, payments>>

\* An error, a refused insert, a closed period or a lost connection.
RollBack(u) ==
    /\ ~ Idle(u) /\ Done(u)
    /\ UNCHANGED <<calendar, runs, owed, payments>>

---------------------------------------------------------------------------
(* createPayment on one of the five accounts: the amount is typed and bound  *)
(* by nothing on the account; here it is what some run put there.           *)

PayLiability(l, i) ==
    LET amount == runs[i].put[l] IN
    /\ Len(payments) < MaxPayments
    /\ amount > 0
    /\ payments' = Append(payments, [on |-> l, amount |-> amount])
    /\ owed' = [owed EXCEPT ![l] = @ - amount]
    /\ UNCHANGED <<calendar, runs, job>>

---------------------------------------------------------------------------
Init ==
    /\ today = 1 /\ years = {1} /\ current = 1
    /\ runs = << >> /\ payments = << >>
    /\ owed = [l \in Liabilities |-> 0]
    /\ job = [u \in Requests |-> NoJob]

RequestStep(u) == LockCalendar(u) \/ AllocateReference(u) \/ InsertRun(u) \/ PostRun(u) \/ ReverseRun(u)
RequestStart(u) ==
    \/ \E m \in Months, y \in 0 .. LastYear, tds \in Withholdings : CreatePayrollRun(u, m, y, tds)
    \/ \E i \in RunIds : VoidPayroll(u, i)

Next ==
    \/ \E u \in Requests : RequestStart(u) \/ RequestStep(u) \/ RollBack(u)
    \/ \E l \in Liabilities, i \in RunIds : PayLiability(l, i)
    \/ NewYearBegins

Spec == Init /\ [][Next]_vars

---------------------------------------------------------------------------
(* Properties *)

Slip == [employee : Employees, gross : Int, pf : Int, esi : Int, pt : Int, tds : Int,
         net : Int, employerPf : Int, employerEsi : Int]
Run == [month : Months, year : Years, status : {"APPROVED", "CANCELLED"}, slips : SUBSET Slip,
        put : [Liabilities -> Int]]
Payment == [on : Liabilities, amount : Nat]
Job == [op : {"NONE", "RUN", "VOID"},
        at : {"idle", "calendar", "numbering", "inserting", "posting", "reversing"},
        month : Months \union {None}, year : Years \union {None}, slips : SUBSET Slip,
        asOf : Years \union {None}, holdsCalendar : BOOLEAN, marks : BOOLEAN,
        opening : SUBSET Years, run : Nat]

TypeOK ==
    /\ {today, current} \subseteq Years /\ years \subseteq Years
    /\ runs \in Seq(Run) /\ \A i \in RunIds : runs[i].year \in years
    /\ owed \in [Liabilities -> Int] /\ payments \in Seq(Payment)
    /\ job \in [Requests -> Job]

\* A month is paid by one run that stands, whatever years its runs are paid in
\* (createPayrollRun, payroll_one_live_run_per_period).
OneLiveRun == \A i, j \in RunIds : Live(i) /\ Live(j) /\ runs[i].month = runs[j].month => i = j

\* Each authority is owed what the payslips that stand withheld for it and the
\* employer added, less what was remitted (createPayrollRun, voidPayroll).
SlipShare(l, s) == CASE l = "SALARY_PAYABLE" -> s.gross - (s.pf + s.esi + s.pt + s.tds)
                     [] l = "PF_PAYABLE"     -> s.pf + s.employerPf
                     [] l = "ESI_PAYABLE"    -> s.esi + s.employerEsi
                     [] l = "PROFESSIONAL_TAX_PAYABLE" -> s.pt
                     [] l = "TDS_PAYABLE"    -> s.tds
Standing(l, i) ==
    IF Live(i) THEN SumFunction([s \in runs[i].slips |-> SlipShare(l, s)]) ELSE 0
Remitted(l, k) == IF payments[k].on = l THEN payments[k].amount ELSE 0
DebtsAreThePayslips ==
    \A l \in Liabilities :
        owed[l] = SumFunction([i \in RunIds |-> Standing(l, i)])
                  - SumFunction([k \in 1 .. Len(payments) |-> Remitted(l, k)])

\* Nobody waits on somebody who waits on them: while a request runs, one can
\* move on or learn that the index refuses it (calendar, series, index).
Refused(u) == \/ job[u].at = "inserting" /\ LiveRuns(job[u].month) # {}
              \/ job[u].at = "reversing" /\ ~ NotReversed(job[u].run)
MovesOn(u) == \/ CalendarReady(u) \/ ReferenceReady(u) \/ InsertReady(u)
              \/ job[u].at = "posting" \/ ReversalReady(u)
SomebodyMoves == (\A u \in Requests : Idle(u)) \/ \E u \in Requests : Refused(u) \/ MovesOn(u)

\* A month's pay is booked once and owed to the right people, and no order of
\* the locks stops the requests that book it (createPayrollRun).
PayrollStands == TypeOK /\ OneLiveRun /\ DebtsAreThePayslips /\ SomebodyMoves

\* Cancelling never takes back a debt that is no longer there: a liability that
\* is not below nil is not put there by it (voidPayroll).  It fails: a payment
\* may commit between the balances voidPayroll reads and the reversal it posts.
CancelledNow == \E i \in RunIds : Live(i) /\ runs'[i].status = "CANCELLED"
TakesBackOnlyDebtsThere ==
    [][CancelledNow => \A l \in Liabilities : owed[l] >= 0 => owed'[l] >= 0]_vars

\* The calendar has no hole and no year that has not begun, whoever opens it
\* for which date; and the reports' year never goes back to one that ended,
\* though a request may have read the clock before it waited for another that
\* read it later (ensureFiscalYearFor, markCurrentYear).
CalendarStands ==
    /\ [](years = 1 .. Max(years) /\ Max(years) <= today /\ current \in years)
    /\ [][current' >= current /\ years \subseteq years']_vars
=============================================================================
