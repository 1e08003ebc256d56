--------------------------- MODULE Payroll_proofs ---------------------------
(***************************************************************************)
(* Proofs about Payroll, for any staff, any requests, any months and any   *)
(* bounds.  The inductive invariant IInv says of every request that what   *)
(* it has read is still what it relies on (JobStands), that one request at *)
(* a time opens years and one inserts the run of a month (Alone), and of   *)
(* every run that its entry is what its payslips add up to (RunsStand).    *)
(***************************************************************************)
EXTENDS Payroll, Sums, SequenceTheorems

---------------------------------------------------------------------------
(* The inductive invariant. *)

\* A payslip is made of integers, and pays what is left of gross.
SlipStands(s) == s \in Slip /\ s.net = s.gross - (s.pf + s.esi + s.pt + s.tds)
SlipsStand(slips) == IsFiniteSet(slips) /\ \A s \in slips : SlipStands(s)

RunsStand == \A i \in RunIds : /\ SlipsStand(runs[i].slips)
                               /\ runs[i].put = CreditLines(runs[i].slips)

\* A request opens years only while it holds the calendar: then it alone can
\* change them, and those it will open are still the ones that are missing.
OpeningStands(j) ==
    /\ j.holdsCalendar => j.at \in {"numbering", "inserting", "posting"}
    /\ j.marks => /\ j.holdsCalendar /\ j.year \notin years
                  /\ 1 <= j.year /\ j.year <= j.asOf
                  /\ j.opening = MissingUpTo(j.year)
    /\ ~ j.marks => j.opening = {}
    /\ j.asOf <= today
    /\ j.at \in {"numbering", "inserting", "posting"} => j.year \in years \union j.opening

\* A run about to be inserted is its month's first.
BookingStands(j) ==
    /\ SlipsStand(j.slips)
    /\ j.at \in {"calendar", "numbering", "inserting", "posting"} => j.month \in Months
    /\ j.at = "posting" => LiveRuns(j.month) = {}
    /\ j.at = "reversing" => j.run \in RunIds

JobStands(j) == OpeningStands(j) /\ BookingStands(j)
JobsStand == \A u \in Requests : JobStands(job[u])

Alone ==
    \A u, v \in Requests :
        \/ job[u].holdsCalendar /\ job[v].holdsCalendar
        \/ job[u].at = "posting" /\ job[v].at = "posting" /\ job[u].month = job[v].month
        => u = v

CalendarFull == \E n \in 1 .. today : years = 1 .. n /\ current \in years

BooksAgree == RunsStand /\ OneLiveRun /\ DebtsAreThePayslips
IInv == TypeOK /\ JobsStand /\ Alone /\ BooksAgree /\ CalendarFull

---------------------------------------------------------------------------
(* Records and the calendar. *)

LEMMA NoJobType == NoJob \in Job /\ NoJob.at = "idle"
  BY DEF NoJob, Job, None

LEMMA NoJobIs ==
    /\ NoJob.at = "idle" /\ NoJob.holdsCalendar = FALSE /\ NoJob.marks = FALSE
    /\ NoJob.opening = {} /\ NoJob.slips = {} /\ NoJob.asOf = 0
  BY DEF NoJob, None

LEMMA NoJobStands == TypeOK => JobStands(NoJob)
  <1> SUFFICES ASSUME TypeOK PROVE JobStands(NoJob)
    OBVIOUS
  <1>2. today \in Nat /\ IsFiniteSet({})
    BY FS_EmptySet, BoundsAssumption DEF TypeOK, Years
  <1> QED
    BY <1>2, NoJobIs DEF JobStands, OpeningStands, BookingStands, SlipsStand

LEMMA JobFields ==
    ASSUME NEW j \in Job
    PROVE  /\ j.at \in {"idle", "calendar", "numbering", "inserting", "posting", "reversing"}
           /\ j.month \in Months \union {None} /\ j.year \in Years \union {None}
           /\ j.slips \in SUBSET Slip /\ j.asOf \in Years \union {None}
           /\ j.holdsCalendar \in BOOLEAN /\ j.marks \in BOOLEAN
           /\ j.opening \in SUBSET Years /\ j.run \in Nat
           /\ j.year \in Int /\ j.asOf \in Int
  BY BoundsAssumption DEF Job, Years, None

LEMMA RunFields ==
    ASSUME TypeOK, NEW i \in RunIds
    PROVE  /\ runs[i] \in Run /\ i \in Nat /\ runs[i].put \in [Liabilities -> Int]
           /\ runs[i].status \in {"APPROVED", "CANCELLED"}
  <1>1. runs[i] \in Run /\ i \in Nat
    BY DEF TypeOK, RunIds
  <1> QED
    BY <1>1 DEF Run

LEMMA LesserIs == ASSUME NEW a \in Nat, NEW b \in Nat PROVE Min({a, b}) \in Nat
  <1>1. \E x \in {a, b} : \A y \in {a, b} : x <= y
    <2>1. CASE a <= b
      BY <2>1
    <2>2. CASE b <= a
      BY <2>2
    <2> QED
      BY <2>1, <2>2
  <1> QED
    BY <1>1 DEF Min

LEMMA MaxOfYears == ASSUME NEW n \in Nat \ {0} PROVE Max(1 .. n) = n
  <1>1. n \in 1 .. n /\ \A x \in 1 .. n : n >= x
    OBVIOUS
  <1>2. \A m \in 1 .. n : (\A x \in 1 .. n : m >= x) => m = n
    OBVIOUS
  <1> QED
    BY <1>1, <1>2 DEF Max

LEMMA CalendarIs ==
    CalendarFull => years = 1 .. Max(years) /\ Max(years) <= today /\ current \in years
  <1> SUFFICES ASSUME CalendarFull
               PROVE  years = 1 .. Max(years) /\ Max(years) <= today /\ current \in years
    OBVIOUS
  <1>1. PICK n \in 1 .. today : years = 1 .. n /\ current \in years
    BY DEF CalendarFull
  <1>2. Max(years) = n
    BY <1>1, MaxOfYears
  <1> QED
    BY <1>1, <1>2

---------------------------------------------------------------------------
(* What a run's entry credits is what its payslips add up to. *)

LEMMA ComputeStatutoryIs ==
    ASSUME NEW e \in Employees, NEW tds \in Nat
    PROVE  SlipStands(ComputeStatutory(e, tds))
  <1> DEFINE pay    == Staff[e]
             gross  == pay.basic + pay.allowances
             pfWage == IF ~ Policy.providentFund THEN 0 ELSE Min({pay.basic, PF_CEILING})
             inEsi  == Policy.insurance /\ gross <= ESI_LIMIT
             pf     == Nearest(pfWage, 12)
             esi    == IF inEsi THEN NextRupee(gross, 75) ELSE 0
             pt     == IF gross >= Policy.threshold THEN Policy.monthly ELSE 0
             emp    == IF inEsi THEN NextRupee(gross, 325) ELSE 0
  <1>1. pay.basic \in Nat /\ pay.allowances \in Nat
    BY StaffAssumption
  <1>2. Policy.monthly \in Nat
    BY StaffAssumption
  <1>3. Min({pay.basic, PF_CEILING}) \in Nat
    BY <1>1, LesserIs DEF PF_CEILING
  <1>4. pfWage \in Nat
    BY <1>3
  <1>5. gross \in Nat
    BY <1>1
  <1>6. pf \in Int
    <2> HIDE DEF pfWage
    <2> QED
      BY <1>4 DEF Nearest
  <1>7. esi \in Int /\ emp \in Int
    <2> HIDE DEF gross
    <2>1. NextRupee(gross, 75) \in Int /\ NextRupee(gross, 325) \in Int
      BY <1>5 DEF NextRupee
    <2> QED
      BY <2>1
  <1>8. pt \in Int
    BY <1>2
  <1>9. ComputeStatutory(e, tds) =
          [employee |-> e, gross |-> gross, pf |-> pf, esi |-> esi, pt |-> pt, tds |-> tds,
           net |-> gross - (pf + esi + pt + tds), employerPf |-> pf, employerEsi |-> emp]
    BY DEF ComputeStatutory
  <1> HIDE DEF gross, pf, esi, pt, emp
  <1> QED
    BY <1>5, <1>6, <1>7, <1>8, <1>9 DEF SlipStands, Slip

LEMMA PayslipsStand ==
    ASSUME NEW m, NEW tds \in Withholdings
    PROVE  SlipsStand(Payslips(m, tds)) /\ Payslips(m, tds) \in SUBSET Slip
  <1>1. IsFiniteSet(EmployedDuring(m))
    BY StaffAssumption, FS_Subset DEF EmployedDuring
  <1>2. IsFiniteSet(Payslips(m, tds))
    <2> DEFINE S == EmployedDuring(m)
               T == Payslips(m, tds)
               f == [e \in S |-> ComputeStatutory(e, tds[e])]
    <2>1. f \in Surjection(S, T)
      BY DEF Payslips, Surjection
    <2> HIDE DEF S, T, f
    <2> QED
      BY <1>1, <2>1, FS_Surjection DEF S, T
  <1>3. \A e \in Employees : tds[e] \in Nat
    BY StaffAssumption
  <1>4. \A s \in Payslips(m, tds) : SlipStands(s)
    BY <1>3, ComputeStatutoryIs DEF Payslips, EmployedDuring
  <1> QED
    BY <1>2, <1>4 DEF SlipsStand, SlipStands

\* The totals of the payslips, column by column, and together.
LEMMA CreditLinesAre ==
    ASSUME NEW slips, SlipsStand(slips)
    PROVE  /\ CreditLines(slips) \in [Liabilities -> Int]
           /\ \A l \in Liabilities :
                CreditLines(slips)[l] = SumFunction([s \in slips |-> SlipShare(l, s)])
  <1>1. IsFiniteSet(slips)
    BY DEF SlipsStand
  <1>2. ASSUME NEW s \in slips
        PROVE  /\ s.net \in Int /\ s.pf \in Int /\ s.employerPf \in Int /\ s.esi \in Int
               /\ s.employerEsi \in Int /\ s.pt \in Int /\ s.tds \in Int
               /\ s.net = s.gross - (s.pf + s.esi + s.pt + s.tds)
    BY DEF SlipsStand, SlipStands, Slip
  <1> DEFINE Column(l) == [s \in slips |-> SlipShare(l, s)]
  <1> SUFFICES ASSUME NEW l \in Liabilities
               PROVE  /\ CreditLines(slips)[l] = SumFunctionOnSet(Column(l), slips)
                      /\ CreditLines(slips)[l] \in Int
    BY DEF CreditLines, SumFunction
  <1>3. CASE l = "SALARY_PAYABLE"
    <2> DEFINE f == [s \in slips |-> s.net]
    <2>1. CreditLines(slips)[l] = SumFunctionOnSet(f, slips)
      BY <1>3 DEF CreditLines, SumFunction
    <2>2. \A s \in slips : f[s] \in Int /\ f[s] = Column(l)[s]
      BY <1>2, <1>3 DEF SlipShare
    <2> HIDE DEF f, Column
    <2> QED
      BY <1>1, <2>1, <2>2, SumInt, SumSame
  <1>4. CASE l = "PF_PAYABLE"
    <2> DEFINE f == [s \in slips |-> s.pf]
               g == [s \in slips |-> s.employerPf]
    <2>1. CreditLines(slips)[l] = SumFunctionOnSet(f, slips) + SumFunctionOnSet(g, slips)
      BY <1>4 DEF CreditLines, SumFunction
    <2>2. \A s \in slips : f[s] \in Int /\ g[s] \in Int /\ Column(l)[s] = f[s] + g[s]
      BY <1>2, <1>4 DEF SlipShare
    <2> HIDE DEF f, g, Column
    <2>3. SumFunctionOnSet(f, slips) \in Int /\ SumFunctionOnSet(g, slips) \in Int
      BY <1>1, <2>2, SumInt
    <2>4. SumFunctionOnSet(Column(l), slips) = SumFunctionOnSet(f, slips) + SumFunctionOnSet(g, slips)
      BY <1>1, <2>2, SumBoth
    <2> QED
      BY <2>1, <2>3, <2>4
  <1>5. CASE l = "ESI_PAYABLE"
    <2> DEFINE f == [s \in slips |-> s.esi]
               g == [s \in slips |-> s.employerEsi]
    <2>1. CreditLines(slips)[l] = SumFunctionOnSet(f, slips) + SumFunctionOnSet(g, slips)
      BY <1>5 DEF CreditLines, SumFunction
    <2>2. \A s \in slips : f[s] \in Int /\ g[s] \in Int /\ Column(l)[s] = f[s] + g[s]
      BY <1>2, <1>5 DEF SlipShare
    <2> HIDE DEF f, g, Column
    <2>3. SumFunctionOnSet(f, slips) \in Int /\ SumFunctionOnSet(g, slips) \in Int
      BY <1>1, <2>2, SumInt
    <2>4. SumFunctionOnSet(Column(l), slips) = SumFunctionOnSet(f, slips) + SumFunctionOnSet(g, slips)
      BY <1>1, <2>2, SumBoth
    <2> QED
      BY <2>1, <2>3, <2>4
  <1>6. CASE l = "PROFESSIONAL_TAX_PAYABLE"
    <2> DEFINE f == [s \in slips |-> s.pt]
    <2>1. CreditLines(slips)[l] = SumFunctionOnSet(f, slips)
      BY <1>6 DEF CreditLines, SumFunction
    <2>2. \A s \in slips : f[s] \in Int /\ f[s] = Column(l)[s]
      BY <1>2, <1>6 DEF SlipShare
    <2> HIDE DEF f, Column
    <2> QED
      BY <1>1, <2>1, <2>2, SumInt, SumSame
  <1>7. CASE l = "TDS_PAYABLE"
    <2> DEFINE f == [s \in slips |-> s.tds]
    <2>1. CreditLines(slips)[l] = SumFunctionOnSet(f, slips)
      BY <1>7 DEF CreditLines, SumFunction
    <2>2. \A s \in slips : f[s] \in Int /\ f[s] = Column(l)[s]
      BY <1>2, <1>7 DEF SlipShare
    <2> HIDE DEF f, Column
    <2> QED
      BY <1>1, <2>1, <2>2, SumInt, SumSame
  <1> QED
    BY <1>3, <1>4, <1>5, <1>6, <1>7 DEF Liabilities

---------------------------------------------------------------------------
(* Steps that leave the books and the calendar alone. *)

Still == UNCHANGED <<today, years, current, runs, owed, payments>>

LEMMA JobKept ==
    ASSUME NEW j, JobStands(j), UNCHANGED <<today, years, runs>>
    PROVE  JobStands(j)'
  BY DEF JobStands, OpeningStands, BookingStands, MissingUpTo, LiveRuns, RunIds, Live

LEMMA BooksKept ==
    ASSUME BooksAgree, UNCHANGED <<runs, owed, payments>>
    PROVE  BooksAgree'
  BY DEF BooksAgree, RunsStand, OneLiveRun, DebtsAreThePayslips, RunIds, Live, Standing, Remitted

\* One request goes on from what it was doing to j.
LEMMA RequestMoves ==
    ASSUME IInv, NEW u \in Requests, NEW j \in Job, JobStands(j), Still,
           job' = [job EXCEPT ![u] = j],
           j.holdsCalendar => CalendarFree \/ job[u].holdsCalendar,
           j.at = "posting" => Inserting(j.month) = {}
    PROVE  IInv'
  <1>1. TypeOK /\ job \in [Requests -> Job]
    BY DEF IInv, TypeOK
  <1>2. TypeOK'
    BY <1>1 DEF TypeOK, Still, RunIds
  <1>3. job'[u] = j /\ \A v \in Requests \ {u} : job'[v] = job[v]
    BY <1>1
  <1>4. JobsStand'
    <2> SUFFICES ASSUME NEW v \in Requests PROVE JobStands(job[v])'
      BY DEF JobsStand
    <2>1. PICK k : k = job'[v]
      OBVIOUS
    <2>2. JobStands(k)
      BY <1>3, <2>1 DEF IInv, JobsStand
    <2>3. JobStands(k)'
      BY <2>2, JobKept DEF Still
    <2> QED
      BY <2>1, <2>3
  <1>5. Alone'
    <2> SUFFICES ASSUME NEW v \in Requests, NEW w \in Requests,
                        \/ job'[v].holdsCalendar /\ job'[w].holdsCalendar
                        \/ /\ job'[v].at = "posting" /\ job'[w].at = "posting"
                           /\ job'[v].month = job'[w].month
                 PROVE  v = w
      BY DEF Alone
    <2>1. ASSUME v # u, w # u PROVE v = w
      BY <1>3, <2>1 DEF IInv, Alone
    <2>2. ASSUME NEW x \in Requests \ {u}
          PROVE  /\ ~ (j.holdsCalendar /\ job[x].holdsCalendar)
                 /\ ~ (j.at = "posting" /\ job[x].at = "posting" /\ j.month = job[x].month)
      BY DEF IInv, Alone, CalendarFree, Inserting
    <2> QED
      BY <1>3, <2>1, <2>2
  <1>6. BooksAgree'
    BY BooksKept DEF IInv, Still
  <1>7. CalendarFull'
    BY DEF IInv, CalendarFull, Still
  <1> QED
    BY <1>2, <1>4, <1>5, <1>6, <1>7 DEF IInv

LEMMA RollBackKeeps ==
    ASSUME IInv, NEW u \in Requests, Still, Done(u)
    PROVE  IInv'
  <1>1. NoJob \in Job /\ NoJob.at = "idle" /\ NoJob.holdsCalendar = FALSE /\ JobStands(NoJob)
    BY NoJobType, NoJobStands DEF IInv, NoJob
  <1> QED
    BY <1>1, RequestMoves DEF Done

\* A request that goes on to its next wait and is otherwise what it was.
LEMMA WaitIs ==
    ASSUME NEW j \in Job,
           NEW at \in {"calendar", "numbering", "inserting", "posting", "reversing"}
    PROVE  LET k == [j EXCEPT !.at = at] IN
           /\ k \in Job /\ k.at = at
           /\ k.month = j.month /\ k.year = j.year /\ k.slips = j.slips /\ k.asOf = j.asOf
           /\ k.holdsCalendar = j.holdsCalendar /\ k.marks = j.marks /\ k.opening = j.opening
           /\ k.run = j.run
  <1> DEFINE k == [j EXCEPT !.at = at]
  <1>1. k \in Job
    BY DEF Job
  <1>2. /\ k.at = at
        /\ k.month = j.month /\ k.year = j.year /\ k.slips = j.slips /\ k.asOf = j.asOf
        /\ k.holdsCalendar = j.holdsCalendar /\ k.marks = j.marks /\ k.opening = j.opening
        /\ k.run = j.run
    BY DEF Job
  <1> QED
    BY <1>1, <1>2

LEMMA AllocateReferenceKeeps ==
    ASSUME IInv, NEW u \in Requests, AllocateReference(u)
    PROVE  IInv'
  <1>1. PICK j \in Job : j = job[u]
    BY DEF IInv, TypeOK
  <1>2. PICK k : k = [j EXCEPT !.at = "inserting"]
    OBVIOUS
  <1>3. /\ k \in Job /\ k.at = "inserting"
        /\ k.month = j.month /\ k.year = j.year /\ k.slips = j.slips /\ k.asOf = j.asOf
        /\ k.holdsCalendar = j.holdsCalendar /\ k.marks = j.marks /\ k.opening = j.opening
    BY <1>2, WaitIs
  <1>4. Still /\ j.at = "numbering" /\ JobStands(j)
    BY <1>1 DEF AllocateReference, ReferenceReady, calendar, Still, IInv, JobsStand
  <1>5. job' = [job EXCEPT ![u] = k]
    BY <1>1, <1>2 DEF AllocateReference
  <1>6. JobStands(k)
    BY <1>3, <1>4 DEF JobStands, OpeningStands, BookingStands
  <1> QED
    BY <1>1, <1>3, <1>4, <1>5, <1>6, RequestMoves

LEMMA InsertRunKeeps ==
    ASSUME IInv, NEW u \in Requests, InsertRun(u)
    PROVE  IInv'
  <1>1. PICK j \in Job : j = job[u]
    BY DEF IInv, TypeOK
  <1>2. PICK k : k = [j EXCEPT !.at = "posting"]
    OBVIOUS
  <1>3. /\ k \in Job /\ k.at = "posting"
        /\ k.month = j.month /\ k.year = j.year /\ k.slips = j.slips /\ k.asOf = j.asOf
        /\ k.holdsCalendar = j.holdsCalendar /\ k.marks = j.marks /\ k.opening = j.opening
    BY <1>2, WaitIs
  <1>4. Still /\ j.at = "inserting" /\ JobStands(j)
        /\ LiveRuns(j.month) = {} /\ Inserting(j.month) = {}
    BY <1>1 DEF InsertRun, InsertReady, InsertAllowed, calendar, Still, IInv, JobsStand
  <1>5. job' = [job EXCEPT ![u] = k]
    BY <1>1, <1>2 DEF InsertRun
  <1>6. JobStands(k)
    BY <1>3, <1>4 DEF JobStands, OpeningStands, BookingStands
  <1> QED
    BY <1>1, <1>3, <1>4, <1>5, <1>6, RequestMoves

LEMMA LockCalendarKeeps ==
    ASSUME IInv, NEW u \in Requests, LockCalendar(u)
    PROVE  IInv'
  <1>1. PICK j \in Job : j = job[u]
    BY DEF IInv, TypeOK
  <1>2. Still /\ j.at = "calendar" /\ JobStands(j) /\ CalendarFree
    BY <1>1 DEF LockCalendar, CalendarReady, calendar, Still, IInv, JobsStand
  <1>3. j.holdsCalendar = FALSE /\ j.marks = FALSE /\ j.opening = {}
    BY <1>1, <1>2, JobFields DEF CalendarFree, JobStands, OpeningStands
  <1>4. CASE FoundMeanwhile(u)
    <2> DEFINE k == [j EXCEPT !.at = "numbering", !.holdsCalendar = TRUE]
    <2>1. k \in Job
      BY DEF Job
    <2>2. /\ k.at = "numbering" /\ k.holdsCalendar = TRUE /\ k.marks = j.marks
          /\ k.month = j.month /\ k.year = j.year /\ k.slips = j.slips /\ k.asOf = j.asOf
          /\ k.opening = j.opening
      BY DEF Job
    <2>3. job' = [job EXCEPT ![u] = k]
      BY <1>1, <1>4 DEF LockCalendar
    <2>4. j.year \in years
      BY <1>1, <1>4 DEF FoundMeanwhile
    <2> HIDE DEF k
    <2>5. JobStands(k)
      BY <1>2, <1>3, <2>2, <2>4 DEF JobStands, OpeningStands, BookingStands
    <2> QED
      BY <1>2, <2>1, <2>2, <2>3, <2>5, RequestMoves
  <1>5. CASE ~ FoundMeanwhile(u) /\ (job[u].year > job[u].asOf \/ job[u].year < 1)
    <2>1. Done(u)
      BY <1>5 DEF LockCalendar
    <2> QED
      BY <1>2, <2>1, RollBackKeeps
  <1>6. CASE ~ FoundMeanwhile(u) /\ ~ (job[u].year > job[u].asOf \/ job[u].year < 1)
    <2> DEFINE o == MissingUpTo(j.year)
               k == [j EXCEPT !.at = "numbering", !.holdsCalendar = TRUE, !.marks = TRUE,
                              !.opening = o]
    <2>1. j.year \in Int /\ j.asOf \in Int /\ j.year <= j.asOf /\ 1 <= j.year /\ j.year \notin years
      BY <1>1, <1>6, JobFields DEF FoundMeanwhile
    <2>2. o \in SUBSET Years
      BY <2>1, JobFields, BoundsAssumption DEF MissingUpTo, Years, None
    <2>3. job' = [job EXCEPT ![u] = k]
      BY <1>1, <1>6 DEF LockCalendar
    <2>4. j.year \in years \union o
      BY <2>1 DEF MissingUpTo
    <2> HIDE DEF o
    <2>5. k \in Job
      BY <2>2 DEF Job
    <2>6. /\ k.at = "numbering" /\ k.holdsCalendar = TRUE /\ k.marks = TRUE /\ k.opening = o
          /\ k.month = j.month /\ k.year = j.year /\ k.slips = j.slips /\ k.asOf = j.asOf
      BY DEF Job
    <2> HIDE DEF k
    <2>7. JobStands(k)
      BY <1>2, <2>1, <2>4, <2>6 DEF JobStands, OpeningStands, BookingStands, o
    <2> QED
      BY <1>2, <2>3, <2>5, <2>6, <2>7, RequestMoves
  <1> QED
    BY <1>4, <1>5, <1>6

LEMMA CreatePayrollRunKeeps ==
    ASSUME IInv, NEW u \in Requests, NEW m \in Months, NEW y \in 0 .. LastYear,
           NEW tds \in Withholdings, CreatePayrollRun(u, m, y, tds)
    PROVE  IInv'
  <1>1. PICK at : at = IF y \in years THEN "numbering" ELSE "calendar"
    OBVIOUS
  <1>2. PICK slips : slips = Payslips(m, tds)
    OBVIOUS
  <1>3. PICK now : now = today
    OBVIOUS
  <1> DEFINE k == [NoJob EXCEPT !.op = "RUN", !.month = m, !.year = y, !.slips = slips,
                                !.asOf = now, !.at = at]
  <1>4. job' = [job EXCEPT ![u] = k]
    BY <1>1, <1>2, <1>3 DEF CreatePayrollRun
  <1>5. SlipsStand(slips) /\ slips \in SUBSET Slip
    BY <1>2, PayslipsStand
  <1>6. y \in Years \union {None} /\ now \in Years /\ now \in Int
    BY <1>3, BoundsAssumption DEF Years, None, IInv, TypeOK
  <1>8. at \in {"numbering", "calendar"} /\ (at = "numbering" => y \in years)
    BY <1>1
  <1>7. /\ k.at = at /\ k.holdsCalendar = FALSE /\ k.marks = FALSE /\ k.opening = {}
        /\ k.asOf = now /\ k.year = y /\ k.month = m /\ k.slips = slips
    BY NoJobType, NoJobIs DEF Job
  <1>9. k \in Job
    <2>1. [NoJob EXCEPT !.op = "RUN", !.month = m, !.year = y] \in Job
      BY <1>6, NoJobType DEF Job
    <2> QED
      BY <1>5, <1>6, <1>8, <2>1 DEF Job
  <1> HIDE DEF k
  <1>10. JobStands(k)
    <2>1. OpeningStands(k)
      BY <1>3, <1>6, <1>7, <1>8 DEF OpeningStands
    <2>2. BookingStands(k)
      BY <1>5, <1>7, <1>8 DEF BookingStands
    <2> QED
      BY <2>1, <2>2 DEF JobStands
  <1>11. Still
    BY DEF CreatePayrollRun, calendar, Still
  <1>12. k.holdsCalendar = FALSE /\ k.at # "posting"
    BY <1>7, <1>8
  <1> QED
    BY <1>4, <1>9, <1>10, <1>11, <1>12, RequestMoves

LEMMA VoidPayrollKeeps ==
    ASSUME IInv, NEW u \in Requests, NEW i \in RunIds, VoidPayroll(u, i)
    PROVE  IInv'
  <1> DEFINE k == [NoJob EXCEPT !.op = "VOID", !.at = "reversing", !.run = i]
  <1>2. job' = [job EXCEPT ![u] = k]
    BY DEF VoidPayroll
  <1>4. i \in Nat /\ today \in Nat /\ IsFiniteSet({})
    BY FS_EmptySet, BoundsAssumption DEF IInv, TypeOK, RunIds, Years
  <1>3. /\ k.at = "reversing" /\ k.holdsCalendar = FALSE /\ k.marks = FALSE /\ k.opening = {}
        /\ k.asOf = 0 /\ k.slips = {} /\ k.run = i
    BY NoJobType, NoJobIs DEF Job
  <1>5. k \in Job
    BY <1>4, NoJobType DEF Job
  <1> HIDE DEF k
  <1>7. OpeningStands(k)
    BY <1>3, <1>4 DEF OpeningStands
  <1>8. BookingStands(k)
    BY <1>3, <1>4 DEF BookingStands, SlipsStand
  <1>9. Still
    BY DEF VoidPayroll, calendar, Still
  <1>10. k.holdsCalendar = FALSE /\ k.at # "posting"
    BY <1>3
  <1> QED
    BY <1>2, <1>5, <1>7, <1>8, <1>9, <1>10, RequestMoves DEF JobStands

---------------------------------------------------------------------------
(* The sums the debts are compared with. *)

StandingTotal(l) == SumFunction([i \in RunIds |-> Standing(l, i)])
RemittedTotal(l) == SumFunction([k \in 1 .. Len(payments) |-> Remitted(l, k)])

LEMMA TotalsAre ==
    ASSUME TypeOK, RunsStand, NEW l \in Liabilities
    PROVE  /\ IsFiniteSet(RunIds) /\ Len(runs) \in Nat /\ \A i \in RunIds : Standing(l, i) \in Int
           /\ IsFiniteSet(1 .. Len(payments)) /\ Len(payments) \in Nat
           /\ \A k \in 1 .. Len(payments) : Remitted(l, k) \in Int
           /\ StandingTotal(l) \in Int /\ RemittedTotal(l) \in Int
  <1>1. /\ Len(runs) \in Nat /\ Len(payments) \in Nat
        /\ IsFiniteSet(RunIds) /\ IsFiniteSet(1 .. Len(payments))
    BY FS_Interval DEF TypeOK, RunIds
  <1>2. ASSUME NEW i \in RunIds PROVE Standing(l, i) \in Int
    <2>1. /\ CreditLines(runs[i].slips) \in [Liabilities -> Int]
          /\ CreditLines(runs[i].slips)[l] = SumFunction([s \in runs[i].slips |-> SlipShare(l, s)])
      BY CreditLinesAre DEF RunsStand
    <2> QED
      BY <2>1 DEF Standing
  <1>3. ASSUME NEW k \in 1 .. Len(payments) PROVE Remitted(l, k) \in Int
    <2>1. payments[k] \in Payment
      BY DEF TypeOK
    <2> QED
      BY <2>1 DEF Remitted, Payment
  <1> DEFINE f == [i \in RunIds |-> Standing(l, i)]
             g == [k \in 1 .. Len(payments) |-> Remitted(l, k)]
  <1>4. /\ StandingTotal(l) = SumFunctionOnSet(f, RunIds)
        /\ RemittedTotal(l) = SumFunctionOnSet(g, 1 .. Len(payments))
    BY DEF StandingTotal, RemittedTotal, SumFunction
  <1>5. /\ \A i \in RunIds : f[i] \in Int
        /\ \A k \in 1 .. Len(payments) : g[k] \in Int
    BY <1>2, <1>3
  <1> HIDE DEF f, g
  <1>6. StandingTotal(l) \in Int
    BY <1>1, <1>4, <1>5, SumInt
  <1>7. RemittedTotal(l) \in Int
    BY <1>1, <1>4, <1>5, SumInt
  <1> QED
    BY <1>1, <1>2, <1>3, <1>6, <1>7

LEMMA StandingGrows ==
    ASSUME TypeOK, RunsStand, NEW l \in Liabilities, NEW n, n \notin RunIds,
           RunIds' = RunIds \union {n}, NEW d \in Int, Standing(l, n)' = d,
           \A i \in RunIds : runs'[i] = runs[i]
    PROVE  StandingTotal(l)' = StandingTotal(l) + d
  <1> DEFINE f == [i \in RunIds |-> Standing(l, i)]
             g == [i \in RunIds \union {n} |-> Standing(l, i)']
  <1>1. \A i \in RunIds : f[i] \in Int
    BY TotalsAre
  <1>2. ASSUME NEW i \in RunIds PROVE g[i] = f[i]
    BY DEF Standing, Live
  <1>3. g[n] = d
    OBVIOUS
  <1>4. /\ StandingTotal(l) = SumFunctionOnSet(f, RunIds)
        /\ StandingTotal(l)' = SumFunctionOnSet(g, RunIds \union {n})
    BY DEF StandingTotal, SumFunction
  <1>5. IsFiniteSet(RunIds)
    BY TotalsAre
  <1> HIDE DEF f, g
  <1>6. SumFunctionOnSet(g, RunIds \union {n}) = SumFunctionOnSet(f, RunIds) + g[n]
    BY <1>1, <1>2, <1>3, <1>5, SumGrows
  <1> QED
    BY <1>3, <1>4, <1>6

LEMMA StandingDrops ==
    ASSUME TypeOK, RunsStand, NEW l \in Liabilities, NEW k \in RunIds,
           RunIds' = RunIds, Standing(l, k)' = 0,
           \A i \in RunIds \ {k} : runs'[i] = runs[i]
    PROVE  StandingTotal(l)' = StandingTotal(l) - Standing(l, k)
  <1> DEFINE f == [i \in RunIds |-> Standing(l, i)]
             g == [i \in RunIds |-> Standing(l, i)']
  <1>1. \A i \in RunIds : f[i] \in Int
    BY TotalsAre
  <1>2. ASSUME NEW i \in RunIds \ {k} PROVE g[i] = f[i]
    BY DEF Standing, Live
  <1>3. g[k] = 0 /\ f[k] = Standing(l, k) /\ Standing(l, k) \in Int /\ StandingTotal(l) \in Int
    BY TotalsAre
  <1>4. /\ StandingTotal(l) = SumFunctionOnSet(f, RunIds)
        /\ StandingTotal(l)' = SumFunctionOnSet(g, RunIds)
    BY DEF StandingTotal, SumFunction
  <1>5. IsFiniteSet(RunIds)
    BY TotalsAre
  <1> HIDE DEF f, g
  <1>6. SumFunctionOnSet(g, RunIds) = SumFunctionOnSet(f, RunIds) - f[k] + g[k]
    BY <1>1, <1>2, <1>3, <1>5, SumChanges
  <1> QED
    BY <1>3, <1>4, <1>6

LEMMA StandingStays ==
    ASSUME UNCHANGED runs, NEW l \in Liabilities
    PROVE  StandingTotal(l)' = StandingTotal(l)
  BY DEF StandingTotal, Standing, Live, RunIds

LEMMA RemittedStays ==
    ASSUME UNCHANGED payments, NEW l \in Liabilities
    PROVE  RemittedTotal(l)' = RemittedTotal(l)
  BY DEF RemittedTotal, Remitted

LEMMA RemittedGrows ==
    ASSUME TypeOK, RunsStand, NEW l \in Liabilities, NEW n, n = Len(payments) + 1,
           Len(payments') = n, NEW d \in Int, Remitted(l, n)' = d,
           \A k \in 1 .. Len(payments) : payments'[k] = payments[k]
    PROVE  RemittedTotal(l)' = RemittedTotal(l) + d
  <1> DEFINE S == 1 .. Len(payments)
             f == [k \in S |-> Remitted(l, k)]
             g == [k \in S \union {n} |-> Remitted(l, k)']
  <1>1. /\ Len(payments) \in Nat /\ IsFiniteSet(S) /\ n \notin S
        /\ 1 .. Len(payments') = S \union {n}
    BY TotalsAre
  <1>2. \A k \in S : f[k] \in Int
    BY TotalsAre
  <1>3. ASSUME NEW k \in S PROVE g[k] = f[k]
    BY DEF Remitted
  <1>4. g[n] = d
    OBVIOUS
  <1>5. RemittedTotal(l) = SumFunctionOnSet(f, S)
    BY DEF RemittedTotal, SumFunction
  <1>6. RemittedTotal(l)' = SumFunctionOnSet(g, S \union {n})
    BY <1>1 DEF RemittedTotal, SumFunction
  <1> HIDE DEF f, g, S
  <1>7. SumFunctionOnSet(g, S \union {n}) = SumFunctionOnSet(f, S) + g[n]
    BY <1>1, <1>2, <1>3, <1>4, SumGrows
  <1> QED
    BY <1>4, <1>5, <1>6, <1>7

LEMMA DebtsAre ==
    DebtsAreThePayslips <=> \A l \in Liabilities : owed[l] = StandingTotal(l) - RemittedTotal(l)
  BY DEF DebtsAreThePayslips, StandingTotal, RemittedTotal

---------------------------------------------------------------------------
(* The clock, and payments on the five accounts. *)

LEMMA NewYearKeeps ==
    ASSUME IInv, NewYearBegins
    PROVE  IInv'
  <1>1. /\ today \in Nat /\ today' = today + 1 /\ today' \in Years
        /\ UNCHANGED <<years, current, runs, owed, payments, job>>
    BY BoundsAssumption DEF NewYearBegins, IInv, TypeOK, Years
  <1>2. TypeOK'
    BY <1>1 DEF IInv, TypeOK, RunIds
  <1>3. ASSUME NEW v \in Requests PROVE JobStands(job[v])'
    <2>1. PICK k \in Job : k = job[v]
      BY DEF IInv, TypeOK
    <2>2. JobStands(k) /\ k.asOf \in Int
      BY <2>1, JobFields DEF IInv, JobsStand
    <2>3. OpeningStands(k)'
      BY <1>1, <2>2 DEF JobStands, OpeningStands, MissingUpTo
    <2>4. BookingStands(k)'
      BY <1>1, <2>2 DEF JobStands, BookingStands, LiveRuns, RunIds, Live
    <2> QED
      BY <1>1, <2>1, <2>3, <2>4 DEF JobStands
  <1>4. JobsStand' /\ Alone'
    BY <1>1, <1>3 DEF JobsStand, IInv, Alone
  <1>5. BooksAgree'
    BY <1>1, BooksKept DEF IInv
  <1>6. CalendarFull'
    BY <1>1 DEF IInv, CalendarFull
  <1> QED
    BY <1>2, <1>4, <1>5, <1>6 DEF IInv

LEMMA PayLiabilityKeeps ==
    ASSUME IInv, NEW l \in Liabilities, NEW i \in RunIds, PayLiability(l, i)
    PROVE  IInv'
  <1>1. PICK d : d = runs[i].put[l]
    OBVIOUS
  <1>2. PICK paid : paid = [on |-> l, amount |-> d]
    OBVIOUS
  <1>3. /\ d > 0 /\ payments' = Append(payments, paid)
        /\ owed' = [owed EXCEPT ![l] = @ - d]
        /\ UNCHANGED <<today, years, current, runs, job>>
    BY <1>1, <1>2 DEF PayLiability, calendar
  <1>4. TypeOK /\ RunsStand /\ DebtsAreThePayslips
    BY DEF IInv, BooksAgree
  <1>5. d \in Nat
    <2>1. runs[i].put \in [Liabilities -> Int]
      BY RunFields DEF IInv
    <2> QED
      BY <1>1, <1>3, <2>1
  <1>6. paid \in Payment /\ paid.on = l /\ paid.amount = d
    BY <1>2, <1>5 DEF Payment
  <1>7. PICK n : n = Len(payments) + 1
    OBVIOUS
  <1>8. /\ payments' \in Seq(Payment) /\ Len(payments') = n /\ payments'[n] = paid
        /\ \A k \in 1 .. Len(payments) : payments'[k] = payments[k]
    BY <1>3, <1>4, <1>6, <1>7, AppendProperties DEF TypeOK
  <1>9. TypeOK'
    <2>1. owed' \in [Liabilities -> Int]
      BY <1>3, <1>4, <1>5 DEF TypeOK
    <2> QED
      BY <1>3, <1>4, <1>8, <2>1 DEF TypeOK, RunIds
  <1>10. ASSUME NEW a \in Liabilities PROVE owed'[a] = StandingTotal(a)' - RemittedTotal(a)'
    <2>1. /\ owed[a] = StandingTotal(a) - RemittedTotal(a) /\ owed[a] \in Int
          /\ StandingTotal(a) \in Int /\ RemittedTotal(a) \in Int
      BY <1>4, DebtsAre, TotalsAre DEF TypeOK
    <2>2. StandingTotal(a)' = StandingTotal(a)
      BY <1>3, StandingStays
    <2>3. CASE a = l
      <3>1. Remitted(a, n)' = d
        BY <1>6, <1>8, <2>3 DEF Remitted
      <3>2. RemittedTotal(a)' = RemittedTotal(a) + d
        BY <1>4, <1>5, <1>7, <1>8, <3>1, RemittedGrows
      <3>3. owed'[a] = owed[a] - d
        BY <1>3, <1>4, <2>3 DEF TypeOK
      <3> QED
        BY <1>5, <2>1, <2>2, <3>2, <3>3
    <2>4. CASE a # l
      <3>1. Remitted(a, n)' = 0
        BY <1>6, <1>8, <2>4 DEF Remitted
      <3>2. RemittedTotal(a)' = RemittedTotal(a) + 0
        BY <1>4, <1>7, <1>8, <3>1, RemittedGrows
      <3>3. owed'[a] = owed[a]
        BY <1>3, <1>4, <2>4 DEF TypeOK
      <3> QED
        BY <2>1, <2>2, <3>2, <3>3
    <2> QED
      BY <2>3, <2>4
  <1>11. DebtsAreThePayslips'
    BY <1>10 DEF DebtsAreThePayslips, StandingTotal, RemittedTotal
  <1>12. RunsStand' /\ OneLiveRun'
    BY <1>3 DEF IInv, BooksAgree, RunsStand, OneLiveRun, RunIds, Live
  <1>13. ASSUME NEW v \in Requests PROVE JobStands(job[v])'
    <2>1. PICK k : k = job[v]
      OBVIOUS
    <2>2. JobStands(k)'
      BY <1>3, <2>1, JobKept DEF IInv, JobsStand
    <2> QED
      BY <1>3, <2>1, <2>2
  <1>14. JobsStand' /\ Alone' /\ CalendarFull'
    BY <1>3, <1>13 DEF JobsStand, IInv, Alone, CalendarFull
  <1> QED
    BY <1>9, <1>11, <1>12, <1>14 DEF IInv, BooksAgree

---------------------------------------------------------------------------
(* voidPayroll takes a run back. *)

LEMMA ReverseRunKeeps ==
    ASSUME IInv, NEW u \in Requests, ReverseRun(u)
    PROVE  /\ IInv' /\ UNCHANGED <<years, current>>
           /\ \E i \in RunIds : /\ \A k \in RunIds \ {i} : runs'[k] = runs[k]
                                /\ owed' = [l \in Liabilities |-> owed[l] - runs[i].put[l]]
  <1>1. PICK i : i = job[u].run
    OBVIOUS
  <1>2. TypeOK /\ RunsStand /\ DebtsAreThePayslips /\ OneLiveRun /\ JobStands(job[u])
    BY DEF IInv, BooksAgree, JobsStand
  <1>3. /\ i \in RunIds /\ Live(i)
        /\ owed' = [l \in Liabilities |-> owed[l] - runs[i].put[l]]
        /\ runs' = [runs EXCEPT ![i].status = "CANCELLED"]
        /\ Done(u)
        /\ UNCHANGED <<today, years, current, payments>>
    BY <1>1, <1>2 DEF ReverseRun, ReversalReady, NotReversed, JobStands, BookingStands, calendar
  <1>4. PICK row : row = [runs[i] EXCEPT !.status = "CANCELLED"]
    OBVIOUS
  <1>5. /\ row \in Run /\ row.status = "CANCELLED" /\ row.month = runs[i].month
        /\ row.year = runs[i].year /\ row.slips = runs[i].slips /\ row.put = runs[i].put
    BY <1>2, <1>3, <1>4, RunFields DEF Run
  <1>6. /\ runs' \in Seq(Run) /\ RunIds' = RunIds /\ runs'[i] = row
        /\ \A k \in RunIds \ {i} : runs'[k] = runs[k]
    <2>1. runs' = [runs EXCEPT ![i] = row]
      BY <1>3, <1>4
    <2>2. /\ runs' \in Seq(Run) /\ Len(runs') = Len(runs) /\ runs'[i] = row
          /\ \A k \in 1 .. Len(runs) : k # i => runs'[k] = runs[k]
      <3>1. runs \in Seq(Run) /\ i \in 1 .. Len(runs) /\ row \in Run
        BY <1>2, <1>3, <1>5 DEF TypeOK, RunIds
      <3>2. /\ [runs EXCEPT ![i] = row] \in Seq(Run)
            /\ Len([runs EXCEPT ![i] = row]) = Len(runs)
            /\ \A k \in 1 .. Len(runs) :
                  [runs EXCEPT ![i] = row][k] = IF k = i THEN row ELSE runs[k]
        BY <3>1, ExceptSeq
      <3> QED
        BY <2>1, <3>1, <3>2
    <2> QED
      BY <2>2 DEF RunIds
  <1>7. ASSUME NEW k \in RunIds
        PROVE  /\ runs'[k].month = runs[k].month /\ runs'[k].year = runs[k].year
               /\ runs'[k].slips = runs[k].slips /\ runs'[k].put = runs[k].put
               /\ runs'[k].status = "APPROVED" => Live(k) /\ k # i
    BY <1>5, <1>6 DEF Live
  <1>8. owed' \in [Liabilities -> Int]
    BY <1>2, <1>3, RunFields DEF TypeOK
  <1>9. job' = [job EXCEPT ![u] = NoJob] /\ job' \in [Requests -> Job]
    BY <1>2, <1>3, NoJobType DEF Done, TypeOK
  <1>10. TypeOK'
    BY <1>2, <1>3, <1>6, <1>7, <1>8, <1>9 DEF TypeOK
  <1>11. RunsStand'
    BY <1>2, <1>6, <1>7 DEF RunsStand
  <1>12. OneLiveRun'
    BY <1>2, <1>6, <1>7 DEF OneLiveRun, Live
  <1>13. ASSUME NEW l \in Liabilities PROVE owed'[l] = StandingTotal(l)' - RemittedTotal(l)'
    <2>1. /\ owed[l] = StandingTotal(l) - RemittedTotal(l)
          /\ StandingTotal(l) \in Int /\ RemittedTotal(l) \in Int
      BY <1>2, DebtsAre, TotalsAre
    <2>2. RemittedTotal(l)' = RemittedTotal(l)
      BY <1>3, RemittedStays
    <2>3. Standing(l, i)' = 0
      BY <1>5, <1>6 DEF Standing, Live
    <2>4. StandingTotal(l)' = StandingTotal(l) - Standing(l, i)
      BY <1>2, <1>3, <1>6, <2>3, StandingDrops
    <2>5. Standing(l, i) = runs[i].put[l] /\ Standing(l, i) \in Int
      BY <1>2, <1>3, CreditLinesAre, TotalsAre DEF RunsStand, Standing
    <2>6. owed'[l] = owed[l] - runs[i].put[l]
      BY <1>3
    <2> QED
      BY <2>1, <2>2, <2>4, <2>5, <2>6
  <1>14. DebtsAreThePayslips'
    BY <1>13 DEF DebtsAreThePayslips, StandingTotal, RemittedTotal
  <1>15. ASSUME NEW v \in Requests PROVE JobStands(job[v])'
    <2>1. PICK k : k = job'[v]
      OBVIOUS
    <2>2. JobStands(k)
      BY <1>2, <1>9, <2>1, NoJobStands DEF IInv, JobsStand, TypeOK
    <2>3. OpeningStands(k)'
      BY <1>3, <2>2 DEF JobStands, OpeningStands, MissingUpTo
    <2>4. k.at = "posting" => LiveRuns(k.month)' = {}
      BY <1>6, <1>7, <2>2 DEF JobStands, BookingStands, LiveRuns, Live
    <2>5. BookingStands(k)'
      BY <1>6, <1>7, <2>2, <2>4 DEF JobStands, BookingStands
    <2> QED
      BY <2>1, <2>3, <2>5 DEF JobStands
  <1>16. Alone'
    BY <1>2, <1>9, NoJobIs DEF IInv, Alone, TypeOK
  <1>17. JobsStand' /\ CalendarFull'
    BY <1>3, <1>15 DEF JobsStand, IInv, CalendarFull
  <1> QED
    BY <1>3, <1>6, <1>10, <1>11, <1>12, <1>14, <1>16, <1>17 DEF IInv, BooksAgree

---------------------------------------------------------------------------
(* createPayrollRun commits. *)

LEMMA PostRunOpens ==
    ASSUME IInv, NEW u \in Requests, PostRun(u)
    PROVE  /\ CalendarFull' /\ years \subseteq years' /\ current' >= current
           /\ job[u].year \in years' /\ years' \subseteq Years /\ current' \in Years
           /\ ~ job[u].marks => years' = years
  <1>1. PICK j \in Job : j = job[u]
    BY DEF IInv, TypeOK
  <1>2. /\ JobStands(j) /\ j.at = "posting"
        /\ years' = years \union j.opening
        /\ current' = IF j.marks THEN (IF j.asOf \in years \union j.opening THEN j.asOf
                                       ELSE current) ELSE current
        /\ today' = today
    BY <1>1 DEF PostRun, CurrentAfter, IInv, JobsStand
  <1>3. PICK n \in 1 .. today : years = 1 .. n /\ current \in years
    BY DEF IInv, CalendarFull
  <1>4. today \in Nat /\ years \subseteq Years /\ current \in Years /\ n \in Nat \ {0}
    BY <1>3, BoundsAssumption DEF IInv, TypeOK, Years
  <1>5. j.opening \in SUBSET Years /\ j.year \in Int /\ j.asOf \in Int
    BY JobFields
  <1>6. j.year \in years' /\ years \subseteq years' /\ years' \subseteq Years
    BY <1>2, <1>4, <1>5 DEF JobStands, OpeningStands
  <1>7. CASE j.marks
    <2>1. /\ j.year > n /\ j.opening = (1 .. j.year) \ (1 .. n)
          /\ j.year <= j.asOf /\ j.asOf <= today
      BY <1>2, <1>3, <1>4, <1>5, <1>7 DEF JobStands, OpeningStands, MissingUpTo
    <2>2. years' = 1 .. j.year
      BY <1>2, <1>3, <1>4, <1>5, <2>1
    <2>3. current' \in years' /\ current' >= current /\ current' \in Years
      BY <1>2, <1>3, <1>4, <1>5, <1>6, <1>7, <2>1, <2>2
    <2>4. j.year \in 1 .. today'
      BY <1>2, <1>4, <1>5, <2>1
    <2> QED
      BY <1>1, <1>6, <1>7, <2>2, <2>3, <2>4 DEF CalendarFull
  <1>8. CASE ~ j.marks
    <2>1. years' = years /\ current' = current
      BY <1>2, <1>8 DEF JobStands, OpeningStands
    <2>2. current' >= current
      BY <1>4, <2>1, BoundsAssumption DEF Years
    <2> QED
      BY <1>1, <1>2, <1>3, <1>4, <1>6, <1>8, <2>1, <2>2 DEF CalendarFull
  <1> QED
    BY <1>7, <1>8

LEMMA PostRunKeeps ==
    ASSUME IInv, NEW u \in Requests, PostRun(u)
    PROVE  IInv'
  <1>1. PICK j \in Job : j = job[u]
    BY DEF IInv, TypeOK
  <1>2. TypeOK /\ RunsStand /\ DebtsAreThePayslips /\ OneLiveRun /\ JobStands(j)
    BY <1>1 DEF IInv, BooksAgree, JobsStand
  <1>3. PICK put : put = CreditLines(j.slips)
    OBVIOUS
  <1>4. PICK row : row = [month |-> j.month, year |-> j.year, status |-> "APPROVED",
                          slips |-> j.slips, put |-> put]
    OBVIOUS
  <1>5. /\ j.at = "posting" /\ runs' = Append(runs, row)
        /\ owed' = [l \in Liabilities |-> owed[l] + put[l]]
        /\ Done(u) /\ UNCHANGED <<today, payments>>
    BY <1>1, <1>3, <1>4 DEF PostRun
  <1>6. /\ CalendarFull' /\ years \subseteq years' /\ j.year \in years'
        /\ years' \subseteq Years /\ current' \in Years
        /\ ~ j.marks => years' = years
    BY <1>1, PostRunOpens
  <1>7. /\ SlipsStand(j.slips) /\ j.month \in Months /\ LiveRuns(j.month) = {}
        /\ j.slips \in SUBSET Slip
    BY <1>2, <1>5, JobFields DEF JobStands, BookingStands
  <1>8. /\ put \in [Liabilities -> Int]
        /\ \A l \in Liabilities : put[l] = SumFunction([s \in j.slips |-> SlipShare(l, s)])
    BY <1>3, <1>7, CreditLinesAre
  <1>9. /\ row \in Run /\ row.status = "APPROVED" /\ row.month = j.month /\ row.year = j.year
        /\ row.slips = j.slips /\ row.put = put
    BY <1>4, <1>6, <1>7, <1>8 DEF Run
  <1>10. PICK n : n = Len(runs) + 1
    OBVIOUS
  <1>11. /\ runs' \in Seq(Run) /\ RunIds' = RunIds \union {n} /\ n \notin RunIds
         /\ runs'[n] = row /\ \A k \in RunIds : runs'[k] = runs[k]
    <2>1. /\ runs' \in Seq(Run) /\ Len(runs') = n /\ runs'[n] = row
          /\ \A k \in 1 .. Len(runs) : runs'[k] = runs[k]
      BY <1>2, <1>5, <1>9, <1>10, AppendProperties DEF TypeOK
    <2>2. Len(runs) \in Nat
      BY <1>2 DEF TypeOK
    <2> QED
      BY <1>10, <2>1, <2>2 DEF RunIds
  <1>12. job' = [job EXCEPT ![u] = NoJob] /\ job' \in [Requests -> Job]
    BY <1>2, <1>5, NoJobType DEF Done, TypeOK
  <1>13. TypeOK'
    <2>1. owed' \in [Liabilities -> Int] /\ today' \in Years /\ payments' \in Seq(Payment)
      BY <1>2, <1>5, <1>8 DEF TypeOK
    <2>2. \A i \in RunIds' : runs'[i].year \in years'
      BY <1>2, <1>6, <1>9, <1>11 DEF TypeOK
    <2> QED
      BY <1>6, <1>11, <1>12, <2>1, <2>2 DEF TypeOK
  <1>14. RunsStand'
    BY <1>2, <1>3, <1>7, <1>9, <1>11 DEF RunsStand
  <1>15. OneLiveRun'
    <2>1. \A i \in RunIds : Live(i)' = Live(i)
      BY <1>11 DEF Live
    <2>2. \A i \in RunIds : Live(i) => runs[i].month # j.month
      BY <1>7 DEF LiveRuns
    <2> QED
      BY <1>2, <1>9, <1>11, <2>1, <2>2 DEF OneLiveRun
  <1>16. ASSUME NEW l \in Liabilities PROVE owed'[l] = StandingTotal(l)' - RemittedTotal(l)'
    <2>1. /\ owed[l] = StandingTotal(l) - RemittedTotal(l)
          /\ StandingTotal(l) \in Int /\ RemittedTotal(l) \in Int
      BY <1>2, DebtsAre, TotalsAre
    <2>2. RemittedTotal(l)' = RemittedTotal(l)
      BY <1>5, RemittedStays
    <2>3. PICK d \in Int : d = put[l]
      BY <1>8
    <2>4. Standing(l, n)' = d
      BY <1>8, <1>9, <1>11, <2>3 DEF Standing, Live
    <2>5. StandingTotal(l)' = StandingTotal(l) + d
      BY <1>2, <1>11, <2>4, StandingGrows
    <2>6. owed'[l] = owed[l] + d
      BY <1>5, <2>3
    <2> QED
      BY <2>1, <2>2, <2>5, <2>6
  <1>17. DebtsAreThePayslips'
    BY <1>16 DEF DebtsAreThePayslips, StandingTotal, RemittedTotal
  <1>18. ASSUME NEW v \in Requests PROVE JobStands(job[v])'
    <2>1. CASE v = u
      <3>1. JobStands(NoJob)'
        <4>1. today' \in Nat /\ IsFiniteSet({})
          BY <1>13, FS_EmptySet, BoundsAssumption DEF TypeOK, Years
        <4> QED
          BY <4>1, NoJobIs DEF JobStands, OpeningStands, BookingStands, SlipsStand
      <3> QED
        BY <1>2, <1>12, <2>1, <3>1 DEF TypeOK
    <2>2. CASE v # u
      <3>1. PICK k : k = job[v]
        OBVIOUS
      <3>2. JobStands(k) /\ job'[v] = k
        BY <1>2, <1>12, <2>2, <3>1 DEF TypeOK, IInv, JobsStand
      <3>3. k.marks => years' = years
        BY <1>1, <1>2, <1>6, <2>2, <3>1, <3>2 DEF IInv, Alone, JobStands, OpeningStands
      <3>4. k.at = "posting" => k.month # j.month
        BY <1>1, <1>5, <2>2, <3>1 DEF IInv, Alone
      <3>5. OpeningStands(k)'
        BY <1>5, <1>6, <3>2, <3>3 DEF JobStands, OpeningStands, MissingUpTo
      <3>6. k.at = "posting" => LiveRuns(k.month)' = {}
        BY <1>9, <1>11, <3>2, <3>4 DEF JobStands, BookingStands, LiveRuns, Live
      <3>7. BookingStands(k)'
        BY <1>11, <3>2, <3>6 DEF JobStands, BookingStands
      <3> QED
        BY <3>2, <3>5, <3>7 DEF JobStands
    <2> QED
      BY <2>1, <2>2
  <1>19. Alone'
    BY <1>2, <1>12, NoJobIs DEF IInv, Alone, TypeOK
  <1>20. JobsStand'
    BY <1>18 DEF JobsStand
  <1> QED
    BY <1>6, <1>13, <1>14, <1>15, <1>17, <1>19, <1>20 DEF IInv, BooksAgree

---------------------------------------------------------------------------
(* The theorems. *)

LEMMA Initially == Init => IInv
  <1> SUFFICES ASSUME Init PROVE IInv
    OBVIOUS
  <1>1. /\ today = 1 /\ years = {1} /\ current = 1 /\ runs = << >> /\ payments = << >>
        /\ owed = [l \in Liabilities |-> 0] /\ job = [u \in Requests |-> NoJob]
    BY DEF Init
  <1>2. RunIds = {} /\ 1 \in Years
    BY <1>1, BoundsAssumption DEF RunIds, Years
  <1>3. TypeOK
    BY <1>1, <1>2, NoJobType DEF TypeOK
  <1>4. JobsStand
    BY <1>1, <1>3, NoJobStands DEF JobsStand
  <1>5. Alone
    BY <1>1, NoJobIs DEF Alone
  <1>6. RunsStand /\ OneLiveRun
    BY <1>2 DEF RunsStand, OneLiveRun
  <1>7. ASSUME NEW l \in Liabilities PROVE owed[l] = StandingTotal(l) - RemittedTotal(l)
    <2> DEFINE f == [i \in {} |-> Standing(l, i)]
               g == [k \in {} |-> Remitted(l, k)]
    <2>1. 1 .. Len(payments) = {}
      BY <1>1
    <2>2. StandingTotal(l) = SumFunctionOnSet(f, {}) /\ RemittedTotal(l) = SumFunctionOnSet(g, {})
      BY <1>2, <2>1 DEF StandingTotal, RemittedTotal, SumFunction
    <2> HIDE DEF f, g
    <2>3. SumFunctionOnSet(f, {}) = 0 /\ SumFunctionOnSet(g, {}) = 0
      BY SumNone
    <2> QED
      BY <1>1, <2>2, <2>3
  <1>8. CalendarFull
    BY <1>1 DEF CalendarFull
  <1> QED
    BY <1>3, <1>4, <1>5, <1>6, <1>7, <1>8, DebtsAre DEF IInv, BooksAgree

LEMMA Inductive == IInv /\ [Next]_vars => IInv'
  <1> SUFFICES ASSUME IInv, [Next]_vars PROVE IInv'
    OBVIOUS
  <1>1. ASSUME NEW u \in Requests, RequestStart(u) PROVE IInv'
    BY <1>1, CreatePayrollRunKeeps, VoidPayrollKeeps DEF RequestStart
  <1>2. ASSUME NEW u \in Requests, RequestStep(u) PROVE IInv'
    BY <1>2, LockCalendarKeeps, AllocateReferenceKeeps, InsertRunKeeps, PostRunKeeps,
       ReverseRunKeeps DEF RequestStep
  <1>3. ASSUME NEW u \in Requests, RollBack(u) PROVE IInv'
    BY <1>3, RollBackKeeps DEF RollBack, calendar, Still
  <1>4. ASSUME NEW l \in Liabilities, NEW i \in RunIds, PayLiability(l, i) PROVE IInv'
    BY <1>4, PayLiabilityKeeps
  <1>5. CASE NewYearBegins
    BY <1>5, NewYearKeeps
  <1>6. CASE UNCHANGED vars
    <2>1. UNCHANGED <<today, years, current, runs, owed, payments, job>>
      BY <1>6 DEF vars
    <2>2. TypeOK' /\ Alone' /\ CalendarFull'
      BY <2>1 DEF IInv, TypeOK, RunIds, Alone, CalendarFull
    <2>3. BooksAgree'
      BY <2>1, BooksKept DEF IInv
    <2>4. ASSUME NEW v \in Requests PROVE JobStands(job[v])'
      <3>1. PICK k : k = job[v]
        OBVIOUS
      <3>2. JobStands(k)'
        BY <2>1, <3>1, JobKept DEF IInv, JobsStand
      <3> QED
        BY <2>1, <3>1, <3>2
    <2> QED
      BY <2>2, <2>3, <2>4 DEF IInv, JobsStand
  <1> QED
    BY <1>1, <1>2, <1>3, <1>4, <1>5, <1>6 DEF Next

LEMMA Always == Spec => []IInv
  BY Initially, Inductive, PTL DEF Spec

\* The series and the index wait for requests further on than oneself, and the
\* calendar for one that is past it.
LEMMA NobodyWaitsForever == IInv => SomebodyMoves
  <1> SUFFICES ASSUME IInv, NEW u \in Requests, ~ Idle(u),
                      \A v \in Requests : ~ Refused(v) /\ ~ MovesOn(v)
               PROVE  FALSE
    BY DEF SomebodyMoves
  <1>1. \A v \in Requests :
           /\ job[v].at \in {"idle", "calendar", "numbering", "inserting", "posting", "reversing"}
           /\ job[v].holdsCalendar => job[v].at \in {"numbering", "inserting", "posting"}
    BY JobFields DEF IInv, TypeOK, JobsStand, JobStands, OpeningStands
  <1>2. \A v \in Requests : job[v].at # "posting" /\ job[v].at # "reversing"
    BY DEF MovesOn, Refused, ReversalReady
  <1>3. \A v \in Requests : job[v].at # "inserting"
    BY <1>2 DEF MovesOn, Refused, InsertReady, InsertAllowed, Inserting
  <1>4. \A v \in Requests : job[v].at # "numbering"
    BY <1>2, <1>3 DEF MovesOn, ReferenceReady, SeriesFree
  <1>5. CalendarFree
    BY <1>1, <1>2, <1>3, <1>4 DEF CalendarFree
  <1>6. \A v \in Requests : job[v].at # "calendar"
    BY <1>5 DEF MovesOn, CalendarReady
  <1> QED
    BY <1>1, <1>2, <1>3, <1>4, <1>6 DEF Idle

\* A month's pay is booked by one run that stands, however many requests run
\* and cancel payrolls at once; each of the five liability accounts holds what
\* the payslips of the runs that stand put there, less what was paid over
\* (createPayrollRun, voidPayroll, createPayment); and no circle of requests
\* waits for the calendar, the series or the index.
THEOREM PayrollIsBookedOnce == Spec => []PayrollStands
  <1>1. IInv => PayrollStands
    BY NobodyWaitsForever DEF IInv, BooksAgree, PayrollStands
  <1> QED
    BY <1>1, Always, PTL

CalendarGrows == current' >= current /\ years \subseteq years'

LEMMA CalendarOnlyGrows == IInv /\ [Next]_vars => CalendarGrows
  <1> SUFFICES ASSUME IInv, [Next]_vars PROVE CalendarGrows
    OBVIOUS
  <1>1. ASSUME NEW u \in Requests, PostRun(u) PROVE CalendarGrows
    BY <1>1, PostRunOpens DEF CalendarGrows
  <1>2. ASSUME UNCHANGED <<years, current>> PROVE CalendarGrows
    BY <1>2, BoundsAssumption DEF CalendarGrows, IInv, TypeOK, Years
  <1> QED
    BY <1>1, <1>2
    DEF Next, RequestStart, RequestStep, CreatePayrollRun, VoidPayroll, LockCalendar,
        AllocateReference, InsertRun, ReverseRun, RollBack, PayLiability, NewYearBegins, vars,
        calendar

\* Whoever opens the fiscal calendar, for whichever dates and while the clock
\* moves on, it has no hole and no year that has not begun, a year it has it
\* keeps, and the year the reports open on never goes back
\* (ensureFiscalYearFor, markCurrentYear).
THEOREM CalendarIsFull == Spec => CalendarStands
  <1>1. IInv => years = 1 .. Max(years) /\ Max(years) <= today /\ current \in years
    BY CalendarIs DEF IInv
  <1>2. IInv /\ [Next]_vars => CalendarGrows
    BY CalendarOnlyGrows
  <1> QED
    BY <1>1, <1>2, Always, PTL DEF Spec, CalendarStands, CalendarGrows
=============================================================================
