---------------------------- MODULE Books_proofs ----------------------------
(***************************************************************************)
(* Proofs about Books, for every calendar, user set and bound: numbers     *)
(* without gaps, reversals that pair off, the refinement of Ledger, and    *)
(* what a closed year keeps and what may still reach it.                   *)
(***************************************************************************)
EXTENDS LateEntries, FiniteSetTheorems, TLAPS

USE NamesAssumption, SizesAssumption

LEMMA PeriodFacts ==
    /\ \A p \in Periods : YearOf(p) \in Years
    /\ \A y \in Years : LastPeriod(y) \in Periods /\ YearOf(LastPeriod(y)) = y
    /\ <<1, 1>> \in Periods
  BY DEF Periods, YearOf, LastPeriod, Years

LEMMA NoJobType == NoJob \in Job /\ NoJob.at = "idle"
  BY PeriodFacts DEF NoJob, Job, Ops, Steps, NoEntry

---------------------------------------------------------------------------
(* The inductive invariant.  A request that is about to commit holds the    *)
(* row of its year's series and carries the number that row hands out, and  *)
(* nobody else holds a row.                                                 *)

RowLocks ==
    /\ \A r \in Requests :
          req[r].at = "writing" => /\ seqHolder[YearOf(req[r].period)] = r
                                   /\ req[r].number = nextNumber[YearOf(req[r].period)]
    /\ \A y \in Years :
          seqHolder[y] # NoRequest => /\ req[seqHolder[y]].at = "writing"
                                      /\ YearOf(req[seqHolder[y]].period) = y

\* A step outside the locked section: one request, not holding a row, goes on.
Quiet ==
    /\ UNCHANGED <<journal, nextNumber, seqHolder>>
    /\ \E r \in Requests : \E j \in Job :
          /\ req' = [req EXCEPT ![r] = j]
          /\ req[r].at # "writing" /\ j.at # "writing"

LEMMA QuietRowLocks == TypeOK /\ RowLocks /\ Quiet => RowLocks'
  BY DEF TypeOK, RowLocks, Quiet

LEMMA QuietNumbers == NumbersGapFree /\ Quiet => NumbersGapFree'
  BY DEF NumbersGapFree, EntryYear, Quiet

LEMMA JobType ==
  ASSUME TypeOK, NEW r \in Requests, NEW j \in Job, req' = [req EXCEPT ![r] = j],
         KeepsBooks, UNCHANGED seqHolder, req[r].at # "writing", j.at # "writing"
  PROVE  TypeOK' /\ Quiet
  BY DEF TypeOK, KeepsBooks, Quiet

LEMMA StartType ==
  ASSUME TypeOK, NEW r \in Requests, NEW found, NEW j \in Job, j.at # "writing",
         Start(r, found, j)
  PROVE  TypeOK' /\ Quiet
  <1>0. req[r].at # "writing"
    BY DEF Start, MayStart
  <1>1. CASE found
    BY <1>0, <1>1, JobType DEF Start
  <1>2. CASE ~ found
    <2>1. req[r] \in Job /\ req' = [req EXCEPT ![r] = req[r]]
      BY <1>2 DEF Start, TypeOK
    <2> QED
      BY <1>0, <2>1, JobType DEF Start
  <1> QED
    BY <1>1, <1>2

LEMMA GotoType ==
  ASSUME TypeOK, NEW r \in Requests, NEW s \in Steps, Goto(r, s),
         KeepsBooks, UNCHANGED seqHolder, req[r].at # "writing", s # "writing"
  PROVE  TypeOK' /\ Quiet
  <1>1. [req[r] EXCEPT !.at = s] \in Job /\ [req[r] EXCEPT !.at = s].at = s
    BY DEF TypeOK, Job
  <1>2. req' = [req EXCEPT ![r] = [req[r] EXCEPT !.at = s]]
    BY DEF Goto
  <1> QED
    BY <1>1, <1>2, JobType

LEMMA FinishType ==
  ASSUME TypeOK, NEW r \in Requests, Finish(r)
  PROVE  req' \in [Requests -> Job]
  BY NoJobType DEF TypeOK, Finish

LEMMA FinishKeepsType ==
  ASSUME TypeOK, NEW r \in Requests, Finish(r), KeepsBooks, UNCHANGED seqHolder,
         req[r].at # "writing"
  PROVE  TypeOK' /\ Quiet
  BY NoJobType, JobType DEF Finish

LEMMA EntryType ==
  ASSUME TypeOK, NEW i \in 1 .. Len(journal)
  PROVE  journal[i] \in Entry
  BY DEF TypeOK

LEMMA StepNames ==
  /\ "numbering" \in Steps /\ "updating" \in Steps /\ "ordering" \in Steps
  /\ "balancing" \in Steps /\ "posting" \in Steps /\ "writing" \in Steps
  BY DEF Steps

LEMMA ClerkStepType ==
  ASSUME TypeOK, NEW r \in Clerks, ClerkStep(r)
  PROVE  TypeOK' /\ Quiet
  <1> r \in Requests
    BY DEF Requests
  <1>1. ASSUME NEW p \in Periods, NEW a \in Amounts, CreateManualEntry(r, p, a)
        PROVE  TypeOK' /\ Quiet
    <2>1. [NoJob EXCEPT !.op = "POST", !.at = "posting", !.period = p, !.amount = a] \in Job
      BY NoJobType DEF Job, Ops, Steps
    <2>2. [NoJob EXCEPT !.op = "POST", !.at = "posting", !.period = p, !.amount = a].at
            # "writing"
      BY DEF NoJob
    <2> QED
      BY <1>1, <2>1, <2>2, StartType DEF CreateManualEntry
  <1>2. ASSUME NEW i \in 1 .. Len(journal), ReverseManualEntry(r, i)
        PROVE  TypeOK' /\ Quiet
    <2>1. journal[i].period \in Periods /\ - journal[i].amount \in Int /\ i \in Nat
      BY EntryType DEF Entry
    <2>2. [NoJob EXCEPT !.op = "REVERSE", !.at = "posting", !.ref = i,
                        !.period = journal[i].period, !.amount = - journal[i].amount] \in Job
      BY <2>1, NoJobType DEF Job, Ops, Steps
    <2>3. [NoJob EXCEPT !.op = "REVERSE", !.at = "posting", !.ref = i,
                        !.period = journal[i].period, !.amount = - journal[i].amount].at
            # "writing"
      BY DEF NoJob
    <2> QED
      BY <1>2, <2>2, <2>3, StartType DEF ReverseManualEntry
  <1> QED
    BY <1>1, <1>2 DEF ClerkStep

LEMMA AdminStartType ==
  ASSUME TypeOK, NEW r \in Admins, AdminStart(r)
  PROVE  TypeOK' /\ Quiet
  <1> r \in Requests
    BY DEF Requests
  <1>1. ASSUME NEW p \in Periods, NEW op \in Ops, NEW s \in Steps, s # "writing"
        PROVE  /\ [NoJob EXCEPT !.op = op, !.at = s, !.period = p] \in Job
               /\ [NoJob EXCEPT !.op = op, !.at = s, !.period = p].at # "writing"
    <2>1. [NoJob EXCEPT !.op = op, !.at = s, !.period = p] \in Job
      BY NoJobType DEF Job
    <2>2. [NoJob EXCEPT !.op = op, !.at = s, !.period = p].at # "writing"
      BY <1>1 DEF NoJob
    <2> QED
      BY <2>1, <2>2
  <1>2. \A y \in Years : LastPeriod(y) \in Periods
    BY PeriodFacts
  <1>3. /\ "CLOSE_PERIOD" \in Ops /\ "REOPEN_PERIOD" \in Ops
        /\ "CLOSE_YEAR" \in Ops /\ "REOPEN_YEAR" \in Ops /\ "checking" \in Steps
    BY DEF Ops, Steps
  <1>4. ASSUME NEW p \in Periods, ClosePeriod(r, p) PROVE TypeOK' /\ Quiet
    BY <1>1, <1>3, <1>4, StartType, StepNames DEF ClosePeriod
  <1>5. ASSUME NEW p \in Periods, ReopenPeriod(r, p) PROVE TypeOK' /\ Quiet
    BY <1>1, <1>3, <1>5, StartType, StepNames DEF ReopenPeriod
  <1>6. ASSUME NEW y \in Years, CloseFiscalYear(r, y) PROVE TypeOK' /\ Quiet
    BY <1>1, <1>2, <1>3, <1>6, StartType, StepNames DEF CloseFiscalYear
  <1>7. ASSUME NEW y \in Years, ReopenFiscalYear(r, y) PROVE TypeOK' /\ Quiet
    BY <1>1, <1>2, <1>3, <1>7, StartType, StepNames DEF ReopenFiscalYear
  <1> QED
    BY <1>4, <1>5, <1>6, <1>7 DEF AdminStart

LEMMA AdminStepType ==
  ASSUME TypeOK, NEW r \in Admins, AdminStep(r)
  PROVE  TypeOK' /\ Quiet
  <1>0. r \in Requests /\ req[r] \in Job
    BY DEF Requests, TypeOK
  <1>1. CASE CheckEarlierPeriods(r)
    BY <1>0, <1>1, StepNames, GotoType, FinishKeepsType DEF CheckEarlierPeriods
  <1>2. CASE UpdatePeriod(r)
    BY <1>0, <1>2, FinishType, NoJobType DEF UpdatePeriod, TypeOK, Quiet, Finish
  <1>3. CASE CheckPeriodsClosed(r)
    BY <1>0, <1>3, StepNames, GotoType, FinishKeepsType DEF CheckPeriodsClosed
  <1>4. CASE CheckEarlierYears(r)
    BY <1>0, <1>4, StepNames, GotoType, FinishKeepsType DEF CheckEarlierYears
  <1>5. ASSUME NEW carry \in BOOLEAN, ReadBalances(r, carry) PROVE TypeOK' /\ Quiet
    <2> DEFINE amount == - resultTo[YearOf(req[r].period)]
               step   == IF carry THEN "posting" ELSE "updating"
    <2>1. amount \in Int
      BY <1>0, PeriodFacts DEF TypeOK, Job
    <2>2. /\ [req[r] EXCEPT !.amount = amount, !.at = step] \in Job
          /\ [req[r] EXCEPT !.amount = amount, !.at = step].at # "writing"
      BY <1>0, <2>1, StepNames DEF Job
    <2>3. req' = [req EXCEPT ![r] = [req[r] EXCEPT !.amount = amount, !.at = step]]
      BY <1>5, <1>0 DEF ReadBalances, TypeOK
    <2> QED
      BY <1>0, <1>5, <2>2, <2>3, JobType DEF ReadBalances
  <1>6. CASE CheckLaterYears(r)
    BY <1>0, <1>6, StepNames, GotoType, FinishKeepsType DEF CheckLaterYears
  <1>7. ASSUME NEW i \in 1 .. Len(journal), FindClosingEntry(r, i) PROVE TypeOK' /\ Quiet
    <2> DEFINE job == [req[r] EXCEPT !.ref = i, !.amount = - journal[i].amount,
                                     !.at = "posting"]
    <2>1. - journal[i].amount \in Int /\ i \in Nat
      BY EntryType DEF Entry
    <2>2. job \in Job /\ job.at # "writing"
      BY <1>0, <2>1, StepNames DEF Job
    <2>3. req' = [req EXCEPT ![r] = job]
      BY <1>7, <1>0 DEF FindClosingEntry, TypeOK
    <2> QED
      BY <1>0, <1>7, <2>2, <2>3, JobType DEF FindClosingEntry
  <1>8. CASE FindNoClosingEntry(r)
    BY <1>0, <1>8, StepNames, GotoType DEF FindNoClosingEntry
  <1>9. CASE UpdateYear(r)
    BY <1>0, <1>9, FinishType, NoJobType DEF UpdateYear, ClosedAfter, TypeOK, Quiet, Finish
  <1> QED
    BY <1>1, <1>2, <1>3, <1>4, <1>5, <1>6, <1>7, <1>8, <1>9 DEF AdminStep

\* The three steps that touch a row lock keep types and row locks.
LEMMA AllocateTypeLocks ==
  ASSUME TypeOK, RowLocks, NEW r \in Requests, AllocateNumber(r)
  PROVE  TypeOK' /\ RowLocks'
  <1> DEFINE y   == YearOf(req[r].period)
             job == [req[r] EXCEPT !.at = "writing", !.number = nextNumber[y]]
  <1>0. req[r] \in Job /\ y \in Years
    BY PeriodFacts DEF TypeOK, Job
  <1>1. job \in Job /\ job.at = "writing" /\ job.period = req[r].period
        /\ job.number = nextNumber[y]
    BY <1>0, StepNames DEF Job, TypeOK
  <1>2. req' = [req EXCEPT ![r] = job]
    BY DEF AllocateNumber, TypeOK
  <1>3. /\ seqHolder' = [seqHolder EXCEPT ![y] = r] /\ seqHolder[y] = NoRequest
        /\ nextNumber' = nextNumber
    BY DEF AllocateNumber, SequenceRowFree, KeepsBooks
  <1>4. TypeOK'
    BY <1>0, <1>1, <1>2, <1>3 DEF AllocateNumber, KeepsBooks, TypeOK
  <1>5. ASSUME NEW q \in Requests, req'[q].at = "writing"
        PROVE  /\ seqHolder'[YearOf(req'[q].period)] = q
               /\ req'[q].number = nextNumber'[YearOf(req'[q].period)]
    <2>1. CASE q = r
      BY <2>1, <1>0, <1>1, <1>2, <1>3 DEF TypeOK
    <2>2. CASE q # r
      <3>1. req'[q] = req[q] /\ req[q] \in Job
        BY <2>2, <1>2 DEF TypeOK
      <3>2. seqHolder[YearOf(req[q].period)] = q /\ YearOf(req[q].period) # y
        BY <3>1, <1>3, <1>5 DEF RowLocks, Requests
      <3> QED
        BY <3>1, <3>2, <1>3, <1>5 DEF RowLocks, TypeOK
    <2> QED
      BY <2>1, <2>2
  <1>6. ASSUME NEW z \in Years, seqHolder'[z] # NoRequest
        PROVE  /\ req'[seqHolder'[z]].at = "writing"
               /\ YearOf(req'[seqHolder'[z]].period) = z
    <2>1. CASE z = y
      BY <2>1, <1>0, <1>1, <1>2, <1>3 DEF TypeOK
    <2>2. CASE z # y
      <3>1. seqHolder'[z] = seqHolder[z] /\ seqHolder[z] \in Requests
        BY <2>2, <1>3, <1>6 DEF TypeOK
      <3>2. req[seqHolder[z]].at = "writing" /\ YearOf(req[seqHolder[z]].period) = z
        BY <3>1, <1>6 DEF RowLocks
      <3>3. req'[seqHolder[z]] = req[seqHolder[z]]
        BY <3>1, <3>2, <2>2, <1>2 DEF TypeOK
      <3> QED
        BY <3>1, <3>2, <3>3
    <2> QED
      BY <2>1, <2>2
  <1> QED
    BY <1>4, <1>5, <1>6 DEF RowLocks

\* When a transaction ends its row is released, and no other row changes hands.
LEMMA ReleaseLocks ==
  ASSUME TypeOK, RowLocks, NEW r \in Requests, Finish(r), seqHolder' = ReleasedBy(r),
         \A y \in Years : seqHolder[y] # r => nextNumber'[y] = nextNumber[y]
  PROVE  RowLocks' /\ seqHolder' \in [Years -> Requests \union {NoRequest}]
  <1>1. req' = [req EXCEPT ![r] = NoJob]
    BY DEF Finish
  <1>2. seqHolder' = [y \in Years |-> IF seqHolder[y] = r THEN NoRequest ELSE seqHolder[y]]
    BY DEF ReleasedBy
  <1>3. ASSUME NEW q \in Requests, req'[q].at = "writing"
        PROVE  /\ seqHolder'[YearOf(req'[q].period)] = q
               /\ req'[q].number = nextNumber'[YearOf(req'[q].period)]
    <2>1. q # r /\ req'[q] = req[q] /\ req[q] \in Job
      BY <1>1, <1>3, NoJobType DEF TypeOK
    <2>2. YearOf(req[q].period) \in Years
      BY <2>1, PeriodFacts DEF Job
    <2> QED
      BY <2>1, <2>2, <1>2, <1>3 DEF RowLocks
  <1>4. ASSUME NEW z \in Years, seqHolder'[z] # NoRequest
        PROVE  /\ req'[seqHolder'[z]].at = "writing"
               /\ YearOf(req'[seqHolder'[z]].period) = z
    BY <1>1, <1>2, <1>4 DEF RowLocks, TypeOK
  <1>5. seqHolder' \in [Years -> Requests \union {NoRequest}]
    BY <1>2 DEF TypeOK
  <1> QED
    BY <1>3, <1>4, <1>5 DEF RowLocks

LEMMA SeqFromRange ==
  ASSUME NEW S, NEW s \in Seq(S), NEW t, DOMAIN t = DOMAIN s,
         t = [i \in DOMAIN s |-> t[i]], \A i \in 1 .. Len(s) : t[i] \in S
  PROVE  t \in Seq(S) /\ Len(t) = Len(s)
  OBVIOUS

\* What a commit appends, and to what.
LEMMA CommitFacts ==
  ASSUME TypeOK, RowLocks, NEW r \in Requests, CommitEntry(r)
  PROVE  LET y == YearOf(req[r].period) IN
         /\ y \in Years /\ seqHolder[y] = r /\ req[r].number = nextNumber[y]
         /\ nextNumber[y] \in Nat \ {0}
         /\ EntryOf(r) \in Entry
         /\ JournalBefore(r) \in Seq(Entry)
         /\ Len(JournalBefore(r)) = Len(journal)
         /\ \A i \in 1 .. Len(journal) :
              /\ JournalBefore(r)[i].number = journal[i].number
              /\ JournalBefore(r)[i].period = journal[i].period
  <1> DEFINE y == YearOf(req[r].period)
  <1>1. req[r] \in Job /\ y \in Years
    BY PeriodFacts DEF TypeOK, Job
  <1>2. seqHolder[y] = r /\ req[r].number = nextNumber[y] /\ nextNumber[y] \in Nat \ {0}
    BY <1>1 DEF CommitEntry, RowLocks, TypeOK
  <1>3. EntryOf(r) \in Entry
    BY <1>1, <1>2 DEF EntryOf, Entry, Job, KindOf, Kinds
  <1>4. /\ JournalBefore(r) \in Seq(Entry)
        /\ Len(JournalBefore(r)) = Len(journal)
        /\ \A i \in 1 .. Len(journal) :
             /\ JournalBefore(r)[i].number = journal[i].number
             /\ JournalBefore(r)[i].period = journal[i].period
    <2>1. CASE req[r].op = "REVERSE"
      <3> DEFINE e == req[r].ref
      <3>1. JournalBefore(r) = [journal EXCEPT ![e].status = "REVERSED"]
        BY <2>1 DEF JournalBefore
      <3>2. ASSUME NEW i \in 1 .. Len(journal)
            PROVE  /\ JournalBefore(r)[i] \in Entry
                   /\ JournalBefore(r)[i].number = journal[i].number
                   /\ JournalBefore(r)[i].period = journal[i].period
        <4>1. journal[i] \in Entry /\ journal \in Seq(Entry)
          BY EntryType DEF TypeOK
        <4>2. [journal[i] EXCEPT !.status = "REVERSED"] \in Entry
          BY <4>1 DEF Entry
        <4>3. JournalBefore(r)[i] = IF i = e THEN [journal[i] EXCEPT !.status = "REVERSED"]
                                            ELSE journal[i]
          BY <3>1, <4>1
        <4> QED
          BY <4>1, <4>2, <4>3 DEF Entry
      <3>3. JournalBefore(r) \in Seq(Entry) /\ Len(JournalBefore(r)) = Len(journal)
        <4>1. /\ journal \in Seq(Entry) /\ DOMAIN JournalBefore(r) = DOMAIN journal
              /\ JournalBefore(r) = [i \in DOMAIN journal |-> JournalBefore(r)[i]]
          BY <3>1 DEF TypeOK
        <4> QED
          BY <4>1, <3>2, SeqFromRange
      <3> QED
        BY <3>2, <3>3
    <2>2. CASE req[r].op # "REVERSE"
      BY <2>2 DEF JournalBefore, TypeOK
    <2> QED
      BY <2>1, <2>2
  <1> QED
    BY <1>1, <1>2, <1>3, <1>4

LEMMA CommitTypeLocks ==
  ASSUME TypeOK, RowLocks, NEW r \in Requests, CommitEntry(r)
  PROVE  TypeOK' /\ RowLocks'
  <1> DEFINE y == YearOf(req[r].period)
  <1>0. req[r] \in Job /\ y \in Years
    BY PeriodFacts DEF TypeOK, Job
  <1>1. journal' \in Seq(Entry)
    <2>1. JournalBefore(r) \in Seq(Entry) /\ EntryOf(r) \in Entry
      BY CommitFacts
    <2>2. journal' = Append(JournalBefore(r), EntryOf(r))
      BY DEF CommitEntry
    <2> QED
      BY <2>1, <2>2
  <1>2. resultTo' \in [Years -> Int]
    <2>1. req[r].amount \in Int
      BY <1>0 DEF Job
    <2>2. resultTo' = [z \in Years |-> resultTo[z] + (IF z >= y THEN req[r].amount ELSE 0)]
      BY DEF CommitEntry
    <2>3. \A z \in Years : resultTo[z] + (IF z >= y THEN req[r].amount ELSE 0) \in Int
      BY <2>1 DEF TypeOK
    <2> QED
      BY <2>2, <2>3
  <1>3. /\ nextNumber' \in [Years -> Nat \ {0}]
        /\ nextNumber' = [nextNumber EXCEPT ![y] = nextNumber[y] + 1]
    <2>1. /\ nextNumber' = [nextNumber EXCEPT ![y] = req[r].number + 1]
          /\ req[r].number = nextNumber[y] /\ nextNumber[y] \in Nat
      BY CommitFacts DEF CommitEntry
    <2> QED
      BY <1>0, <2>1 DEF TypeOK
  <1>4. closed' \in [Years -> BOOLEAN]
    BY <1>0 DEF CommitEntry, TypeOK, ClosedAfter
  <1>5. \A z \in Years : seqHolder[z] # r => nextNumber'[z] = nextNumber[z]
    BY <1>0, <1>3, CommitFacts DEF TypeOK
  <1>6. RowLocks' /\ seqHolder' \in [Years -> Requests \union {NoRequest}]
    BY <1>5, ReleaseLocks DEF CommitEntry
  <1> QED
    BY <1>1, <1>2, <1>3, <1>4, <1>6, FinishType DEF CommitEntry, TypeOK

LEMMA RollBackTypeLocks ==
  ASSUME TypeOK, RowLocks, NEW r \in Requests, RollBack(r)
  PROVE  TypeOK' /\ RowLocks'
  BY ReleaseLocks, FinishType DEF RollBack, KeepsBooks, TypeOK

LEMMA ResolveType ==
  ASSUME TypeOK, NEW r \in Requests, ResolvePeriod(r)
  PROVE  TypeOK' /\ Quiet
  BY StepNames, GotoType, FinishKeepsType DEF ResolvePeriod

LEMMA CommitNumbers ==
  ASSUME TypeOK, RowLocks, NumbersGapFree, NEW r \in Requests, CommitEntry(r)
  PROVE  NumbersGapFree'
  <1> DEFINE y == YearOf(req[r].period)
             n == Len(journal)
  <1>1. /\ y \in Years /\ req[r].number = nextNumber[y] /\ nextNumber[y] \in Nat \ {0}
        /\ JournalBefore(r) \in Seq(Entry) /\ Len(JournalBefore(r)) = n /\ n \in Nat
        /\ EntryOf(r) \in Entry
    BY CommitFacts DEF TypeOK
  <1>2. journal' = Append(JournalBefore(r), EntryOf(r))
    BY DEF CommitEntry
  <1>3. Len(journal') = n + 1 /\ 1 .. Len(journal') = 1 .. n \union {n + 1}
    BY <1>1, <1>2
  <1>4. \A i \in 1 .. n : /\ journal'[i].number = journal[i].number
                          /\ YearOf(journal'[i].period) = EntryYear(i)
    BY <1>1, <1>2, CommitFacts DEF EntryYear
  <1>5. journal'[n + 1].number = nextNumber[y] /\ YearOf(journal'[n + 1].period) = y
    BY <1>1, <1>2 DEF EntryYear, EntryOf
  <1>6. nextNumber' = [nextNumber EXCEPT ![y] = nextNumber[y] + 1]
    BY <1>1 DEF CommitEntry
  <1>7. \A i \in 1 .. n : journal[i].number \in Nat
    BY EntryType DEF Entry
  <1>8. ASSUME NEW z \in Years
        PROVE  /\ \A m \in 1 .. nextNumber'[z] - 1 :
                     \E i \in 1 .. Len(journal') : YearOf(journal'[i].period) = z /\ journal'[i].number = m
               /\ \A i \in 1 .. Len(journal') :
                     YearOf(journal'[i].period) = z => journal'[i].number < nextNumber'[z]
               /\ \A i, j \in 1 .. Len(journal') :
                     i < j /\ YearOf(journal'[i].period) = z /\ YearOf(journal'[j].period) = z
                       => journal'[i].number < journal'[j].number
    <2>1. /\ \A m \in 1 .. nextNumber[z] - 1 :
                \E i \in 1 .. n : EntryYear(i) = z /\ journal[i].number = m
          /\ \A i \in 1 .. n : EntryYear(i) = z => journal[i].number < nextNumber[z]
          /\ \A i, j \in 1 .. n : i < j /\ EntryYear(i) = z /\ EntryYear(j) = z
                                   => journal[i].number < journal[j].number
      BY DEF NumbersGapFree
    <2>2. nextNumber[z] \in Nat /\ nextNumber'[z] = IF z = y THEN nextNumber[z] + 1
                                                            ELSE nextNumber[z]
      BY <1>6 DEF TypeOK
    <2>3. ASSUME NEW m \in 1 .. nextNumber'[z] - 1
          PROVE  \E i \in 1 .. Len(journal') : YearOf(journal'[i].period) = z /\ journal'[i].number = m
      <3>1. CASE m \in 1 .. nextNumber[z] - 1
        <4>1. PICK i \in 1 .. n : EntryYear(i) = z /\ journal[i].number = m
          BY <2>1, <3>1
        <4> QED
          BY <1>3, <1>4, <4>1
      <3>2. CASE m \notin 1 .. nextNumber[z] - 1
        <4>1. z = y /\ m = nextNumber[y]
          BY <1>1, <2>2, <2>3, <3>2
        <4>2. n + 1 \in 1 .. Len(journal')
          BY <1>3
        <4> QED
          BY <1>5, <4>1, <4>2
      <3> QED
        BY <3>1, <3>2
    <2>4. ASSUME NEW i \in 1 .. Len(journal'), YearOf(journal'[i].period) = z
          PROVE  journal'[i].number < nextNumber'[z]
      <3>1. CASE i \in 1 .. n
        BY <1>4, <1>7, <2>1, <2>2, <2>4, <3>1
      <3>2. CASE i = n + 1
        BY <1>5, <2>2, <2>4, <3>2
      <3> QED
        BY <1>3, <3>1, <3>2
    <2>5. ASSUME NEW i \in 1 .. Len(journal'), NEW j \in 1 .. Len(journal'),
                 i < j, YearOf(journal'[i].period) = z, YearOf(journal'[j].period) = z
          PROVE  journal'[i].number < journal'[j].number
      <3>1. i \in 1 .. n
        BY <1>1, <1>3, <2>5
      <3>2. CASE j \in 1 .. n
        BY <1>4, <2>1, <2>5, <3>1, <3>2
      <3>3. CASE j = n + 1
        BY <1>4, <1>5, <2>1, <2>5, <3>1, <3>3
      <3> QED
        BY <1>3, <3>2, <3>3
    <2> QED
      BY <2>3, <2>4, <2>5
  <1> QED
    BY <1>8 DEF NumbersGapFree, EntryYear

---------------------------------------------------------------------------
IInv == TypeOK /\ RowLocks /\ NumbersGapFree

LEMMA Initially == Init => IInv
  BY NoJobType, NamesAssumption DEF Init, IInv, TypeOK, RowLocks, NumbersGapFree

LEMMA Inductive == IInv /\ [Next]_vars => IInv'
  <1> SUFFICES ASSUME IInv, [Next]_vars PROVE IInv'
    OBVIOUS
  <1> USE DEF IInv
  <1>1. ASSUME TypeOK' /\ Quiet PROVE IInv'
    BY <1>1, QuietRowLocks, QuietNumbers
  <1>2. ASSUME NEW r \in Clerks, ClerkStep(r) PROVE IInv'
    BY <1>1, <1>2, ClerkStepType
  <1>3. ASSUME NEW r \in Admins, AdminStart(r) \/ AdminStep(r) PROVE IInv'
    BY <1>1, <1>3, AdminStartType, AdminStepType
  <1>4. ASSUME NEW r \in Requests, Posting(r) PROVE IInv'
    <2>1. CASE ResolvePeriod(r)
      BY <2>1, <1>1, ResolveType
    <2>2. CASE AllocateNumber(r)
      <3>1. NumbersGapFree'
        BY <2>2 DEF NumbersGapFree, EntryYear, AllocateNumber, KeepsBooks
      <3> QED
        BY <2>2, <3>1, AllocateTypeLocks
    <2>3. CASE CommitEntry(r)
      BY <2>3, CommitTypeLocks, CommitNumbers
    <2> QED
      BY <1>4, <2>1, <2>2, <2>3 DEF Posting
  <1>5. ASSUME NEW r \in Requests, RollBack(r) PROVE IInv'
    <2>1. NumbersGapFree'
      BY <1>5 DEF NumbersGapFree, EntryYear, RollBack, KeepsBooks
    <2> QED
      BY <1>5, <2>1, RollBackTypeLocks
  <1>6. CASE UNCHANGED vars
    BY <1>6 DEF vars, TypeOK, RowLocks, NumbersGapFree, EntryYear
  <1> QED
    BY <1>2, <1>3, <1>4, <1>5, <1>6 DEF Next

\* The state of a reachable database is well formed; in particular no entry is
\* inserted without the number allocateDocumentNumber gave it.
THEOREM TypeCorrect == Spec => []TypeOK
  BY Initially, Inductive, PTL DEF Spec, IInv

\* Whatever runs at the same time, and whatever is rolled back half way, the
\* JOURNAL series of every year has no gap and no duplicate.
THEOREM GapFreeNumbers == Spec => []NumbersGapFree
  BY Initially, Inductive, PTL DEF Spec, IInv

---------------------------------------------------------------------------
(***************************************************************************)
(* Reversals pair off with the entries they reverse.                       *)
(***************************************************************************)

\* What a request knows of the entry it will reverse stays true of the journal:
\* entries are only added, and only their status ever changes.  A manual
\* reversal aims at a manual entry; a reopening at a closing entry, and since
\* both are dated on the year's last day, in the same period.
RefOK(j) ==
    /\ j.op \notin {"REVERSE", "REOPEN_YEAR"} => j.ref = NoEntry
    /\ j.op = "REVERSE" => j.ref # NoEntry
    /\ j.op \in {"CLOSE_YEAR", "REOPEN_YEAR"} => j.period = LastPeriod(YearOf(j.period))
    /\ j.ref # NoEntry =>
         /\ j.ref \in 1 .. Len(journal)
         /\ journal[j.ref].period = j.period
         /\ journal[j.ref].amount = - j.amount
         /\ journal[j.ref].kind = IF j.op = "REVERSE" THEN "MANUAL" ELSE "CLOSING"
RefJobs == \A r \in Requests : RefOK(req[r])

ClosingOnLastDay ==
    \A i \in 1 .. Len(journal) :
        journal[i].kind = "CLOSING" => journal[i].period = LastPeriod(EntryYear(i))

ReversalInv == RefJobs /\ ClosingOnLastDay /\ ReversedOnce

---------------------------------------------------------------------------
(* Steps that leave the journal alone. *)

LEMMA SameJournal ==
  ASSUME ClosingOnLastDay, ReversedOnce, journal' = journal
  PROVE  ClosingOnLastDay' /\ ReversedOnce'
  BY DEF ClosingOnLastDay, ReversedOnce, AlreadyReversed, EntryYear

LEMMA JobRef ==
  ASSUME TypeOK, RefJobs, NEW r \in Requests, NEW j, RefOK(j),
         req' = [req EXCEPT ![r] = j], journal' = journal
  PROVE  RefJobs'
  <1> SUFFICES ASSUME NEW q \in Requests PROVE RefOK(req[q])'
    BY DEF RefJobs
  <1>1. req'[q] = j \/ req'[q] = req[q]
    BY DEF TypeOK
  <1>2. RefOK(req'[q])
    BY <1>1 DEF RefJobs
  <1> QED
    BY <1>2 DEF RefOK

LEMMA NoJobRef == RefOK(NoJob)
  BY DEF RefOK, NoJob

LEMMA StartRef ==
  ASSUME TypeOK, RefJobs, NEW r \in Requests, NEW found, NEW j, found => RefOK(j),
         Start(r, found, j)
  PROVE  RefJobs' /\ journal' = journal
  <1>1. journal' = journal
    BY DEF Start, KeepsBooks
  <1>2. CASE found
    BY <1>1, <1>2, JobRef DEF Start
  <1>3. CASE ~ found
    BY <1>1, <1>3 DEF Start, RefJobs, RefOK
  <1> QED
    BY <1>1, <1>2, <1>3

LEMMA GotoRef ==
  ASSUME TypeOK, RefJobs, NEW r \in Requests, NEW s, Goto(r, s), journal' = journal
  PROVE  RefJobs'
  <1> DEFINE job == [req[r] EXCEPT !.at = s]
  <1>1. RefOK(req[r]) /\ req[r] \in Job
    BY DEF RefJobs, TypeOK
  <1>2. /\ job.op = req[r].op /\ job.ref = req[r].ref
        /\ job.period = req[r].period /\ job.amount = req[r].amount
    BY <1>1 DEF Job
  <1>3. RefOK(job)
    BY <1>1, <1>2 DEF RefOK
  <1>4. req' = [req EXCEPT ![r] = job]
    BY DEF Goto
  <1> HIDE DEF job
  <1> QED
    BY <1>3, <1>4, JobRef

LEMMA FinishRef ==
  ASSUME TypeOK, RefJobs, NEW r \in Requests, Finish(r), journal' = journal
  PROVE  RefJobs'
  BY NoJobRef, JobRef DEF Finish

LEMMA ClerkStepRef ==
  ASSUME TypeOK, RefJobs, NEW r \in Clerks, ClerkStep(r)
  PROVE  RefJobs' /\ journal' = journal
  <1> r \in Requests
    BY DEF Requests
  <1>1. ASSUME NEW p \in Periods, NEW a \in Amounts, CreateManualEntry(r, p, a)
        PROVE  RefJobs' /\ journal' = journal
    <2> DEFINE job == [NoJob EXCEPT !.op = "POST", !.at = "posting", !.period = p, !.amount = a]
    <2>1. RefOK(job)
      BY DEF RefOK, NoJob
    <2>2. Start(r, TRUE, job)
      BY <1>1 DEF CreateManualEntry
    <2> HIDE DEF job
    <2> QED
      BY <2>1, <2>2, StartRef
  <1>2. ASSUME NEW i \in 1 .. Len(journal), ReverseManualEntry(r, i)
        PROVE  RefJobs' /\ journal' = journal
    <2> DEFINE job == [NoJob EXCEPT !.op = "REVERSE", !.at = "posting", !.ref = i,
                                    !.period = journal[i].period,
                                    !.amount = - journal[i].amount]
               found == journal[i].kind = "MANUAL" /\ journal[i].status = "POSTED"
    <2>1. journal[i].amount \in Int
      BY EntryType DEF Entry
    <2>2. /\ job.op = "REVERSE" /\ job.ref = i /\ job.period = journal[i].period
          /\ job.amount = - journal[i].amount
      BY DEF NoJob
    <2>3. found => RefOK(job)
      BY <2>1, <2>2 DEF RefOK, NoEntry
    <2>4. Start(r, found, job)
      BY <1>2 DEF ReverseManualEntry
    <2> HIDE DEF job, found
    <2> QED
      BY <2>3, <2>4, StartRef
  <1> QED
    BY <1>1, <1>2 DEF ClerkStep

LEMMA AdminStartRef ==
  ASSUME TypeOK, RefJobs, NEW r \in Admins, AdminStart(r)
  PROVE  RefJobs' /\ journal' = journal
  <1> r \in Requests
    BY DEF Requests
  <1>1. ASSUME NEW p, NEW s, NEW op \in {"CLOSE_PERIOD", "REOPEN_PERIOD"}
        PROVE  RefOK([NoJob EXCEPT !.op = op, !.at = s, !.period = p])
    BY DEF RefOK, NoJob
  <1>2. ASSUME NEW y \in Years, NEW s, NEW op \in {"CLOSE_YEAR", "REOPEN_YEAR"}
        PROVE  RefOK([NoJob EXCEPT !.op = op, !.at = s, !.period = LastPeriod(y)])
    BY PeriodFacts DEF RefOK, NoJob
  <1>3. ASSUME NEW p \in Periods, ClosePeriod(r, p) PROVE RefJobs' /\ journal' = journal
    BY <1>1, <1>3, StartRef DEF ClosePeriod
  <1>4. ASSUME NEW p \in Periods, ReopenPeriod(r, p) PROVE RefJobs' /\ journal' = journal
    BY <1>1, <1>4, StartRef DEF ReopenPeriod
  <1>5. ASSUME NEW y \in Years, CloseFiscalYear(r, y) PROVE RefJobs' /\ journal' = journal
    BY <1>2, <1>5, StartRef DEF CloseFiscalYear
  <1>6. ASSUME NEW y \in Years, ReopenFiscalYear(r, y) PROVE RefJobs' /\ journal' = journal
    BY <1>2, <1>6, StartRef DEF ReopenFiscalYear
  <1> QED
    BY <1>3, <1>4, <1>5, <1>6 DEF AdminStart

LEMMA AdminStepRef ==
  ASSUME TypeOK, RefJobs, ClosingOnLastDay, NEW r \in Admins, AdminStep(r)
  PROVE  RefJobs' /\ journal' = journal
  <1>0. r \in Requests /\ req[r] \in Job /\ RefOK(req[r])
    BY DEF Requests, TypeOK, RefJobs
  <1>1. CASE CheckEarlierPeriods(r)
    BY <1>0, <1>1, GotoRef, FinishRef DEF CheckEarlierPeriods, KeepsBooks
  <1>2. CASE UpdatePeriod(r)
    BY <1>0, <1>2, FinishRef DEF UpdatePeriod
  <1>3. CASE CheckPeriodsClosed(r)
    BY <1>0, <1>3, GotoRef, FinishRef DEF CheckPeriodsClosed, KeepsBooks
  <1>4. CASE CheckEarlierYears(r)
    BY <1>0, <1>4, GotoRef, FinishRef DEF CheckEarlierYears, KeepsBooks
  <1>5. ASSUME NEW carry \in BOOLEAN, ReadBalances(r, carry)
        PROVE  RefJobs' /\ journal' = journal
    <2> DEFINE amount == - resultTo[YearOf(req[r].period)]
               job    == [req[r] EXCEPT !.amount = amount,
                                        !.at = IF carry THEN "posting" ELSE "updating"]
    <2>1. job.op = "CLOSE_YEAR" /\ job.ref = req[r].ref /\ job.period = req[r].period
      BY <1>0, <1>5 DEF ReadBalances, Job
    <2>2. RefOK(job)
      BY <1>0, <1>5, <2>1 DEF ReadBalances, RefOK
    <2>3. req' = [req EXCEPT ![r] = job] /\ journal' = journal
      BY <1>0, <1>5 DEF ReadBalances, KeepsBooks, TypeOK
    <2> HIDE DEF job
    <2> QED
      BY <1>0, <2>2, <2>3, JobRef
  <1>6. CASE CheckLaterYears(r)
    BY <1>0, <1>6, GotoRef, FinishRef DEF CheckLaterYears, KeepsBooks
  <1>7. ASSUME NEW i \in 1 .. Len(journal), FindClosingEntry(r, i)
        PROVE  RefJobs' /\ journal' = journal
    <2> DEFINE job == [req[r] EXCEPT !.ref = i, !.amount = - journal[i].amount,
                                     !.at = "posting"]
    <2>1. /\ job.op = "REOPEN_YEAR" /\ job.ref = i /\ job.period = req[r].period
          /\ job.amount = - journal[i].amount
      BY <1>0, <1>7 DEF FindClosingEntry, Job
    <2>2. /\ journal[i].kind = "CLOSING" /\ YearOf(journal[i].period) = YearOf(req[r].period)
          /\ journal[i].amount \in Int
      BY <1>7, EntryType DEF FindClosingEntry, ClosingEntries, IsClosingEntry, Entry
    <2>3. req[r].period = LastPeriod(YearOf(req[r].period))
      BY <1>0, <1>7 DEF FindClosingEntry, RefOK
    <2>4. journal[i].period = req[r].period
      BY <2>2, <2>3 DEF ClosingOnLastDay, EntryYear
    <2>5. RefOK(job)
      <3>1. job.period = LastPeriod(YearOf(job.period))
        BY <2>1, <2>3
      <3>2. /\ job.ref \in 1 .. Len(journal)
            /\ journal[job.ref].period = job.period
            /\ journal[job.ref].amount = - job.amount
            /\ journal[job.ref].kind = "CLOSING"
        BY <2>1, <2>2, <2>4
      <3> HIDE DEF job
      <3> QED
        BY <2>1, <3>1, <3>2 DEF RefOK
    <2>6. req' = [req EXCEPT ![r] = job] /\ journal' = journal
      BY <1>0, <1>7 DEF FindClosingEntry, KeepsBooks, TypeOK
    <2> HIDE DEF job
    <2> QED
      BY <1>0, <2>5, <2>6, JobRef
  <1>8. CASE FindNoClosingEntry(r)
    BY <1>0, <1>8, GotoRef DEF FindNoClosingEntry, KeepsBooks
  <1>9. CASE UpdateYear(r)
    BY <1>0, <1>9, FinishRef DEF UpdateYear
  <1> QED
    BY <1>1, <1>2, <1>3, <1>4, <1>5, <1>6, <1>7, <1>8, <1>9 DEF AdminStep

LEMMA AllocateRef ==
  ASSUME TypeOK, RefJobs, NEW r \in Requests, AllocateNumber(r)
  PROVE  RefJobs' /\ journal' = journal
  <1> DEFINE job == [req[r] EXCEPT !.at = "writing",
                                   !.number = nextNumber[YearOf(req[r].period)]]
  <1>1. req[r] \in Job /\ RefOK(req[r])
    BY DEF RefJobs, TypeOK
  <1>2. /\ job.op = req[r].op /\ job.ref = req[r].ref
        /\ job.period = req[r].period /\ job.amount = req[r].amount
    BY <1>1 DEF Job
  <1>3. RefOK(job)
    BY <1>1, <1>2 DEF RefOK
  <1>4. req' = [req EXCEPT ![r] = job] /\ journal' = journal
    BY DEF AllocateNumber, KeepsBooks, TypeOK
  <1> HIDE DEF job
  <1> QED
    BY <1>3, <1>4, JobRef

---------------------------------------------------------------------------
(* The commit. *)

\* What JournalBefore leaves of an entry, and what it makes of its status.
LEMMA BeforeFacts ==
  ASSUME TypeOK, RefJobs, NEW r \in Requests, NEW i \in 1 .. Len(journal)
  PROVE  /\ JournalBefore(r)[i].kind = journal[i].kind
         /\ JournalBefore(r)[i].period = journal[i].period
         /\ JournalBefore(r)[i].amount = journal[i].amount
         /\ JournalBefore(r)[i].reverses = journal[i].reverses
         /\ JournalBefore(r)[i].status =
              IF req[r].op = "REVERSE" /\ i = req[r].ref THEN "REVERSED" ELSE journal[i].status
  <1>1. journal[i] \in Entry /\ journal \in Seq(Entry)
    BY EntryType DEF TypeOK
  <1>2. CASE req[r].op = "REVERSE"
    <2>1. JournalBefore(r)[i] =
            IF i = req[r].ref THEN [journal[i] EXCEPT !.status = "REVERSED"] ELSE journal[i]
      BY <1>1, <1>2 DEF JournalBefore
    <2> QED
      BY <1>1, <1>2, <2>1 DEF Entry
  <1>3. CASE req[r].op # "REVERSE"
    BY <1>3 DEF JournalBefore
  <1> QED
    BY <1>2, <1>3

LEMMA CommitShape ==
  ASSUME TypeOK, RowLocks, RefJobs, NEW r \in Requests, CommitEntry(r)
  PROVE  /\ Len(journal) \in Nat /\ Len(journal') = Len(journal) + 1
         /\ \A i \in 1 .. Len(journal) :
              /\ journal'[i].kind = journal[i].kind
              /\ journal'[i].period = journal[i].period
              /\ journal'[i].amount = journal[i].amount
              /\ journal'[i].reverses = journal[i].reverses
              /\ journal'[i].status =
                   IF req[r].op = "REVERSE" /\ i = req[r].ref THEN "REVERSED"
                                                              ELSE journal[i].status
         /\ journal'[Len(journal) + 1] = EntryOf(r)
  <1>1. /\ JournalBefore(r) \in Seq(Entry) /\ Len(JournalBefore(r)) = Len(journal)
        /\ EntryOf(r) \in Entry /\ Len(journal) \in Nat
    BY CommitFacts DEF TypeOK
  <1>2. journal' = Append(JournalBefore(r), EntryOf(r))
    BY DEF CommitEntry
  <1>3. /\ Len(journal') = Len(journal) + 1
        /\ \A i \in 1 .. Len(journal) : journal'[i] = JournalBefore(r)[i]
        /\ journal'[Len(journal) + 1] = EntryOf(r)
    BY <1>1, <1>2
  <1> QED
    BY <1>1, <1>3, BeforeFacts

\* The appended entry, read through what the request knew of the one it reverses.
LEMMA NewEntry ==
  ASSUME TypeOK, RowLocks, RefJobs, NEW r \in Requests, CommitEntry(r)
  PROVE  LET e == EntryOf(r) IN
         /\ e.status = "POSTED" /\ e.reverses = req[r].ref
         /\ e.kind = "CLOSING" => e.period = LastPeriod(YearOf(e.period))
         /\ e.kind = "MANUAL" => e.reverses = NoEntry
         /\ e.reverses # NoEntry =>
              /\ e.reverses \in 1 .. Len(journal)
              /\ journal[e.reverses].period = e.period
              /\ journal[e.reverses].amount = - e.amount
              /\ journal[e.reverses].kind = IF req[r].op = "REVERSE" THEN "MANUAL"
                                                                    ELSE "CLOSING"
  <1>1. RefOK(req[r])
    BY DEF RefJobs
  <1>2. /\ EntryOf(r).status = "POSTED" /\ EntryOf(r).reverses = req[r].ref
        /\ EntryOf(r).period = req[r].period /\ EntryOf(r).amount = req[r].amount
        /\ EntryOf(r).kind = KindOf(req[r].op)
    BY DEF EntryOf
  <1>3. /\ KindOf(req[r].op) = "CLOSING" => req[r].op = "CLOSE_YEAR"
        /\ KindOf(req[r].op) = "MANUAL" => req[r].op = "POST"
    BY DEF KindOf
  <1> QED
    BY <1>1, <1>2, <1>3 DEF RefOK

LEMMA CommitRefJobs ==
  ASSUME TypeOK, RowLocks, RefJobs, NEW r \in Requests, CommitEntry(r)
  PROVE  RefJobs'
  <1> SUFFICES ASSUME NEW q \in Requests PROVE RefOK(req[q])'
    BY DEF RefJobs
  <1>1. req'[q] = NoJob \/ req'[q] = req[q]
    BY DEF CommitEntry, Finish, TypeOK
  <1>2. RefOK(req'[q])
    BY <1>1, NoJobRef DEF RefJobs
  <1>3. CASE req'[q].ref = NoEntry
    BY <1>2, <1>3 DEF RefOK
  <1>4. CASE req'[q].ref # NoEntry
    <2> DEFINE e == req'[q].ref
    <2>1. /\ e \in 1 .. Len(journal) /\ e \in 1 .. Len(journal')
          /\ journal'[e].kind = journal[e].kind /\ journal'[e].period = journal[e].period
          /\ journal'[e].amount = journal[e].amount
      BY <1>2, <1>4, CommitShape DEF RefOK
    <2> QED
      BY <1>2, <1>4, <2>1 DEF RefOK
  <1> QED
    BY <1>3, <1>4

LEMMA CommitClosing ==
  ASSUME TypeOK, RowLocks, RefJobs, ClosingOnLastDay, NEW r \in Requests, CommitEntry(r)
  PROVE  ClosingOnLastDay'
  <1> SUFFICES ASSUME NEW i \in 1 .. Len(journal'), journal'[i].kind = "CLOSING"
               PROVE  journal'[i].period = LastPeriod(YearOf(journal'[i].period))
    BY DEF ClosingOnLastDay, EntryYear
  <1>1. CASE i \in 1 .. Len(journal)
    BY <1>1, CommitShape DEF ClosingOnLastDay, EntryYear
  <1>2. CASE i = Len(journal) + 1
    BY <1>2, CommitShape, NewEntry
  <1> QED
    BY <1>1, <1>2, CommitShape

\* InsertAllowed, the unique reversesId, keeps reversals apart; the request's
\* knowledge of its entry makes the new one mirror it; and the only manual
\* entry whose status moves is the one that gets its reversal.
LEMMA CommitReversed ==
  ASSUME TypeOK, RowLocks, RefJobs, ReversedOnce, NEW r \in Requests, CommitEntry(r)
  PROVE  ReversedOnce'
  <1> DEFINE n == Len(journal)
             e == EntryOf(r)
             J == journal'
  <1>1. /\ n \in Nat /\ Len(J) = n + 1 /\ J[n + 1] = e
        /\ 1 .. Len(J) = 1 .. n \union {n + 1}
    BY CommitShape
  <1>2. \A i \in 1 .. n : /\ J[i].kind = journal[i].kind /\ J[i].period = journal[i].period
                          /\ J[i].amount = journal[i].amount
                          /\ J[i].reverses = journal[i].reverses
    BY CommitShape
  <1>3. \A i \in 1 .. n : J[i].status = IF req[r].op = "REVERSE" /\ i = req[r].ref
                                          THEN "REVERSED" ELSE journal[i].status
    BY CommitShape
  <1>4. /\ e.status = "POSTED" /\ e.reverses = req[r].ref
        /\ e.kind = "MANUAL" => e.reverses = NoEntry
        /\ e.reverses # NoEntry =>
              /\ e.reverses \in 1 .. n
              /\ journal[e.reverses].period = e.period
              /\ journal[e.reverses].amount = - e.amount
              /\ journal[e.reverses].kind = IF req[r].op = "REVERSE" THEN "MANUAL"
                                                                    ELSE "CLOSING"
    BY NewEntry
  <1>5. e.reverses # NoEntry => \A i \in 1 .. n : journal[i].reverses # e.reverses
    BY <1>4 DEF CommitEntry, InsertAllowed, AlreadyReversed
  <1>6. \A i \in 1 .. n : journal[i].reverses \in Nat
    BY EntryType DEF Entry
  <1> HIDE DEF e, J, n
  <1>7. ASSUME NEW i \in 1 .. Len(J), NEW j \in 1 .. Len(J), i # j, J[i].reverses # NoEntry
        PROVE  J[i].reverses # J[j].reverses
    <2>1. CASE i \in 1 .. n /\ j \in 1 .. n
      <3>1. journal[i].reverses # NoEntry => journal[i].reverses # journal[j].reverses
        BY <2>1, <1>7 DEF ReversedOnce, n
      <3> QED
        BY <1>2, <1>7, <2>1, <3>1
    <2>2. CASE i = n + 1 /\ j \in 1 .. n
      BY <1>1, <1>2, <1>5, <1>7, <2>2
    <2>3. CASE i \in 1 .. n /\ j = n + 1
      BY <1>1, <1>2, <1>5, <1>7, <2>3
    <2> QED
      BY <1>1, <1>7, <2>1, <2>2, <2>3
  <1>8. ASSUME NEW j \in 1 .. Len(J), J[j].reverses # NoEntry
        PROVE  /\ J[j].reverses < j
               /\ J[J[j].reverses].period = J[j].period
               /\ J[J[j].reverses].amount = - J[j].amount
    <2>1. CASE j \in 1 .. n
      <3> DEFINE i == journal[j].reverses
      <3>1. i # NoEntry /\ i \in Nat /\ J[j].reverses = i
        BY <1>2, <1>6, <1>8, <2>1
      <3>2. i < j /\ journal[i].period = journal[j].period
            /\ journal[i].amount = - journal[j].amount
        BY <2>1, <3>1 DEF ReversedOnce, n
      <3>3. i \in 1 .. n
        BY <1>1, <2>1, <3>1, <3>2 DEF NoEntry
      <3> QED
        BY <1>2, <2>1, <3>1, <3>2, <3>3
    <2>2. CASE j = n + 1
      <3>1. J[j] = e /\ e.reverses \in 1 .. n /\ e.reverses # NoEntry
        BY <1>1, <1>4, <1>8, <2>2
      <3> QED
        BY <1>1, <1>2, <1>4, <2>2, <3>1
    <2> QED
      BY <1>1, <2>1, <2>2
  <1>9. ASSUME NEW i \in 1 .. Len(J), J[i].kind = "MANUAL"
        PROVE  J[i].status = "REVERSED" <=> \E k \in 1 .. Len(J) : J[k].reverses = i
    <2>1. CASE i \in 1 .. n
      <3>1. journal[i].status = "REVERSED" <=> \E k \in 1 .. n : journal[k].reverses = i
        BY <1>2, <1>9, <2>1 DEF ReversedOnce, AlreadyReversed, n
      <3>2. (\E k \in 1 .. Len(J) : J[k].reverses = i)
              <=> (\E k \in 1 .. n : journal[k].reverses = i) \/ e.reverses = i
        BY <1>1, <1>2
      <3>3. i # NoEntry /\ journal[i].kind = "MANUAL"
        BY <1>1, <1>2, <1>9, <2>1 DEF NoEntry
      <3>4. e.reverses = i <=> req[r].op = "REVERSE" /\ i = req[r].ref
        BY <1>4, <3>3
      <3> QED
        BY <1>3, <2>1, <3>1, <3>2, <3>4
    <2>2. CASE i = n + 1
      <3>1. J[i].status # "REVERSED"
        BY <1>1, <1>4, <2>2
      <3>2. ASSUME NEW k \in 1 .. Len(J) PROVE J[k].reverses # i
        <4>1. k \in 1 .. Len(J) /\ i \in Nat /\ k <= i
          BY <1>1, <2>2
        <4>2. J[k].reverses = NoEntry \/ J[k].reverses < k
          BY <1>8
        <4> QED
          BY <1>1, <2>2, <4>1, <4>2 DEF NoEntry
      <3> QED
        BY <3>1, <3>2
    <2> QED
      BY <1>1, <2>1, <2>2
  <1> QED
    BY <1>7, <1>8, <1>9 DEF ReversedOnce, AlreadyReversed, J

---------------------------------------------------------------------------
LEMMA ReversalsInitially == Init => ReversalInv
  BY NoJobRef DEF Init, ReversalInv, RefJobs, RefOK, NoJob, ClosingOnLastDay, ReversedOnce

LEMMA ReversalsInductive == IInv /\ ReversalInv /\ [Next]_vars => ReversalInv'
  <1> SUFFICES ASSUME TypeOK, RowLocks, RefJobs, ClosingOnLastDay, ReversedOnce, [Next]_vars
               PROVE  ReversalInv'
    BY DEF IInv, ReversalInv
  <1>1. ASSUME RefJobs', journal' = journal PROVE ReversalInv'
    BY <1>1, SameJournal DEF ReversalInv
  <1>2. ASSUME NEW r \in Clerks, ClerkStep(r) PROVE ReversalInv'
    BY <1>1, <1>2, ClerkStepRef
  <1>3. ASSUME NEW r \in Admins, AdminStart(r) \/ AdminStep(r) PROVE ReversalInv'
    BY <1>1, <1>3, AdminStartRef, AdminStepRef
  <1>4. ASSUME NEW r \in Requests, ResolvePeriod(r) PROVE ReversalInv'
    BY <1>1, <1>4, GotoRef, FinishRef DEF ResolvePeriod, KeepsBooks
  <1>5. ASSUME NEW r \in Requests, AllocateNumber(r) PROVE ReversalInv'
    BY <1>1, <1>5, AllocateRef
  <1>6. ASSUME NEW r \in Requests, CommitEntry(r) PROVE ReversalInv'
    BY <1>6, CommitRefJobs, CommitClosing, CommitReversed DEF ReversalInv
  <1>7. ASSUME NEW r \in Requests, RollBack(r) PROVE ReversalInv'
    BY <1>1, <1>7, FinishRef DEF RollBack, KeepsBooks
  <1>8. CASE UNCHANGED vars
    BY <1>1, <1>8 DEF vars, RefJobs, RefOK
  <1> QED
    BY <1>2, <1>3, <1>4, <1>5, <1>6, <1>7, <1>8 DEF Next, Posting

\* However many users reverse and reopen at once, an entry is reversed at most
\* once, its reversal lies in its period and takes exactly its amount back, and
\* a manual entry reads REVERSED if and only if it has its reversal
\* (reversePostedEntry, reopenFiscalYear, the unique reversesId).
THEOREM ReversalsPairOff == Spec => []ReversedOnce
  BY Initially, Inductive, ReversalsInitially, ReversalsInductive, PTL
     DEF Spec, ReversalInv

---------------------------------------------------------------------------
(***************************************************************************)
(* The posting engine implements the append-only ledger of Ledger.tla: a   *)
(* step of Books is one entry in the book of one year, or nothing an       *)
(* auditor can see.                                                        *)
(***************************************************************************)

\* A number identifies an entry of a year; NumbersGapFree says so of the
\* journal before a step and of the journal after it.
Place(J, y, n) == CHOOSE i \in 1 .. Len(J) : YearOf(J[i].period) = y /\ J[i].number = n

Ordered(J) ==
    \A i, j \in 1 .. Len(J) :
        i < j /\ YearOf(J[i].period) = YearOf(J[j].period) => J[i].number < J[j].number

LEMMA PlaceIs ==
  ASSUME NEW J \in Seq(Entry), Ordered(J), NEW i \in 1 .. Len(J)
  PROVE  Place(J, YearOf(J[i].period), J[i].number) = i
  <1> DEFINE y == YearOf(J[i].period)
             n == J[i].number
             P(k) == YearOf(J[k].period) = y /\ J[k].number = n
             c == CHOOSE k \in 1 .. Len(J) : P(k)
  <1>1. c \in 1 .. Len(J) /\ P(c)
    <2>1. P(i)
      OBVIOUS
    <2> DEFINE S == 1 .. Len(J)
    <2>2. i \in S
      OBVIOUS
    <2>3. (CHOOSE k \in S : P(k)) \in S /\ P(CHOOSE k \in S : P(k))
      <3> HIDE DEF P, S
      <3> QED
        BY <2>1, <2>2, Zenon
    <2> QED
      BY <2>3
  <1>2. J[i] \in Entry /\ Len(J) \in Nat
    OBVIOUS
  <1>3. n \in Nat
    BY <1>2 DEF Entry
  <1>4. c = i
    <2> HIDE DEF c
    <2>1. ~ (c < i) /\ ~ (i < c)
      BY <1>1, <1>3 DEF Ordered
    <2> QED
      BY <1>1, <1>2, <2>1
  <1> QED
    BY <1>4 DEF Place

LEMMA JournalOrdered == TypeOK /\ NumbersGapFree => Ordered(journal)
  <1> SUFFICES ASSUME TypeOK, NumbersGapFree, NEW i \in 1 .. Len(journal),
                      NEW j \in 1 .. Len(journal), i < j, EntryYear(i) = EntryYear(j)
               PROVE  journal[i].number < journal[j].number
    BY DEF Ordered, EntryYear
  <1>1. EntryYear(i) \in Years
    BY EntryType, PeriodFacts DEF Entry, EntryYear
  <1> QED
    BY <1>1 DEF NumbersGapFree

LEMMA NewJournalOrdered ==
  ASSUME TypeOK', NumbersGapFree' PROVE Ordered(journal')
  <1>1. (TypeOK /\ NumbersGapFree => Ordered(journal))'
    BY JournalOrdered, PTL
  <1>2. Ordered(journal)' = Ordered(journal')
    BY DEF Ordered
  <1> QED
    BY <1>1, <1>2

---------------------------------------------------------------------------
(* What a commit does to the book. *)

LEMMA CommitNumbersKept ==
  ASSUME TypeOK, RowLocks, NEW r \in Requests, CommitEntry(r)
  PROVE  LET y == YearOf(req[r].period) IN
         /\ \A i \in 1 .. Len(journal) : journal'[i].number = journal[i].number
         /\ journal'[Len(journal) + 1].number = nextNumber[y]
         /\ \A z \in Years : nextNumber'[z] = IF z = y THEN nextNumber[z] + 1
                                                       ELSE nextNumber[z]
  <1> DEFINE y == YearOf(req[r].period)
  <1>1. /\ JournalBefore(r) \in Seq(Entry) /\ Len(JournalBefore(r)) = Len(journal)
        /\ \A i \in 1 .. Len(journal) : JournalBefore(r)[i].number = journal[i].number
        /\ req[r].number = nextNumber[y] /\ Len(journal) \in Nat /\ y \in Years
    BY CommitFacts DEF TypeOK
  <1>2. journal' = Append(JournalBefore(r), EntryOf(r))
    BY DEF CommitEntry
  <1>3. EntryOf(r).number = nextNumber[y] /\ EntryOf(r) \in Entry
    BY <1>1, CommitFacts DEF EntryOf
  <1>4. nextNumber' = [nextNumber EXCEPT ![y] = nextNumber[y] + 1]
    BY <1>1 DEF CommitEntry
  <1>5. nextNumber \in [Years -> Nat \ {0}]
    BY DEF TypeOK
  <1>6. /\ \A i \in 1 .. Len(journal) : journal'[i] = JournalBefore(r)[i]
        /\ journal'[Len(journal) + 1] = EntryOf(r)
    BY <1>1, <1>2, <1>3
  <1> QED
    BY <1>1, <1>3, <1>4, <1>5, <1>6

\* The assumptions of the lemmas that follow: a commit from a state that
\* satisfies the invariants proved of Books, into one that does.
CommitFrom(r) == /\ IInv /\ TypeOK' /\ NumbersGapFree'
                 /\ RefJobs /\ ReversedOnce /\ CommitEntry(r)

LEMMA CommitKeeps ==
  ASSUME NEW r \in Requests, CommitFrom(r)
  PROVE  /\ Len(journal) \in Nat /\ Len(journal') = Len(journal) + 1
         /\ \A j \in 1 .. Len(journal) :
              /\ journal'[j].period = journal[j].period
              /\ journal'[j].amount = journal[j].amount
              /\ journal'[j].reverses = journal[j].reverses
              /\ journal'[j].number = journal[j].number
         /\ journal' \in Seq(Entry) /\ Ordered(journal')
  BY CommitShape, CommitNumbersKept, NewJournalOrdered DEF CommitFrom, IInv, TypeOK

\* The book of a journal J: what Book says of this state's and of the next one's.
ShownAt(J, y, n) ==
    LET i == Place(J, y, n) IN
    [amount    |-> J[i].amount,
     takesBack |-> IF J[i].reverses = NoEntry THEN 0 ELSE J[J[i].reverses].number]

LEMMA BookIs ==
    /\ Book = [y \in Years |-> [n \in 1 .. nextNumber[y] - 1 |-> ShownAt(journal, y, n)]]
    /\ Book' = [y \in Years |-> [n \in 1 .. nextNumber'[y] - 1 |-> ShownAt(journal', y, n)]]
  BY DEF Book, Shown, NumberTakenBack, Numbered, EntryYear, ShownAt, Place

\* The entries a year had are shown as before.
LEMMA OldEntriesShown ==
  ASSUME NEW r \in Requests, CommitFrom(r),
         NEW y \in Years, NEW n \in 1 .. nextNumber[y] - 1
  PROVE  ShownAt(journal', y, n) = ShownAt(journal, y, n)
  <1>0. TypeOK /\ RowLocks /\ NumbersGapFree /\ ReversedOnce
    BY DEF CommitFrom, IInv
  <1>1. PICK i \in 1 .. Len(journal) : EntryYear(i) = y /\ journal[i].number = n
    BY <1>0 DEF NumbersGapFree
  <1>2. Place(journal, y, n) = i
    BY <1>0, <1>1, PlaceIs, JournalOrdered DEF EntryYear, TypeOK
  <1>3. i \in 1 .. Len(journal') /\ YearOf(journal'[i].period) = y /\ journal'[i].number = n
    BY <1>1, CommitKeeps DEF EntryYear
  <1>4. Place(journal', y, n) = i
    BY <1>3, CommitKeeps, PlaceIs
  <1> DEFINE k == journal[i].reverses
  <1>5. k # NoEntry => k \in 1 .. Len(journal)
    <2>1. journal[i].reverses \in Nat
      BY <1>0, <1>1, EntryType DEF Entry
    <2>2. k # NoEntry => k < i
      BY <1>1, <1>0 DEF ReversedOnce
    <2> QED
      BY <1>1, <2>1, <2>2 DEF NoEntry
  <1> QED
    BY <1>1, <1>2, <1>4, <1>5, CommitKeeps DEF ShownAt

\* The entry the commit adds is shown at the end of its year.
LEMMA NewEntryShown ==
  ASSUME NEW r \in Requests, CommitFrom(r)
  PROVE  LET y == YearOf(req[r].period) IN
         ShownAt(journal', y, nextNumber[y]) =
           [amount    |-> req[r].amount,
            takesBack |-> IF req[r].ref = NoEntry THEN 0 ELSE journal[req[r].ref].number]
  <1> DEFINE y == YearOf(req[r].period)
             i == Len(journal) + 1
  <1>1. /\ journal'[i] = EntryOf(r) /\ i \in 1 .. Len(journal')
        /\ journal'[i].number = nextNumber[y]
    BY CommitShape, CommitNumbersKept, CommitKeeps DEF CommitFrom, IInv
  <1>2. /\ journal'[i].period = req[r].period /\ journal'[i].amount = req[r].amount
        /\ journal'[i].reverses = req[r].ref
    BY <1>1 DEF EntryOf
  <1>3. Place(journal', y, nextNumber[y]) = i
    BY <1>1, <1>2, CommitKeeps, PlaceIs
  <1>4. req[r].ref # NoEntry => req[r].ref \in 1 .. Len(journal)
    BY DEF CommitFrom, RefJobs, RefOK
  <1> QED
    BY <1>2, <1>3, <1>4, CommitKeeps DEF ShownAt

\* So the book of one year grows by one entry and the others stay.
LEMMA CommitGrows ==
  ASSUME NEW r \in Requests, CommitFrom(r)
  PROVE  LET y == YearOf(req[r].period) IN
         /\ y \in Years
         /\ Abstract!Grows(y)
         /\ Abstract!Newest(y) =
              [amount    |-> req[r].amount,
               takesBack |-> IF req[r].ref = NoEntry THEN 0 ELSE journal[req[r].ref].number]
         /\ \A n \in 1 .. nextNumber[y] - 1 : Book[y][n] = ShownAt(journal, y, n)
         /\ Len(Book[y]) = nextNumber[y] - 1
  <1> DEFINE y == YearOf(req[r].period)
             e == [amount    |-> req[r].amount,
                   takesBack |-> IF req[r].ref = NoEntry THEN 0 ELSE journal[req[r].ref].number]
  <1>1. /\ y \in Years /\ nextNumber \in [Years -> Nat \ {0}]
        /\ \A z \in Years : nextNumber'[z] = IF z = y THEN nextNumber[z] + 1 ELSE nextNumber[z]
    BY CommitFacts, CommitNumbersKept DEF CommitFrom, IInv, TypeOK
  <1>2. ASSUME NEW z \in Years PROVE Book'[z] = IF z = y THEN Append(Book[z], e) ELSE Book[z]
    <2>1. Book[z] = [n \in 1 .. nextNumber[z] - 1 |-> ShownAt(journal, z, n)]
      BY BookIs
    <2>2. Book'[z] = [n \in 1 .. nextNumber'[z] - 1 |-> ShownAt(journal', z, n)]
      BY BookIs
    <2>3. \A n \in 1 .. nextNumber[z] - 1 : ShownAt(journal', z, n) = ShownAt(journal, z, n)
      BY OldEntriesShown
    <2>4. CASE z # y
      BY <1>1, <2>1, <2>2, <2>3, <2>4
    <2>5. CASE z = y
      <3> DEFINE N == nextNumber[z] - 1
                 old == [n \in 1 .. N |-> ShownAt(journal, z, n)]
      <3>1. N \in Nat /\ nextNumber'[z] - 1 = N + 1
        BY <1>1, <2>5
      <3>2. ShownAt(journal', z, N + 1) = e
        BY <1>1, <2>5, NewEntryShown
      <3>3. Append(old, e) = [n \in 1 .. N + 1 |-> IF n = N + 1 THEN e ELSE old[n]]
        <4>1. old = [n \in 1 .. N |-> old[n]]
          OBVIOUS
        <4> HIDE DEF old, N
        <4>2. old \in Seq({old[n] : n \in 1 .. N}) /\ Len(old) = N
          BY <3>1, <4>1
        <4> QED
          BY <3>1, <4>1, <4>2
      <3>4. \A n \in 1 .. N + 1 : ShownAt(journal', z, n) = IF n = N + 1 THEN e ELSE old[n]
        BY <2>3, <3>1, <3>2
      <3>5. Book'[z] = [n \in 1 .. N + 1 |-> ShownAt(journal', z, n)]
        BY <2>2, <3>1
      <3>6. Book'[z] = [n \in 1 .. N + 1 |-> IF n = N + 1 THEN e ELSE old[n]]
        <4> HIDE DEF N, old, e
        <4> QED
          BY <3>4, <3>5, Zenon
      <3>7. Book'[z] = Append(Book[z], e)
        BY <2>1, <3>3, <3>6
      <3> QED
        BY <2>5, <3>7
    <2> QED
      BY <2>4, <2>5
  <1>3. Len(Book[y]) = nextNumber[y] - 1 /\ Len(Book'[y]) = nextNumber[y]
    <2>1. /\ Book[y] = [n \in 1 .. nextNumber[y] - 1 |-> ShownAt(journal, y, n)]
          /\ Book'[y] = [n \in 1 .. nextNumber[y] |-> ShownAt(journal', y, n)]
      BY <1>1, BookIs
    <2>2. nextNumber[y] \in Nat /\ nextNumber[y] - 1 \in Nat
      BY <1>1
    <2> QED
      BY <2>1, <2>2
  <1>4. Book'[y][nextNumber[y]] = e
    <2>1. nextNumber[y] \in 1 .. nextNumber'[y] - 1
      BY <1>1
    <2>2. Book'[y][nextNumber[y]] = ShownAt(journal', y, nextNumber[y])
      BY <1>1, <2>1, BookIs
    <2> QED
      BY <2>2, NewEntryShown
  <1>5. Abstract!Newest(y) = e
    BY <1>3, <1>4 DEF Abstract!Newest
  <1>6. Book' = [Book EXCEPT ![y] = Append(Book[y], e)]
    <2>1. Book' = [z \in Years |-> Book'[z]] /\ Book = [z \in Years |-> Book[z]]
      BY BookIs
    <2> QED
      BY <1>1, <1>2, <2>1
  <1>7. Abstract!Grows(y)
    BY <1>1, <1>3, <1>5, <1>6 DEF Abstract!Grows
  <1> QED
    BY <1>1, <1>3, <1>5, <1>7, BookIs

LEMMA CommitImplements ==
  ASSUME NEW r \in Requests, CommitFrom(r)
  PROVE  Abstract!Next
  <1> DEFINE y == YearOf(req[r].period)
             k == req[r].ref
  <1>0. TypeOK /\ NumbersGapFree /\ ReversedOnce
    BY DEF CommitFrom, IInv
  <1>1. CASE k = NoEntry
    <2>1. Abstract!Newest(y).takesBack = 0
      <3>1. Abstract!Newest(y) = [amount |-> req[r].amount, takesBack |-> 0]
        BY <1>1, CommitGrows
      <3> HIDE DEF y
      <3> QED
        BY <3>1
    <2> QED
      BY <2>1, CommitGrows DEF Abstract!Next, Abstract!Post, Abstract!None
  <1>2. CASE k # NoEntry
    <2>1. /\ k \in 1 .. Len(journal) /\ journal[k].period = req[r].period
          /\ journal[k].amount = - req[r].amount /\ req[r].amount \in Int
      BY <1>0, <1>2 DEF CommitFrom, RefJobs, RefOK, TypeOK, Job
    <2> DEFINE n == journal[k].number
    <2>2. /\ y \in Years /\ EntryYear(k) = y /\ n \in Nat \ {0}
          /\ n < nextNumber[y] /\ nextNumber[y] \in Nat
      BY <1>0, <2>1, EntryType, CommitGrows DEF EntryYear, Entry, NumbersGapFree, TypeOK
    <2>3. n \in 1 .. nextNumber[y] - 1
      BY <2>2
    <2>4. Place(journal, y, n) = k
      BY <1>0, <2>1, <2>2, PlaceIs, JournalOrdered DEF EntryYear, TypeOK
    <2>5. Book[y][n].amount = journal[k].amount
      <3>1. Book[y][n] = ShownAt(journal, y, n)
        BY <2>3, CommitGrows
      <3> QED
        BY <2>4, <3>1 DEF ShownAt
    <2>6. Abstract!Newest(y) = [amount |-> - Book[y][n].amount, takesBack |-> n]
      <3>1. - journal[k].amount = req[r].amount
        BY <2>1
      <3>2. Abstract!Newest(y) = [amount |-> req[r].amount, takesBack |-> n]
        BY <1>2, CommitGrows
      <3> QED
        BY <2>5, <3>1, <3>2
    <2>7. ~ Abstract!TakenBack(y, n)
      <3> SUFFICES ASSUME NEW m \in 1 .. Len(Book[y]), Book[y][m].takesBack = n
                   PROVE  FALSE
        BY DEF Abstract!TakenBack
      <3>1. m \in 1 .. nextNumber[y] - 1 /\ Book[y][m] = ShownAt(journal, y, m)
        BY CommitGrows
      <3>2. PICK i \in 1 .. Len(journal) : EntryYear(i) = y /\ journal[i].number = m
        BY <1>0, <2>2, <3>1 DEF NumbersGapFree
      <3>3. Place(journal, y, m) = i
        BY <1>0, <3>2, PlaceIs, JournalOrdered DEF EntryYear, TypeOK
      <3> DEFINE j == journal[i].reverses
      <3>4. n = IF j = NoEntry THEN 0 ELSE journal[j].number
        BY <3>1, <3>3 DEF ShownAt
      <3>5. j # NoEntry /\ journal[j].number = n
        BY <2>2, <3>4
      <3>6. j \in Nat /\ i \in Nat
        BY <1>0, <3>2, EntryType DEF Entry
      <3>7. j < i /\ journal[j].period = journal[i].period
        BY <1>0, <3>2, <3>5 DEF ReversedOnce
      <3>8. j \in 1 .. Len(journal)
        BY <3>2, <3>5, <3>6, <3>7 DEF NoEntry
      <3>9. YearOf(journal[j].period) = y
        BY <3>2, <3>7 DEF EntryYear
      <3>10. Place(journal, y, n) = j
        BY <1>0, <3>5, <3>8, <3>9, PlaceIs, JournalOrdered DEF TypeOK
      <3>11. j = k
        BY <2>4, <3>10
      <3>12. InsertAllowed(r)
        BY DEF CommitFrom, CommitEntry
      <3> QED
        BY <1>2, <3>2, <3>11, <3>12 DEF InsertAllowed, AlreadyReversed
    <2>8. n \in 1 .. Len(Book[y])
      BY <2>3, CommitGrows
    <2> QED
      BY <2>2, <2>6, <2>7, <2>8, CommitGrows DEF Abstract!Next, Abstract!TakeBack
  <1> QED
    BY <1>1, <1>2

---------------------------------------------------------------------------
(* Every other step leaves the journal and the numbers alone. *)

LEMMA SameBook == UNCHANGED <<journal, nextNumber>> => Book' = Book
  BY BookIs

LEMMA InitImplements == Init => Abstract!Init
  <1> SUFFICES ASSUME Init PROVE Book = [y \in Years |-> << >>]
    BY DEF Abstract!Init
  <1>1. \A y \in Years : nextNumber[y] - 1 = 0
    BY DEF Init
  <1>2. \A y \in Years : [n \in 1 .. nextNumber[y] - 1 |-> ShownAt(journal, y, n)] = << >>
    BY <1>1
  <1> QED
    BY <1>2, BookIs

LEMMA StepImplements ==
  IInv /\ ReversalInv /\ [Next]_vars /\ IInv' => [Abstract!Next]_Book
  <1> SUFFICES ASSUME IInv, ReversalInv, [Next]_vars, IInv' PROVE [Abstract!Next]_Book
    OBVIOUS
  <1>0. TypeOK /\ RefJobs
    BY DEF IInv, ReversalInv
  <1>1. ASSUME UNCHANGED <<journal, nextNumber>> PROVE Book' = Book
    BY <1>1, SameBook
  <1>2. ASSUME NEW r \in Clerks, ClerkStep(r) PROVE Book' = Book
    BY <1>1, <1>2 DEF ClerkStep, CreateManualEntry, ReverseManualEntry, Start, KeepsBooks
  <1>3. ASSUME NEW r \in Admins, AdminStart(r) \/ AdminStep(r) PROVE Book' = Book
    <2>1. CASE AdminStart(r)
      BY <1>1, <2>1 DEF AdminStart, ClosePeriod, ReopenPeriod, CloseFiscalYear,
                        ReopenFiscalYear, Start, KeepsBooks
    <2>2. CASE AdminStep(r)
      BY <1>1, <2>2 DEF AdminStep, CheckEarlierPeriods, UpdatePeriod, CheckPeriodsClosed,
                        CheckEarlierYears, ReadBalances, CheckLaterYears, FindClosingEntry,
                        FindNoClosingEntry, UpdateYear, KeepsBooks
    <2> QED
      BY <1>3, <2>1, <2>2
  <1>4. ASSUME NEW r \in Requests, ResolvePeriod(r) \/ AllocateNumber(r) PROVE Book' = Book
    BY <1>1, <1>4 DEF ResolvePeriod, AllocateNumber, KeepsBooks
  <1>5. ASSUME NEW r \in Requests, CommitEntry(r) PROVE Abstract!Next
    BY <1>5, CommitImplements DEF CommitFrom, IInv, ReversalInv
  <1>6. ASSUME NEW r \in Requests, RollBack(r) PROVE Book' = Book
    BY <1>1, <1>6 DEF RollBack, KeepsBooks
  <1>7. CASE UNCHANGED vars
    BY <1>1, <1>7 DEF vars
  <1> QED
    BY <1>2, <1>3, <1>4, <1>5, <1>6, <1>7 DEF Next, Posting

\* Whatever the interleaving and the rollbacks, an auditor reading the entries
\* by year and number sees an append-only book, numbered without a gap, in which
\* every correction is a later entry of the same year and taken back once
\* (postJournalEntry, reversePostedEntry, closeFiscalYear, reopenFiscalYear).
THEOREM EngineImplementsLedger == Spec => ImplementsLedger
  <1>1. Spec => [](IInv /\ ReversalInv)
    BY Initially, Inductive, ReversalsInitially, ReversalsInductive, PTL DEF Spec
  <1>2. Spec => Abstract!Init /\ [][Abstract!Next]_Book
    BY <1>1, InitImplements, StepImplements, PTL DEF Spec
  <1> QED
    BY <1>2 DEF ImplementsLedger, Abstract!Spec


---------------------------------------------------------------------------
(***************************************************************************)
(* What a closed year keeps.  The code checks its neighbours in requests   *)
(* of their own and writes later: Checked says what a request has found    *)
(* out and that it is still so.  It stays so as long as no two requests    *)
(* change periods or years at once.                                        *)
(***************************************************************************)

OfYears == {"CLOSE_PERIOD", "REOPEN_PERIOD", "CLOSE_YEAR", "REOPEN_YEAR"}
Writes  == {"posting", "numbering", "writing"}

\* What an administrator's request has checked and relies on when it writes.
PeriodsChecked(j) ==
    /\ j.op \in {"CLOSE_PERIOD", "REOPEN_PERIOD"} => j.at \in {"ordering", "updating"}
    /\ j.op = "REOPEN_PERIOD" => ~ closed[YearOf(j.period)]
CloseChecked(j) ==
    LET y == YearOf(j.period) IN
    j.op = "CLOSE_YEAR" =>
        /\ ~ closed[y]
        /\ j.at # "checking" => EveryPeriodClosed(y)
        /\ j.at \in Writes \union {"balancing", "updating"} => \A z \in Years : z < y => closed[z]
ReopenChecked(j) ==
    LET y == YearOf(j.period) IN
    j.op = "REOPEN_YEAR" =>
        /\ closed[y]
        /\ j.at # "ordering" => NoLaterYearClosed(y)
        /\ j.at = "updating" => ClosingEntries(y) = {}
        /\ j.at \in Writes => j.ref \in ClosingEntries(y)
Runs(j) == j.op = "NONE" <=> j.at = "idle"
Checked(j) == Runs(j) /\ PeriodsChecked(j) /\ CloseChecked(j) /\ ReopenChecked(j)
YearsInv == ClosedYearsStand /\ \A r \in Requests : Checked(req[r])


LEMMA CheckedKept ==
  ASSUME UNCHANGED <<periodStatus, closed, journal>>, NEW j
  PROVE  Checked(j)' = Checked(j)
  BY DEF Checked, Runs, PeriodsChecked, CloseChecked, ReopenChecked, EveryPeriodClosed,
         NoLaterYearClosed, ClosingEntries, IsClosingEntry

LEMMA StandKept ==
  ASSUME ClosedYearsStand, UNCHANGED <<periodStatus, closed, journal>>
  PROVE  ClosedYearsStand'
  BY DEF ClosedYearsStand, ClosedYearsInOrder, ClosedYearPeriodsClosed, EveryPeriodClosed,
         SweptOnce, Standing, ClosingEntries, IsClosingEntry, AlreadyReversed

\* A step that writes nothing, by a request that has checked what it goes on with.
LEMMA GoesOn ==
  ASSUME TypeOK, YearsInv, NEW r \in Requests, NEW j, Checked(j),
         req' = [req EXCEPT ![r] = j], UNCHANGED <<periodStatus, closed, journal>>
  PROVE  YearsInv'
  <1>1. ASSUME NEW q \in Requests PROVE Checked(req[q])'
    <2>1. PICK k : k = req'[q]
      OBVIOUS
    <2>2. k = j \/ k = req[q]
      BY <2>1 DEF TypeOK
    <2>3. Checked(k)'
      BY <2>2, CheckedKept DEF YearsInv
    <2> QED
      BY <2>1, <2>3
  <1> QED
    BY <1>1, StandKept DEF YearsInv

LEMMA NoJobChecked == Checked(NoJob)
  BY DEF NoJob, Checked, Runs, PeriodsChecked, CloseChecked, ReopenChecked

LEMMA StartChecked ==
  ASSUME TypeOK, YearsInv, NEW r \in Requests, NEW found, NEW j, found => Checked(j),
         Start(r, found, j)
  PROVE  YearsInv'
  <1>1. CASE found
    BY <1>1, GoesOn DEF Start, KeepsBooks
  <1>2. CASE ~ found
    <2>1. req' = [req EXCEPT ![r] = req[r]] /\ Checked(req[r])
      BY <1>2 DEF Start, TypeOK, YearsInv
    <2> QED
      BY <2>1, GoesOn DEF Start, KeepsBooks
  <1> QED
    BY <1>1, <1>2

LEMMA FinishChecked ==
  ASSUME TypeOK, YearsInv, NEW r \in Requests, Finish(r),
         UNCHANGED <<periodStatus, closed, journal>>
  PROVE  YearsInv'
  BY NoJobChecked, GoesOn DEF Finish

\* What moving on to a step leaves of a request.
LEMMA AtStep ==
  ASSUME TypeOK, NEW r \in Requests, NEW s
  PROVE  LET job == [req[r] EXCEPT !.at = s] IN
         /\ job.op = req[r].op /\ job.period = req[r].period /\ job.ref = req[r].ref
         /\ job.amount = req[r].amount /\ job.at = s
  <1>1. req[r] \in Job
    BY DEF TypeOK
  <1> QED
    BY <1>1 DEF Job

LEMMA GotoChecked ==
  ASSUME TypeOK, YearsInv, NEW r \in Requests, NEW s, Goto(r, s),
         Checked([req[r] EXCEPT !.at = s]), UNCHANGED <<periodStatus, closed, journal>>
  PROVE  YearsInv'
  BY GoesOn DEF Goto

LEMMA ClerkStepChecked ==
  ASSUME TypeOK, YearsInv, NEW r \in Clerks, ClerkStep(r)
  PROVE  YearsInv'
  <1> r \in Requests
    BY DEF Requests
  <1>1. ASSUME NEW p \in Periods, NEW a \in Amounts, CreateManualEntry(r, p, a)
        PROVE  YearsInv'
    <2> DEFINE job == [NoJob EXCEPT !.op = "POST", !.at = "posting", !.period = p, !.amount = a]
    <2>1. job.op = "POST" /\ job.at = "posting"
      BY DEF NoJob
    <2>2. Start(r, TRUE, job)
      BY <1>1 DEF CreateManualEntry
    <2> HIDE DEF job
    <2>3. Checked(job)
      BY <2>1 DEF Checked, Runs, PeriodsChecked, CloseChecked, ReopenChecked
    <2> QED
      BY <2>2, <2>3, StartChecked
  <1>2. ASSUME NEW i \in 1 .. Len(journal), ReverseManualEntry(r, i)
        PROVE  YearsInv'
    <2> DEFINE job == [NoJob EXCEPT !.op = "REVERSE", !.at = "posting", !.ref = i,
                                    !.period = journal[i].period,
                                    !.amount = - journal[i].amount]
               found == journal[i].kind = "MANUAL" /\ journal[i].status = "POSTED"
    <2>1. job.op = "REVERSE" /\ job.at = "posting"
      BY DEF NoJob
    <2>2. Start(r, found, job)
      BY <1>2 DEF ReverseManualEntry
    <2> HIDE DEF job, found
    <2>3. Checked(job)
      BY <2>1 DEF Checked, Runs, PeriodsChecked, CloseChecked, ReopenChecked
    <2> QED
      BY <2>2, <2>3, StartChecked
  <1> QED
    BY <1>1, <1>2 DEF ClerkStep

LEMMA AdminStartChecked ==
  ASSUME TypeOK, YearsInv, NEW r \in Admins, AdminStart(r)
  PROVE  YearsInv'
  <1> r \in Requests
    BY DEF Requests
  <1> DEFINE job(op, s, p) == [NoJob EXCEPT !.op = op, !.at = s, !.period = p]
  <1>1. \A op, s, p : job(op, s, p).op = op /\ job(op, s, p).at = s /\ job(op, s, p).period = p
    BY DEF NoJob
  <1>2. ASSUME NEW p \in Periods, ClosePeriod(r, p) PROVE YearsInv'
    <2>1. Start(r, periodStatus[p] = "OPEN", job("CLOSE_PERIOD", "ordering", p))
      BY <1>2 DEF ClosePeriod
    <2> HIDE DEF job
    <2>2. Checked(job("CLOSE_PERIOD", "ordering", p))
      BY <1>1 DEF Checked, Runs, PeriodsChecked, CloseChecked, ReopenChecked
    <2> QED
      BY <2>1, <2>2, StartChecked
  <1>3. ASSUME NEW p \in Periods, ReopenPeriod(r, p) PROVE YearsInv'
    <2> DEFINE found == periodStatus[p] = "CLOSED" /\ ReopenPeriodAllowed(p)
    <2>1. Start(r, found, job("REOPEN_PERIOD", "updating", p))
      BY <1>3 DEF ReopenPeriod
    <2> HIDE DEF job
    <2>2. found => Checked(job("REOPEN_PERIOD", "updating", p))
      BY <1>1 DEF Checked, Runs, PeriodsChecked, CloseChecked, ReopenChecked, ReopenPeriodAllowed
    <2> HIDE DEF found
    <2> QED
      BY <2>1, <2>2, StartChecked
  <1>4. ASSUME NEW y \in Years, CloseFiscalYear(r, y) PROVE YearsInv'
    <2>1. Start(r, ~ closed[y], job("CLOSE_YEAR", "checking", LastPeriod(y)))
      BY <1>4 DEF CloseFiscalYear
    <2> HIDE DEF job
    <2>2. ~ closed[y] => Checked(job("CLOSE_YEAR", "checking", LastPeriod(y)))
      BY <1>1, PeriodFacts DEF Checked, Runs, PeriodsChecked, CloseChecked, ReopenChecked, Writes
    <2> QED
      BY <2>1, <2>2, StartChecked
  <1>5. ASSUME NEW y \in Years, ReopenFiscalYear(r, y) PROVE YearsInv'
    <2>1. Start(r, closed[y], job("REOPEN_YEAR", "ordering", LastPeriod(y)))
      BY <1>5 DEF ReopenFiscalYear
    <2> HIDE DEF job
    <2>2. closed[y] => Checked(job("REOPEN_YEAR", "ordering", LastPeriod(y)))
      BY <1>1, PeriodFacts DEF Checked, Runs, PeriodsChecked, CloseChecked, ReopenChecked, Writes
    <2> QED
      BY <2>1, <2>2, StartChecked
  <1> QED
    BY <1>2, <1>3, <1>4, <1>5 DEF AdminStart

\* An administrator's steps that only read.
AdminReads(r) ==
    \/ CheckEarlierPeriods(r) \/ CheckPeriodsClosed(r) \/ CheckEarlierYears(r)
    \/ \E carry \in BOOLEAN : ReadBalances(r, carry)
    \/ CheckLaterYears(r) \/ FindNoClosingEntry(r)
    \/ \E i \in 1 .. Len(journal) : FindClosingEntry(r, i)

LEMMA AdminReadsChecked ==
  ASSUME TypeOK, YearsInv, NEW r \in Requests, AdminReads(r)
  PROVE  YearsInv'
  <1>0. req[r] \in Job /\ Checked(req[r])
    BY DEF TypeOK, YearsInv
  <1> DEFINE job(s) == [req[r] EXCEPT !.at = s]
  <1>a. \A s : /\ job(s).op = req[r].op /\ job(s).period = req[r].period /\ job(s).at = s
               /\ job(s).ref = req[r].ref
    BY AtStep
  <1>1. CASE CheckEarlierPeriods(r)
    <2>1. UNCHANGED <<periodStatus, closed, journal>> /\ (Finish(r) \/ Goto(r, "updating"))
          /\ req[r].op = "CLOSE_PERIOD"
      BY <1>1 DEF CheckEarlierPeriods, KeepsBooks
    <2>2. Checked(job("updating"))
      BY <2>1, <1>a DEF Checked, Runs, PeriodsChecked, CloseChecked, ReopenChecked
    <2> QED
      BY <2>1, <2>2, GotoChecked, FinishChecked
  <1>2. CASE CheckPeriodsClosed(r)
    <2>1. UNCHANGED <<periodStatus, closed, journal>> /\ req[r].op = "CLOSE_YEAR"
          /\ (Finish(r) \/ (Goto(r, "ordering") /\ EveryPeriodClosed(YearOf(req[r].period))))
      BY <1>2 DEF CheckPeriodsClosed, KeepsBooks
    <2>2. CASE Goto(r, "ordering") /\ EveryPeriodClosed(YearOf(req[r].period))
      <3>1. Checked(job("ordering"))
        BY <2>1, <2>2, <1>a, <1>0
           DEF Checked, Runs, PeriodsChecked, CloseChecked, ReopenChecked, Writes
      <3> QED
        BY <2>1, <2>2, <3>1, GotoChecked
    <2> QED
      BY <2>1, <2>2, FinishChecked
  <1>3. CASE CheckEarlierYears(r)
    <2>1. UNCHANGED <<periodStatus, closed, journal>> /\ req[r].op = "CLOSE_YEAR"
          /\ req[r].at = "ordering"
          /\ (Finish(r) \/ (Goto(r, "balancing") /\ \A z \in Years : z < YearOf(req[r].period) => closed[z]))
      BY <1>3 DEF CheckEarlierYears, KeepsBooks
    <2>2. CASE Goto(r, "balancing") /\ \A z \in Years : z < YearOf(req[r].period) => closed[z]
      <3>1. Checked(job("balancing"))
        BY <2>1, <2>2, <1>a, <1>0
           DEF Checked, Runs, PeriodsChecked, CloseChecked, ReopenChecked
      <3> QED
        BY <2>1, <2>2, <3>1, GotoChecked
    <2> QED
      BY <2>1, <2>2, FinishChecked
  <1>4. ASSUME NEW carry \in BOOLEAN, ReadBalances(r, carry) PROVE YearsInv'
    <2> DEFINE step == IF carry THEN "posting" ELSE "updating"
               next == [req[r] EXCEPT !.amount = - resultTo[YearOf(req[r].period)], !.at = step]
    <2>1. next.op = "CLOSE_YEAR" /\ next.period = req[r].period /\ next.at \in {"posting", "updating"}
      BY <1>0, <1>4 DEF ReadBalances, Job
    <2>2. req' = [req EXCEPT ![r] = next] /\ UNCHANGED <<periodStatus, closed, journal>>
          /\ req[r].op = "CLOSE_YEAR" /\ req[r].at = "balancing"
      BY <1>4 DEF ReadBalances, KeepsBooks
    <2> HIDE DEF next
    <2>3. Checked(next)
      BY <2>1, <2>2, <1>0 DEF Checked, Runs, PeriodsChecked, CloseChecked, ReopenChecked
    <2> QED
      BY <2>2, <2>3, GoesOn
  <1>5. CASE CheckLaterYears(r)
    <2>1. UNCHANGED <<periodStatus, closed, journal>> /\ req[r].op = "REOPEN_YEAR"
          /\ (Finish(r) \/ (Goto(r, "balancing") /\ NoLaterYearClosed(YearOf(req[r].period))))
      BY <1>5 DEF CheckLaterYears, KeepsBooks
    <2>2. CASE Goto(r, "balancing") /\ NoLaterYearClosed(YearOf(req[r].period))
      <3>1. Checked(job("balancing"))
        BY <2>1, <2>2, <1>a, <1>0
           DEF Checked, Runs, PeriodsChecked, CloseChecked, ReopenChecked, Writes
      <3> QED
        BY <2>1, <2>2, <3>1, GotoChecked
    <2> QED
      BY <2>1, <2>2, FinishChecked
  <1>6. CASE FindNoClosingEntry(r)
    <2>1. UNCHANGED <<periodStatus, closed, journal>> /\ req[r].op = "REOPEN_YEAR"
          /\ req[r].at = "balancing"
          /\ Goto(r, "updating") /\ ClosingEntries(YearOf(req[r].period)) = {}
      BY <1>6 DEF FindNoClosingEntry, KeepsBooks
    <2>2. Checked(job("updating"))
      BY <2>1, <1>a, <1>0
         DEF Checked, Runs, PeriodsChecked, CloseChecked, ReopenChecked, Writes
    <2> QED
      BY <2>1, <2>2, GotoChecked
  <1>7. ASSUME NEW i \in 1 .. Len(journal), FindClosingEntry(r, i) PROVE YearsInv'
    <2> DEFINE next == [req[r] EXCEPT !.ref = i, !.amount = - journal[i].amount,
                                      !.at = "posting"]
    <2>1. /\ next.op = req[r].op /\ next.period = req[r].period
          /\ next.at = "posting" /\ next.ref = i
      BY <1>0 DEF Job
    <2>2. /\ req' = [req EXCEPT ![r] = next] /\ UNCHANGED <<periodStatus, closed, journal>>
          /\ req[r].op = "REOPEN_YEAR" /\ req[r].at = "balancing"
          /\ i \in ClosingEntries(YearOf(req[r].period))
      BY <1>7 DEF FindClosingEntry, KeepsBooks
    <2> HIDE DEF next
    <2>3. Checked(next)
      BY <2>1, <2>2, <1>0 DEF Checked, Runs, PeriodsChecked, CloseChecked, ReopenChecked
    <2> QED
      BY <2>2, <2>3, GoesOn
  <1> QED
    BY <1>1, <1>2, <1>3, <1>4, <1>5, <1>6, <1>7 DEF AdminReads

LEMMA ResolveChecked ==
  ASSUME TypeOK, YearsInv, NEW r \in Requests, ResolvePeriod(r)
  PROVE  YearsInv'
  <1>1. /\ UNCHANGED <<periodStatus, closed, journal>> /\ req[r].at = "posting"
        /\ Finish(r) \/ Goto(r, "numbering")
    BY DEF ResolvePeriod, KeepsBooks
  <1> DEFINE job == [req[r] EXCEPT !.at = "numbering"]
  <1>2. /\ job.op = req[r].op /\ job.period = req[r].period /\ job.at = "numbering"
        /\ job.ref = req[r].ref
    BY AtStep
  <1>3. Checked(req[r])
    BY DEF YearsInv
  <1>4. Checked(job)
    BY <1>1, <1>2, <1>3
       DEF Checked, Runs, PeriodsChecked, CloseChecked, ReopenChecked, Writes
  <1> QED
    BY <1>1, <1>4, GotoChecked, FinishChecked

LEMMA AllocateChecked ==
  ASSUME TypeOK, YearsInv, NEW r \in Requests, AllocateNumber(r)
  PROVE  YearsInv'
  <1> DEFINE job == [req[r] EXCEPT !.at = "writing",
                                   !.number = nextNumber[YearOf(req[r].period)]]
  <1>1. req[r] \in Job /\ Checked(req[r])
    BY DEF YearsInv, TypeOK
  <1>2. /\ job.op = req[r].op /\ job.ref = req[r].ref
        /\ job.period = req[r].period /\ job.at = "writing"
    BY <1>1 DEF Job
  <1>3. req' = [req EXCEPT ![r] = job] /\ req[r].at = "numbering"
        /\ UNCHANGED <<periodStatus, closed, journal>>
    BY DEF AllocateNumber, KeepsBooks
  <1> HIDE DEF job
  <1>4. Checked(job)
    BY <1>1, <1>2, <1>3
       DEF Checked, Runs, PeriodsChecked, CloseChecked, ReopenChecked, Writes
  <1> QED
    BY <1>3, <1>4, GoesOn
---------------------------------------------------------------------------
(* Steps that write. *)

NoTwoAdmins ==
    \A a, b \in Requests : req[a].op \in OfYears /\ req[b].op \in OfYears => a = b

\* A request of an administrator ends; the others have nothing to do with years.
LEMMA AdminEnds ==
  ASSUME TypeOK, YearsInv, NoTwoAdmins, NEW r \in Requests, req[r].op \in OfYears, Finish(r),
         NEW q \in Requests
  PROVE  Checked(req[q])'
  <1>1. PICK k : k = req'[q]
    OBVIOUS
  <1>2. k = NoJob \/ (k = req[q] /\ q # r)
    BY <1>1 DEF TypeOK, Finish
  <1>3. k.op \notin OfYears /\ Runs(k)
    <2>1. CASE k = NoJob
      BY <2>1 DEF NoJob, OfYears, Runs
    <2>2. CASE k = req[q] /\ q # r
      BY <2>2 DEF NoTwoAdmins, YearsInv, Checked
    <2> QED
      BY <1>2, <2>1, <2>2
  <1>4. Checked(k)'
    BY <1>3 DEF Checked, Runs, OfYears, PeriodsChecked, CloseChecked, ReopenChecked
  <1> QED
    BY <1>1, <1>4

LEMMA UpdatePeriodChecked ==
  ASSUME TypeOK, YearsInv, NoTwoAdmins, NEW r \in Requests, UpdatePeriod(r)
  PROVE  YearsInv'
  <1>1. /\ req[r].op \in {"CLOSE_PERIOD", "REOPEN_PERIOD"} /\ Finish(r)
        /\ UNCHANGED <<closed, journal>> /\ req[r] \in Job
        /\ \A p \in Periods : p # req[r].period => periodStatus'[p] = periodStatus[p]
        /\ req[r].op = "CLOSE_PERIOD" =>
              \A p \in Periods : periodStatus'[p] = periodStatus[p] \/ periodStatus'[p] = "CLOSED"
    BY DEF UpdatePeriod, TypeOK
  <1>2. \A q \in Requests : Checked(req[q])'
    BY <1>1, AdminEnds DEF OfYears
  <1>3. req[r].op = "REOPEN_PERIOD" => ~ closed[YearOf(req[r].period)]
    BY DEF YearsInv, Checked, PeriodsChecked
  <1>4. ClosedYearPeriodsClosed'
    <2> SUFFICES ASSUME NEW y \in Years, closed[y], NEW p \in Periods, YearOf(p) = y
                 PROVE  periodStatus'[p] = "CLOSED"
      BY <1>1 DEF ClosedYearPeriodsClosed, EveryPeriodClosed
    <2>1. periodStatus[p] = "CLOSED"
      BY DEF YearsInv, ClosedYearsStand, ClosedYearPeriodsClosed, EveryPeriodClosed
    <2> QED
      BY <1>1, <1>3, <2>1
  <1>5. ClosedYearsInOrder' /\ SweptOnce'
    BY <1>1 DEF YearsInv, ClosedYearsStand, ClosedYearsInOrder, SweptOnce, Standing,
       ClosingEntries, IsClosingEntry, AlreadyReversed
  <1> QED
    BY <1>2, <1>4, <1>5 DEF YearsInv, ClosedYearsStand

\* Closing or reopening a year the request has checked keeps the order of the
\* closed years and leaves their months closed.
LEMMA YearWritten ==
  ASSUME TypeOK, YearsInv, NEW r \in Requests, req[r].op \in {"CLOSE_YEAR", "REOPEN_YEAR"},
         req[r].at \in {"writing", "updating"}, closed' = ClosedAfter(r), UNCHANGED periodStatus
  PROVE  /\ ClosedYearsInOrder' /\ ClosedYearPeriodsClosed'
         /\ \A y \in Years : closed'[y] = IF y = YearOf(req[r].period)
                                            THEN req[r].op = "CLOSE_YEAR" ELSE closed[y]
  <1> DEFINE y == YearOf(req[r].period)
  <1>1. y \in Years /\ closed \in [Years -> BOOLEAN] /\ Years \subseteq Nat
    BY PeriodFacts DEF TypeOK, Job, Years
  <1>2. \A z \in Years : closed'[z] = IF z = y THEN req[r].op = "CLOSE_YEAR" ELSE closed[z]
    BY <1>1 DEF ClosedAfter
  <1>3. Checked(req[r]) /\ ClosedYearsInOrder /\ ClosedYearPeriodsClosed
    BY DEF YearsInv, ClosedYearsStand
  <1>4. /\ req[r].op = "CLOSE_YEAR" => /\ ~ closed[y] /\ EveryPeriodClosed(y)
                                       /\ \A z \in Years : z < y => closed[z]
        /\ req[r].op = "REOPEN_YEAR" => NoLaterYearClosed(y)
    BY <1>3 DEF Checked, CloseChecked, ReopenChecked, Writes
  <1> HIDE DEF y
  <1>5. ClosedYearPeriodsClosed'
    BY <1>2, <1>3, <1>4 DEF ClosedYearPeriodsClosed, EveryPeriodClosed
  <1>6. ClosedYearsInOrder'
    BY <1>1, <1>2, <1>3, <1>4 DEF ClosedYearsInOrder, NoLaterYearClosed
  <1> QED
    BY <1>2, <1>5, <1>6 DEF y

LEMMA UpdateYearChecked ==
  ASSUME TypeOK, YearsInv, NoTwoAdmins, NEW r \in Requests, UpdateYear(r)
  PROVE  YearsInv'
  <1> DEFINE y == YearOf(req[r].period)
  <1>1. /\ req[r].op \in {"CLOSE_YEAR", "REOPEN_YEAR"} /\ Finish(r) /\ req[r].at = "updating"
        /\ closed' = ClosedAfter(r) /\ UNCHANGED <<periodStatus, journal>>
    BY DEF UpdateYear
  <1>2. \A q \in Requests : Checked(req[q])'
    BY <1>1, AdminEnds DEF OfYears
  <1>3. /\ ClosedYearsInOrder' /\ ClosedYearPeriodsClosed'
        /\ \A z \in Years : closed'[z] = IF z = y THEN req[r].op = "CLOSE_YEAR" ELSE closed[z]
    BY <1>1, YearWritten
  <1>4. req[r].op = "REOPEN_YEAR" => ClosingEntries(y) = {}
    BY <1>1 DEF YearsInv, Checked, ReopenChecked
  <1> HIDE DEF y
  <1>5. SweptOnce'
    <2>1. \A z \in Years : Standing(z)' = Standing(z)
      BY <1>1 DEF Standing, ClosingEntries, IsClosingEntry, AlreadyReversed
    <2>2. SweptOnce /\ \A z \in Years : Standing(z) \subseteq ClosingEntries(z)
      BY DEF YearsInv, ClosedYearsStand, Standing
    <2>3. ASSUME NEW z \in Years, ~ closed'[z] PROVE Standing(z) = {}
      BY <1>1, <1>3, <1>4, <2>2, <2>3 DEF SweptOnce
    <2> QED
      BY <2>1, <2>2, <2>3 DEF SweptOnce
  <1> QED
    BY <1>2, <1>3, <1>5 DEF YearsInv, ClosedYearsStand

\* What a commit does to the closing entries of a year.
LEMMA CommitClosings ==
  ASSUME TypeOK, RowLocks, RefJobs, NEW r \in Requests, CommitEntry(r)
  PROVE  LET n == Len(journal) + 1 IN
         \A z \in Years :
            /\ ClosingEntries(z)' = ClosingEntries(z) \union
                 IF req[r].op = "CLOSE_YEAR" /\ z = YearOf(req[r].period) THEN {n} ELSE {}
            /\ \A i \in Standing(z)' :
                  /\ i \in Standing(z) \/ (i = n /\ req[r].op = "CLOSE_YEAR"
                                                /\ z = YearOf(req[r].period))
                  /\ i # n => i # req[r].ref
  <1> DEFINE n == Len(journal) + 1
             J == journal'
  <1>1. /\ n - 1 \in Nat /\ Len(J) = n /\ J[n] = EntryOf(r)
        /\ 1 .. n = 1 .. Len(journal) \union {n}
    BY CommitShape
  <1>2. ASSUME NEW i \in 1 .. Len(journal)
        PROVE  /\ J[i].kind = journal[i].kind /\ J[i].period = journal[i].period
               /\ J[i].reverses = journal[i].reverses
               /\ journal[i].kind = "CLOSING" => J[i].status = journal[i].status
    <2>1. /\ J[i].kind = journal[i].kind /\ J[i].period = journal[i].period
          /\ J[i].reverses = journal[i].reverses
          /\ J[i].status = IF req[r].op = "REVERSE" /\ i = req[r].ref THEN "REVERSED"
                                                              ELSE journal[i].status
      BY CommitShape
    <2>2. req[r].op = "REVERSE" /\ i = req[r].ref => journal[i].kind = "MANUAL"
      BY DEF RefJobs, RefOK
    <2> QED
      BY <2>1, <2>2
  <1>3. /\ J[n].kind = KindOf(req[r].op) /\ J[n].status = "POSTED"
        /\ J[n].period = req[r].period /\ J[n].reverses = req[r].ref
    BY <1>1 DEF EntryOf
  <1>4. KindOf(req[r].op) = "CLOSING" <=> req[r].op = "CLOSE_YEAR"
    BY DEF KindOf
  <1> HIDE DEF n, J
  <1>5. ASSUME NEW z \in Years
        PROVE  ClosingEntries(z)' = ClosingEntries(z) \union
                 IF req[r].op = "CLOSE_YEAR" /\ z = YearOf(req[r].period) THEN {n} ELSE {}
    <2>1. ClosingEntries(z)' = {i \in 1 .. n : J[i].kind = "CLOSING" /\ J[i].status = "POSTED"
                                               /\ YearOf(J[i].period) = z}
      BY <1>1 DEF ClosingEntries, IsClosingEntry, J
    <2>2. ClosingEntries(z) = {i \in 1 .. Len(journal) :
                                 J[i].kind = "CLOSING" /\ J[i].status = "POSTED"
                                               /\ YearOf(J[i].period) = z}
      BY <1>2 DEF ClosingEntries, IsClosingEntry
    <2>3. (J[n].kind = "CLOSING" /\ J[n].status = "POSTED" /\ YearOf(J[n].period) = z)
             <=> req[r].op = "CLOSE_YEAR" /\ z = YearOf(req[r].period)
      BY <1>3, <1>4
    <2> QED
      BY <1>1, <2>1, <2>2, <2>3
  <1>6. ASSUME NEW z \in Years, NEW i \in Standing(z)'
        PROVE  /\ i \in Standing(z) \/ (i = n /\ req[r].op = "CLOSE_YEAR"
                                               /\ z = YearOf(req[r].period))
               /\ i # n => i # req[r].ref
    <2>1. /\ i \in ClosingEntries(z)' /\ \A k \in 1 .. n : J[k].reverses # i
      BY <1>1 DEF Standing, AlreadyReversed, J
    <2>2. i # req[r].ref
      BY <1>1, <1>3, <2>1
    <2>3. i \in ClosingEntries(z) => i \in Standing(z)
      BY <1>1, <1>2, <2>1 DEF Standing, AlreadyReversed
    <2> QED
      BY <1>5, <2>1, <2>2, <2>3
  <1> QED
    BY <1>5, <1>6 DEF n

LEMMA CommitChecked ==
  ASSUME TypeOK, RowLocks, RefJobs, YearsInv, NoTwoAdmins, NEW r \in Requests, CommitEntry(r)
  PROVE  YearsInv'
  <1> DEFINE n == Len(journal) + 1
             y == YearOf(req[r].period)
  <1>1. /\ UNCHANGED periodStatus /\ closed' = ClosedAfter(r) /\ Finish(r)
        /\ req[r].at = "writing" /\ InsertAllowed(r)
    BY DEF CommitEntry
  <1>2. /\ \A z \in Years : ClosingEntries(z)' = ClosingEntries(z) \union
                   IF req[r].op = "CLOSE_YEAR" /\ z = y THEN {n} ELSE {}
        /\ \A z \in Years : \A i \in Standing(z)' :
              /\ i \in Standing(z) \/ (i = n /\ req[r].op = "CLOSE_YEAR" /\ z = y)
              /\ i # n => i # req[r].ref
    BY CommitClosings
  <1>3. Checked(req[r]) /\ SweptOnce /\ ClosedYearsInOrder /\ ClosedYearPeriodsClosed
    BY DEF YearsInv, ClosedYearsStand
  <1>4. y \in Years /\ n - 1 \in Nat
    BY PeriodFacts, CommitShape DEF TypeOK, Job
  <1>5. \A z \in Years : \A i \in Standing(z) : i \in 1 .. n - 1
    BY <1>4 DEF Standing, ClosingEntries
  <1> HIDE DEF n, y
  <1>6. CASE req[r].op \notin {"CLOSE_YEAR", "REOPEN_YEAR"}
    <2>1. closed' = closed /\ \A z \in Years : ClosingEntries(z)' = ClosingEntries(z)
                           /\ Standing(z)' \subseteq Standing(z)
      BY <1>1, <1>2, <1>6 DEF ClosedAfter
    <2>2. ClosedYearsStand'
      BY <1>1, <1>3, <2>1 DEF ClosedYearsStand, ClosedYearsInOrder, ClosedYearPeriodsClosed,
         EveryPeriodClosed, SweptOnce
    <2>3. ASSUME NEW q \in Requests PROVE Checked(req[q])'
      <3>1. PICK k : k = req'[q]
        OBVIOUS
      <3>2. Checked(k) /\ k \in Job
        BY <1>1, <3>1, NoJobChecked, NoJobType DEF YearsInv, Finish, TypeOK
      <3>3. YearOf(k.period) \in Years
        BY <3>2, PeriodFacts DEF Job
      <3>4. Checked(k)'
        BY <1>1, <2>1, <3>2, <3>3
           DEF Checked, Runs, PeriodsChecked, CloseChecked, ReopenChecked, EveryPeriodClosed,
               NoLaterYearClosed
      <3> QED
        BY <3>1, <3>4
    <2> QED
      BY <2>2, <2>3 DEF YearsInv
  <1>7. CASE req[r].op \in {"CLOSE_YEAR", "REOPEN_YEAR"}
    <2>1. /\ ClosedYearsInOrder' /\ ClosedYearPeriodsClosed'
          /\ \A z \in Years : closed'[z] = IF z = y THEN req[r].op = "CLOSE_YEAR" ELSE closed[z]
      BY <1>1, <1>7, YearWritten DEF y
    <2>2. \A q \in Requests : Checked(req[q])'
      BY <1>1, <1>7, AdminEnds DEF OfYears
    <2>3. SweptOnce'
      <3>1. CASE req[r].op = "CLOSE_YEAR"
        <4>1. ~ closed[y]
          BY <1>3, <3>1 DEF Checked, CloseChecked, y
        <4>2. Standing(y) = {}
          BY <1>3, <1>4, <4>1 DEF SweptOnce
        <4>3. ASSUME NEW z \in Years
              PROVE  /\ ~ closed'[z] => Standing(z)' = {}
                     /\ \A i, j \in Standing(z)' : i = j
          <5>1. CASE z = y
            <6>1. \A i \in Standing(z)' : i \in Standing(z) \/ i = n
              BY <1>2
            <6>2. Standing(z)' \subseteq {n}
              BY <4>2, <5>1, <6>1
            <6>3. closed'[z]
              BY <2>1, <3>1, <5>1
            <6> QED
              BY <6>2, <6>3
          <5>2. CASE z # y
            BY <1>2, <1>3, <2>1, <5>2 DEF SweptOnce
          <5> QED
            BY <5>1, <5>2
        <4> QED
          BY <4>3 DEF SweptOnce
      <3>2. CASE req[r].op = "REOPEN_YEAR"
        <4>1. req[r].ref \in ClosingEntries(y) /\ req[r].ref \in 1 .. n - 1
          BY <1>1, <1>3, <3>2 DEF Checked, ReopenChecked, Writes, y, ClosingEntries, n
        <4>2. req[r].ref \in Standing(y)
          BY <1>1, <4>1 DEF InsertAllowed, NoEntry, Standing
        <4>3. ASSUME NEW z \in Years
              PROVE  /\ ~ closed'[z] => Standing(z)' = {}
                     /\ \A i, j \in Standing(z)' : i = j
          <5>1. Standing(z)' \subseteq Standing(z) \ {req[r].ref}
            BY <1>2, <1>4, <1>5, <3>2
          <5>2. CASE z = y
            BY <1>3, <4>2, <5>1, <5>2 DEF SweptOnce
          <5>3. CASE z # y
            BY <1>3, <2>1, <5>1, <5>3 DEF SweptOnce
          <5> QED
            BY <5>2, <5>3
        <4> QED
          BY <4>3 DEF SweptOnce
      <3> QED
        BY <1>7, <3>1, <3>2
    <2> QED
      BY <2>1, <2>2, <2>3 DEF YearsInv, ClosedYearsStand
  <1> QED
    BY <1>6, <1>7
---------------------------------------------------------------------------
LEMMA YearsInitially == Init => YearsInv
  <1> SUFFICES ASSUME Init PROVE YearsInv
    OBVIOUS
  <1>1. \A r \in Requests : Checked(req[r])
    BY NoJobChecked DEF Init
  <1>2. \A y \in Years : ~ closed[y] /\ Standing(y) = {}
    BY DEF Init, Standing, ClosingEntries
  <1> QED
    BY <1>1, <1>2 DEF YearsInv, ClosedYearsStand, ClosedYearsInOrder, ClosedYearPeriodsClosed, SweptOnce

LEMMA YearsInductive ==
  IInv /\ ReversalInv /\ YearsInv /\ NoTwoAdmins /\ [Next]_vars => YearsInv'
  <1> SUFFICES ASSUME TypeOK, RowLocks, RefJobs, YearsInv, NoTwoAdmins, [Next]_vars
               PROVE  YearsInv'
    BY DEF IInv, ReversalInv
  <1>1. ASSUME NEW r \in Clerks, ClerkStep(r) PROVE YearsInv'
    BY <1>1, ClerkStepChecked
  <1>2. ASSUME NEW r \in Admins, AdminStart(r) PROVE YearsInv'
    BY <1>2, AdminStartChecked
  <1>3. ASSUME NEW r \in Admins, AdminStep(r) PROVE YearsInv'
    <2>1. r \in Requests /\ (AdminReads(r) \/ UpdatePeriod(r) \/ UpdateYear(r))
      BY <1>3 DEF AdminStep, AdminReads, Requests
    <2> QED
      BY <2>1, AdminReadsChecked, UpdatePeriodChecked, UpdateYearChecked
  <1>4. ASSUME NEW r \in Requests, Posting(r) PROVE YearsInv'
    BY <1>4, ResolveChecked, AllocateChecked, CommitChecked DEF Posting
  <1>5. ASSUME NEW r \in Requests, RollBack(r) PROVE YearsInv'
    BY <1>5, FinishChecked DEF RollBack, KeepsBooks
  <1>6. CASE UNCHANGED vars
    <2>1. ASSUME NEW r \in Requests PROVE Checked(req[r])'
      <3>1. PICK k : k = req[r]
        OBVIOUS
      <3>2. Checked(k)'
        BY <1>6, <3>1, CheckedKept DEF YearsInv, vars
      <3> QED
        BY <1>6, <3>1, <3>2 DEF vars
    <2> QED
      BY <1>6, <2>1, StandKept DEF YearsInv, vars
  <1> QED
    BY <1>1, <1>2, <1>3, <1>4, <1>5, <1>6 DEF Next

---------------------------------------------------------------------------
(* Two settings in which no two requests change periods or years at once. *)

\* A step moves one request, which runs already or may start.
OneMoves ==
    \/ UNCHANGED req
    \/ \E r \in Requests :
          /\ req[r].at # "idle" \/ Cardinality(InFlight) < MaxInFlight
          /\ \A q \in Requests \ {r} : req'[q] = req[q]
          /\ r \in Clerks => req'[r].op \in {req[r].op, "NONE", "POST", "REVERSE"}

LEMMA Moves ==
  ASSUME TypeOK, [Next]_vars
  PROVE  OneMoves
  <1>0. NoJob.op = "NONE" /\ req \in [Requests -> Job]
    BY DEF NoJob, TypeOK
  <1>1. ASSUME NEW r \in Requests, Finish(r), req[r].at # "idle" PROVE OneMoves
    BY <1>0, <1>1 DEF OneMoves, Finish
  <1>2. ASSUME NEW r \in Requests, NEW s, Goto(r, s), req[r].at # "idle" PROVE OneMoves
    <2>1. [req[r] EXCEPT !.at = s].op = req[r].op
      BY <1>0 DEF Job
    <2> QED
      BY <1>0, <1>2, <2>1 DEF OneMoves, Goto
  <1>3. ASSUME NEW r \in Requests, NEW found, NEW j, Start(r, found, j),
               r \in Clerks => j.op \in {"POST", "REVERSE"}
        PROVE  OneMoves
    BY <1>0, <1>3 DEF OneMoves, Start, MayStart
  <1>4. ASSUME NEW r \in Clerks, ClerkStep(r) PROVE OneMoves
    <2>0. r \in Requests
      BY DEF Requests
    <2>1. ASSUME NEW p \in Periods, NEW a \in Amounts, CreateManualEntry(r, p, a)
          PROVE  OneMoves
      <3> DEFINE job == [NoJob EXCEPT !.op = "POST", !.at = "posting", !.period = p, !.amount = a]
      <3>1. job.op = "POST" /\ Start(r, TRUE, job)
        BY <2>1 DEF NoJob, CreateManualEntry
      <3> HIDE DEF job
      <3> QED
        BY <1>3, <2>0, <3>1
    <2>2. ASSUME NEW i \in 1 .. Len(journal), ReverseManualEntry(r, i)
          PROVE  OneMoves
      <3> DEFINE job == [NoJob EXCEPT !.op = "REVERSE", !.at = "posting", !.ref = i,
                                      !.period = journal[i].period,
                                      !.amount = - journal[i].amount]
      <3>1. /\ job.op = "REVERSE"
            /\ Start(r, journal[i].kind = "MANUAL" /\ journal[i].status = "POSTED", job)
        BY <2>2 DEF NoJob, ReverseManualEntry
      <3> HIDE DEF job
      <3> QED
        BY <1>3, <2>0, <3>1
    <2> QED
      BY <1>4, <2>1, <2>2 DEF ClerkStep
  <1>5. ASSUME NEW r \in Admins, AdminStart(r) PROVE OneMoves
    <2>1. r \in Requests /\ r \notin Clerks
      BY DEF Requests
    <2>2. PICK found, job : Start(r, found, job)
      BY <1>5 DEF AdminStart, ClosePeriod, ReopenPeriod, CloseFiscalYear, ReopenFiscalYear
    <2> QED
      BY <1>3, <2>1, <2>2
  <1>6. ASSUME NEW r \in Admins, AdminStep(r) PROVE OneMoves
    <2>1. r \in Requests /\ r \notin Clerks
      BY DEF Requests
    <2>2. req[r].at # "idle"
      <3>1. ASSUME NEW carry \in BOOLEAN, ReadBalances(r, carry) PROVE req[r].at # "idle"
        BY <3>1 DEF ReadBalances
      <3>2. ASSUME NEW i \in 1 .. Len(journal), FindClosingEntry(r, i) PROVE req[r].at # "idle"
        BY <3>2 DEF FindClosingEntry
      <3> QED
        BY <1>6, <3>1, <3>2 DEF AdminStep, CheckEarlierPeriods, UpdatePeriod,
           CheckPeriodsClosed, CheckEarlierYears, CheckLaterYears, FindNoClosingEntry, UpdateYear
    <2>3. \E j : req' = [req EXCEPT ![r] = j]
      <3>1. CASE \E s : Goto(r, s)
        BY <3>1 DEF Goto
      <3>2. CASE Finish(r)
        BY <3>2 DEF Finish
      <3>3. ASSUME NEW carry \in BOOLEAN, ReadBalances(r, carry)
            PROVE  \E j : req' = [req EXCEPT ![r] = j]
        BY <3>3 DEF ReadBalances
      <3>4. ASSUME NEW i \in 1 .. Len(journal), FindClosingEntry(r, i)
            PROVE  \E j : req' = [req EXCEPT ![r] = j]
        BY <3>4 DEF FindClosingEntry
      <3> QED
        BY <1>6, <3>1, <3>2, <3>3, <3>4 DEF AdminStep, CheckEarlierPeriods, UpdatePeriod,
           CheckPeriodsClosed, CheckEarlierYears, CheckLaterYears, FindNoClosingEntry, UpdateYear
    <2> QED
      BY <1>0, <2>1, <2>2, <2>3 DEF OneMoves
  <1>7. ASSUME NEW r \in Requests, ResolvePeriod(r) PROVE OneMoves
    <2>1. req[r].at # "idle" /\ (Goto(r, "numbering") \/ Finish(r))
      BY <1>7 DEF ResolvePeriod
    <2> QED
      BY <1>1, <1>2, <2>1
  <1>8. ASSUME NEW r \in Requests, AllocateNumber(r) PROVE OneMoves
    <2> DEFINE next == [req[r] EXCEPT !.at = "writing",
                                      !.number = nextNumber[YearOf(req[r].period)]]
    <2>1. next.op = req[r].op
      BY <1>0 DEF Job
    <2>2. req' = [req EXCEPT ![r] = next] /\ req[r].at # "idle"
      BY <1>8 DEF AllocateNumber
    <2> HIDE DEF next
    <2> QED
      BY <1>0, <2>1, <2>2 DEF OneMoves
  <1>9. ASSUME NEW r \in Requests, CommitEntry(r) \/ RollBack(r) PROVE OneMoves
    <2>1. req[r].at # "idle" /\ Finish(r)
      BY <1>9 DEF CommitEntry, RollBack
    <2> QED
      BY <1>1, <2>1
  <1> QED
    BY <1>4, <1>5, <1>6, <1>7, <1>8, <1>9 DEF Next, Posting, vars, OneMoves

\* With one request in flight, and with one administrator.
Alone == \A a, b \in Requests : req[a].at # "idle" /\ req[b].at # "idle" => a = b
ClerksPost == \A r \in Clerks : req[r].op \notin OfYears

LEMMA AloneInductive ==
  ASSUME MaxInFlight = 1
  PROVE  TypeOK /\ Alone /\ [Next]_vars => Alone'
  <1> SUFFICES ASSUME TypeOK, Alone, [Next]_vars PROVE Alone'
    OBVIOUS
  <1>1. CASE UNCHANGED req
    BY <1>1 DEF Alone
  <1>2. ASSUME NEW r \in Requests, req[r].at # "idle" \/ Cardinality(InFlight) < MaxInFlight,
               \A q \in Requests \ {r} : req'[q] = req[q]
        PROVE  Alone'
    <2>1. ASSUME Cardinality(InFlight) < 1 PROVE \A q \in Requests : req[q].at = "idle"
      <3> SUFFICES ASSUME NEW q \in Requests, req[q].at # "idle" PROVE FALSE
        OBVIOUS
      <3>1. InFlight = {q}
        BY DEF InFlight, Alone
      <3>2. Cardinality({q}) = 1
        BY FS_Singleton
      <3>3. Cardinality(InFlight) = 1
        BY <3>1, <3>2
      <3> QED
        BY <2>1, <3>3
    <2>2. \A q \in Requests \ {r} : req[q].at = "idle"
      BY <1>2, <2>1 DEF Alone
    <2> QED
      BY <1>2, <2>2 DEF Alone
  <1> QED
    BY <1>1, <1>2, Moves DEF OneMoves

LEMMA ClerksPostInductive == TypeOK /\ ClerksPost /\ [Next]_vars => ClerksPost'
  <1> SUFFICES ASSUME TypeOK, ClerksPost, OneMoves, NEW c \in Clerks
               PROVE  req'[c].op \notin OfYears
    BY Moves DEF ClerksPost
  <1>1. c \in Requests
    BY DEF Requests
  <1> QED
    BY <1>1 DEF OneMoves, ClerksPost, OfYears

\* Years are closed oldest first and reopened newest first, their months stay
\* closed, and their result is swept once: with any number of clerks beside one
\* administrator, or any number of both one after another (closeFiscalYear,
\* reopenFiscalYear, reopenPeriod).
THEOREM ClosedYearsKeep ==
    ASSUME MaxInFlight = 1 \/ \A a, b \in Admins : a = b
    PROVE  Spec => []ClosedYearsStand
  <1>1. CASE MaxInFlight = 1
    <2>1. Init => Alone
      BY NoJobType DEF Init, Alone
    <2>2. TypeOK /\ Alone /\ [Next]_vars => Alone'
      BY <1>1, AloneInductive
    <2>3. YearsInv /\ Alone => NoTwoAdmins
      BY DEF YearsInv, Alone, NoTwoAdmins, Checked, Runs, OfYears
    <2> QED
      BY <2>1, <2>2, <2>3, Initially, Inductive, ReversalsInitially, ReversalsInductive,
         YearsInitially, YearsInductive, PTL DEF Spec, IInv, YearsInv
  <1>2. CASE \A a, b \in Admins : a = b
    <2>1. Init => ClerksPost
      BY DEF Init, ClerksPost, NoJob, OfYears, Requests
    <2>2. ClerksPost => NoTwoAdmins
      BY <1>2 DEF ClerksPost, NoTwoAdmins, Requests
    <2> QED
      BY <2>1, <2>2, ClerksPostInductive, Initially, Inductive, ReversalsInitially,
         ReversalsInductive, YearsInitially, YearsInductive, PTL DEF Spec, IInv, YearsInv
  <1> QED
    BY <1>1, <1>2
---------------------------------------------------------------------------
(* Late entries.  A request that was let in and shut out since is overtaken, *)
(* and what a closing is about to take back is what the accounts carry less   *)
(* what such requests brought.                                                *)

ShutOut(r) == LetIn(r) /\ ~ MonthOpen(r)

LateJob(j) ==
    LET y == YearOf(j.period) IN
    j.op = "CLOSE_YEAR" =>
        /\ j.at \in Writes => j.amount = arrivedLate[y] - resultTo[y]
        /\ j.at = "updating" => resultTo[y] = arrivedLate[y]

LateInv ==
    /\ overtaken = {r \in Requests : ShutOut(r)}
    /\ arrivedLate \in [Years -> Int]
    /\ \A y \in Years : ~ BalancesRead(y) => arrivedLate[y] = 0
    /\ \A r \in Requests : LateJob(req[r])
    /\ OnlyLateEntriesEscape

\* What a request has found out when it goes on without writing.
Continues(r, j) ==
    /\ j.op \in {"POST", "REVERSE"} /\ j.at \in {"numbering", "writing"} =>
          \/ LetIn(r) /\ j.period = req[r].period
          \/ periodStatus[j.period] = "OPEN"
    /\ j.op = "CLOSE_YEAR" /\ j.at \in Writes \union {"updating"} =>
          /\ req[r].op = "CLOSE_YEAR" /\ j.period = req[r].period
          /\ \/ req[r].at \in Writes /\ j.at \in Writes /\ j.amount = req[r].amount
             \/ /\ req[r].at = "balancing"
                /\ j.amount = - resultTo[YearOf(j.period)]
                /\ j.at = "updating" => resultTo[YearOf(j.period)] = 0
QuietMove ==
    /\ UNCHANGED <<periodStatus, closed, journal, resultTo>>
    /\ \E r \in Requests : \E j \in Job : req' = [req EXCEPT ![r] = j] /\ Continues(r, j)

LEMMA NothingBrought ==
  ASSUME TypeOK, UNCHANGED journal, NEW y
  PROVE  Brought(y) = 0
  <1>1. Len(journal) \in Nat
    BY DEF TypeOK
  <1> QED
    BY <1>1 DEF Brought, ComesLate

LEMMA RecordTypes ==
  ASSUME TypeOK', LateInv, Record, \A y \in Years : Brought(y) \in Int
  PROVE  /\ arrivedLate' \in [Years -> Int]
         /\ \A y \in Years : ~ BalancesRead(y)' => arrivedLate'[y] = 0
  BY DEF Record, LateInv

\* Who is overtaken, after a step in which r moves or nobody does.
LEMMA OvertakenKept ==
  ASSUME LateInv, Record, NEW r \in Requests, \A q \in Requests \ {r} : req'[q] = req[q],
         ShutOut(r)' => LetIn(r)
  PROVE  overtaken' = {q \in Requests : ShutOut(q)'}
  <1>1. \A q \in Requests : ShutOut(q)' => q \in overtaken \/ (LetIn(q) /\ MonthOpen(q))
    <2> SUFFICES ASSUME NEW q \in Requests, ShutOut(q)'
                 PROVE  q \in overtaken \/ (LetIn(q) /\ MonthOpen(q))
      OBVIOUS
    <2>1. LetIn(q)
      BY DEF ShutOut, LetIn
    <2> QED
      BY <2>1 DEF LateInv, ShutOut
  <1> QED
    BY <1>1 DEF Record, ShutOut

LEMMA QuietLate ==
  ASSUME TypeOK, TypeOK', YearsInv, NoTwoAdmins, ClerksPost, ClerksPost', LateInv, Record,
         QuietMove
  PROVE  LateInv'
  <1>1. PICK r \in Requests : \E j \in Job : req' = [req EXCEPT ![r] = j] /\ Continues(r, j)
    BY DEF QuietMove
  <1>2. PICK j \in Job : req' = [req EXCEPT ![r] = j] /\ Continues(r, j)
    BY <1>1
  <1>3. UNCHANGED <<periodStatus, closed, journal, resultTo>>
    BY DEF QuietMove
  <1>4. req'[r] = j /\ \A q \in Requests \ {r} : req'[q] = req[q]
    BY <1>2 DEF TypeOK
  <1>5. \A y \in Years : Brought(y) = 0
    BY <1>3, NothingBrought
  <1>6. arrivedLate' \in [Years -> Int] /\ \A y \in Years : ~ BalancesRead(y)' => arrivedLate'[y] = 0
    BY <1>5, RecordTypes
  <1>7. \A y \in Years : BalancesRead(y)' => arrivedLate'[y] = arrivedLate[y]
    BY <1>5 DEF Record, LateInv
  <1>8. OnlyLateEntriesEscape'
    <2>1. \A y \in Years : closed[y] => BalancesRead(y)'
      BY <1>3 DEF BalancesRead
    <2> QED
      BY <1>3, <1>7, <2>1 DEF OnlyLateEntriesEscape, LateInv
  <1>9. overtaken' = {q \in Requests : ShutOut(q)'}
    <2>1. ShutOut(r)' => LetIn(r)
      <3> SUFFICES ASSUME ShutOut(r)' PROVE LetIn(r)
        OBVIOUS
      <3>1. /\ j.op \in {"POST", "REVERSE"} /\ j.at \in {"numbering", "writing"}
            /\ periodStatus[j.period] # "OPEN"
        BY <1>3, <1>4 DEF ShutOut, LetIn, MonthOpen
      <3> QED
        BY <1>2, <3>1 DEF Continues
    <2> QED
      BY <1>4, <2>1, OvertakenKept
  <1>10. ASSUME NEW q \in Requests PROVE LateJob(req[q])'
    <2>1. PICK k : k = req'[q]
      OBVIOUS
    <2> DEFINE y == YearOf(k.period)
    <2> SUFFICES ASSUME k.op = "CLOSE_YEAR", k.at \in Writes \union {"updating"}
                 PROVE  /\ k.at \in Writes => k.amount = arrivedLate'[y] - resultTo'[y]
                        /\ k.at = "updating" => resultTo'[y] = arrivedLate'[y]
      BY <2>1 DEF LateJob
    <2>2. y \in Years /\ k \in Job
      BY <2>1, PeriodFacts DEF TypeOK, Job
    <2>3. (q \notin Clerks) /\ q \in Admins
      BY <2>1 DEF ClerksPost, OfYears, Requests
    <2>4. BalancesRead(y)'
      BY <2>1, <2>3 DEF BalancesRead, BeingClosed, Writes
    <2>5. arrivedLate'[y] = arrivedLate[y]
      BY <1>7, <2>2, <2>4
    <2>6. CASE q # r
      BY <1>3, <1>4, <2>1, <2>5, <2>6 DEF LateInv, LateJob
    <2>7. CASE q = r
      <3>1. k = j
        BY <1>4, <2>1, <2>7
      <3>2. req[r].op = "CLOSE_YEAR" /\ k.period = req[r].period /\ LateJob(req[r])
        BY <1>2, <3>1 DEF Continues, LateInv
      <3>3. CASE req[r].at \in Writes /\ k.at \in Writes /\ k.amount = req[r].amount
        BY <1>3, <2>5, <3>2, <3>3 DEF LateJob, Writes
      <3>4. CASE /\ req[r].at = "balancing" /\ k.amount = - resultTo[y]
                 /\ k.at = "updating" => resultTo[y] = 0
        <4>1. ~ closed[y]
          BY <3>2 DEF YearsInv, Checked, CloseChecked
        <4>2. ~ BalancesRead(y)
          <5> SUFFICES ASSUME NEW a \in Admins, BeingClosed(a, y) PROVE FALSE
            BY <4>1 DEF BalancesRead
          <5>1. a = r
            BY <3>2 DEF BeingClosed, NoTwoAdmins, OfYears, Requests
          <5> QED
            BY <3>4, <5>1 DEF BeingClosed
        <4>3. arrivedLate[y] = 0
          BY <2>2, <4>2 DEF LateInv
        <4>4. resultTo[y] \in Int
          BY <2>2 DEF TypeOK
        <4> QED
          BY <1>3, <2>5, <3>4, <4>3, <4>4 DEF Writes
      <3> QED
        BY <1>2, <3>1, <3>3, <3>4 DEF Continues
    <2> QED
      BY <2>6, <2>7
  <1> QED
    BY <1>6, <1>8, <1>9, <1>10 DEF LateInv

\* The steps that write nothing are such moves.
LEMMA MovesQuietly ==
  ASSUME TypeOK, NEW r \in Requests, NEW j, j \in Job, req' = [req EXCEPT ![r] = j],
         Continues(r, j), UNCHANGED <<periodStatus, closed, journal, resultTo>>
  PROVE  QuietMove
  BY DEF QuietMove

LEMMA NoSuchJob ==
  ASSUME NEW r, NEW j, \/ j.op \notin {"POST", "REVERSE", "CLOSE_YEAR"}
                       \/ j.op = "CLOSE_YEAR" /\ j.at \notin Writes \union {"updating"}
                       \/ j.op # "CLOSE_YEAR" /\ j.at \notin {"numbering", "writing"}
  PROVE  Continues(r, j)
  BY DEF Continues

\* A request that stays where it is, or ends, relies on nothing new.
LEMMA StartsQuietly ==
  ASSUME TypeOK, TypeOK', NEW r \in Requests, NEW found, NEW j, Continues(r, j), Start(r, found, j)
  PROVE  QuietMove
  <1>0. UNCHANGED <<periodStatus, closed, journal, resultTo>> /\ req[r].at = "idle"
    BY DEF Start, KeepsBooks, MayStart
  <1>1. CASE found
    <2>1. req' = [req EXCEPT ![r] = j]
      BY <1>1 DEF Start
    <2>2. j \in Job
      BY <2>1 DEF TypeOK
    <2> QED
      BY <1>0, <2>1, <2>2, MovesQuietly
  <1>2. CASE ~ found
    <2>1. req' = [req EXCEPT ![r] = req[r]] /\ req[r] \in Job
      BY <1>2 DEF Start, TypeOK
    <2>2. Continues(r, req[r])
      BY <1>0 DEF Continues, Writes
    <2> QED
      BY <1>0, <2>1, <2>2, MovesQuietly
  <1> QED
    BY <1>1, <1>2

LEMMA FinishesQuietly ==
  ASSUME TypeOK, NEW r \in Requests, Finish(r), UNCHANGED <<periodStatus, closed, journal, resultTo>>
  PROVE  QuietMove
  <1>1. Continues(r, NoJob)
    BY NoSuchJob DEF NoJob
  <1> QED
    BY <1>1, NoJobType, MovesQuietly DEF Finish

LEMMA GoesQuietly ==
  ASSUME TypeOK, TypeOK', NEW r \in Requests, NEW s, Goto(r, s),
         Continues(r, [req[r] EXCEPT !.at = s]),
         UNCHANGED <<periodStatus, closed, journal, resultTo>>
  PROVE  QuietMove
  <1>1. req' = [req EXCEPT ![r] = [req[r] EXCEPT !.at = s]]
    BY DEF Goto
  <1>2. [req[r] EXCEPT !.at = s] \in Job
    BY <1>1 DEF TypeOK
  <1> QED
    BY <1>1, <1>2, MovesQuietly

LEMMA StartsAreQuiet ==
  ASSUME TypeOK, TypeOK', NEW r \in Requests, ClerkStep(r) \/ AdminStart(r)
  PROVE  QuietMove
  <1>1. ASSUME NEW p \in Periods, NEW a \in Amounts, CreateManualEntry(r, p, a)
        PROVE  QuietMove
    <2> DEFINE job == [NoJob EXCEPT !.op = "POST", !.at = "posting", !.period = p, !.amount = a]
    <2>1. job.op = "POST" /\ job.at = "posting" /\ Start(r, TRUE, job)
      BY <1>1 DEF NoJob, CreateManualEntry
    <2> HIDE DEF job
    <2> QED
      BY <2>1, NoSuchJob, StartsQuietly
  <1>2. ASSUME NEW i \in 1 .. Len(journal), ReverseManualEntry(r, i)
        PROVE  QuietMove
    <2> DEFINE job == [NoJob EXCEPT !.op = "REVERSE", !.at = "posting", !.ref = i,
                                    !.period = journal[i].period,
                                    !.amount = - journal[i].amount]
               found == journal[i].kind = "MANUAL" /\ journal[i].status = "POSTED"
    <2>1. job.op = "REVERSE" /\ job.at = "posting" /\ Start(r, found, job)
      BY <1>2 DEF NoJob, ReverseManualEntry
    <2> HIDE DEF job, found
    <2> QED
      BY <2>1, NoSuchJob, StartsQuietly
  <1>3. ASSUME AdminStart(r) PROVE QuietMove
    <2> DEFINE job(op, s, p) == [NoJob EXCEPT !.op = op, !.at = s, !.period = p]
    <2>1. \A op, s, p : job(op, s, p).op = op /\ job(op, s, p).at = s
      BY DEF NoJob
    <2>2. \E found, p : \/ Start(r, found, job("CLOSE_PERIOD", "ordering", p))
                        \/ Start(r, found, job("REOPEN_PERIOD", "updating", p))
                        \/ Start(r, found, job("CLOSE_YEAR", "checking", p))
                        \/ Start(r, found, job("REOPEN_YEAR", "ordering", p))
      BY <1>3 DEF AdminStart, ClosePeriod, ReopenPeriod, CloseFiscalYear, ReopenFiscalYear
    <2> HIDE DEF job
    <2>3. \A p : /\ Continues(r, job("CLOSE_PERIOD", "ordering", p))
                 /\ Continues(r, job("REOPEN_PERIOD", "updating", p))
                 /\ Continues(r, job("CLOSE_YEAR", "checking", p))
                 /\ Continues(r, job("REOPEN_YEAR", "ordering", p))
      BY <2>1 DEF Continues, Writes
    <2> QED
      BY <2>2, <2>3, StartsQuietly
  <1> QED
    BY <1>1, <1>2, <1>3 DEF ClerkStep

LEMMA AdminReadsQuietly ==
  ASSUME TypeOK, TypeOK', NEW r \in Requests, AdminReads(r)
  PROVE  QuietMove
  <1>0. req[r] \in Job
    BY DEF TypeOK
  <1> DEFINE job(s) == [req[r] EXCEPT !.at = s]
  <1>a. \A s : /\ job(s).op = req[r].op /\ job(s).period = req[r].period /\ job(s).at = s
               /\ job(s).amount = req[r].amount
    BY AtStep
  <1>1. ASSUME NEW s, Goto(r, s), UNCHANGED <<periodStatus, closed, journal, resultTo>>,
               \/ req[r].op \in {"CLOSE_PERIOD", "REOPEN_YEAR"}
               \/ req[r].op = "CLOSE_YEAR" /\ s \in {"ordering", "balancing"}
        PROVE  QuietMove
    <2>1. Continues(r, job(s))
      BY <1>1, <1>a DEF Continues, Writes
    <2> QED
      BY <1>1, <2>1, GoesQuietly
  <1>2. CASE CheckEarlierPeriods(r) \/ CheckPeriodsClosed(r) \/ CheckEarlierYears(r)
             \/ CheckLaterYears(r) \/ FindNoClosingEntry(r)
    BY <1>1, <1>2, FinishesQuietly DEF CheckEarlierPeriods, CheckPeriodsClosed, CheckEarlierYears,
       CheckLaterYears, FindNoClosingEntry, KeepsBooks
  <1>3. ASSUME NEW carry \in BOOLEAN, ReadBalances(r, carry) PROVE QuietMove
    <2> DEFINE y    == YearOf(req[r].period)
               step == IF carry THEN "posting" ELSE "updating"
               next == [req[r] EXCEPT !.amount = - resultTo[y], !.at = step]
    <2>1. /\ next.op = req[r].op /\ next.period = req[r].period /\ next.at = step
          /\ next.amount = - resultTo[y]
      BY <1>0 DEF Job
    <2>2. req' = [req EXCEPT ![r] = next] /\ UNCHANGED <<periodStatus, closed, journal, resultTo>>
          /\ req[r].op = "CLOSE_YEAR" /\ req[r].at = "balancing" /\ (resultTo[y] # 0 => carry)
      BY <1>3 DEF ReadBalances, KeepsBooks
    <2> HIDE DEF next
    <2>3. Continues(r, next)
      BY <2>1, <2>2 DEF Continues, Writes
    <2>4. next \in Job
      BY <2>2 DEF TypeOK
    <2> QED
      BY <2>2, <2>3, <2>4, MovesQuietly
  <1>4. ASSUME NEW i \in 1 .. Len(journal), FindClosingEntry(r, i) PROVE QuietMove
    <2> DEFINE next == [req[r] EXCEPT !.ref = i, !.amount = - journal[i].amount,
                                      !.at = "posting"]
    <2>1. next.op = req[r].op
      BY <1>0 DEF Job
    <2>2. /\ req' = [req EXCEPT ![r] = next] /\ UNCHANGED <<periodStatus, closed, journal, resultTo>>
          /\ req[r].op = "REOPEN_YEAR"
      BY <1>4 DEF FindClosingEntry, KeepsBooks
    <2> HIDE DEF next
    <2>3. next \in Job
      BY <2>2 DEF TypeOK
    <2> QED
      BY <2>1, <2>2, <2>3, NoSuchJob, MovesQuietly
  <1> QED
    BY <1>2, <1>3, <1>4 DEF AdminReads

LEMMA NumbersQuietly ==
  ASSUME TypeOK, TypeOK', YearsInv, NEW r \in Requests, ResolvePeriod(r) \/ AllocateNumber(r)
  PROVE  QuietMove
  <1>0. req[r] \in Job /\ Runs(req[r])
    BY DEF TypeOK, YearsInv, Checked
  <1>1. CASE ResolvePeriod(r)
    <2> DEFINE job == [req[r] EXCEPT !.at = "numbering"]
    <2>1. /\ job.op = req[r].op /\ job.period = req[r].period /\ job.at = "numbering"
          /\ job.amount = req[r].amount
      BY AtStep
    <2>2. /\ UNCHANGED <<periodStatus, closed, journal, resultTo>> /\ req[r].at = "posting"
          /\ Finish(r) \/ (Goto(r, "numbering") /\ PeriodTakesEntry(r))
      BY <1>1 DEF ResolvePeriod, KeepsBooks
    <2>3. CASE Goto(r, "numbering") /\ PeriodTakesEntry(r)
      <3>1. Continues(r, job)
        BY <2>1, <2>2, <2>3 DEF Continues, Writes, PeriodTakesEntry, IntoClosedPeriod
      <3> QED
        BY <2>2, <2>3, <3>1, GoesQuietly
    <2> QED
      BY <2>2, <2>3, FinishesQuietly
  <1>2. CASE AllocateNumber(r)
    <2> DEFINE job == [req[r] EXCEPT !.at = "writing",
                                     !.number = nextNumber[YearOf(req[r].period)]]
    <2>1. /\ job.op = req[r].op /\ job.amount = req[r].amount
          /\ job.period = req[r].period /\ job.at = "writing"
      BY <1>0 DEF Job
    <2>2. req' = [req EXCEPT ![r] = job] /\ req[r].at = "numbering"
          /\ UNCHANGED <<periodStatus, closed, journal, resultTo>>
      BY <1>2 DEF AllocateNumber, KeepsBooks
    <2> HIDE DEF job
    <2>3. Continues(r, job)
      BY <2>1, <2>2 DEF Continues, Writes, LetIn
    <2>4. job \in Job
      BY <2>2 DEF TypeOK
    <2> QED
      BY <2>2, <2>3, <2>4, MovesQuietly
  <1> QED
    BY <1>1, <1>2

---------------------------------------------------------------------------
(* The three that write. *)

\* The request of an administrator ends: nobody is closing a year any more.
LEMMA NobodyCloses ==
  ASSUME TypeOK, NoTwoAdmins, NEW r \in Requests, req[r].op \in OfYears, Finish(r),
         NEW q \in Requests
  PROVE  LateJob(req[q])'
  <1>1. PICK k : k = req'[q]
    OBVIOUS
  <1>2. k = NoJob \/ (k = req[q] /\ q # r)
    BY <1>1 DEF TypeOK, Finish
  <1>3. k.op # "CLOSE_YEAR"
    BY <1>2 DEF NoJob, NoTwoAdmins, OfYears
  <1> QED
    BY <1>1, <1>3 DEF LateJob

\* Whoever ends is overtaken no more.
LEMMA EndsOvertaken ==
  ASSUME TypeOK, LateInv, Record, NEW r \in Requests, Finish(r)
  PROVE  overtaken' = {q \in Requests : ShutOut(q)'}
  <1>1. req'[r] = NoJob /\ \A q \in Requests \ {r} : req'[q] = req[q]
    BY DEF Finish, TypeOK
  <1>2. ~ ShutOut(r)'
    BY <1>1 DEF ShutOut, LetIn, NoJob
  <1> QED
    BY <1>1, <1>2, OvertakenKept

LEMMA UpdatesLate ==
  ASSUME TypeOK, TypeOK', YearsInv, NoTwoAdmins, ClerksPost, LateInv, Record, NEW r \in Requests,
         UpdatePeriod(r) \/ UpdateYear(r)
  PROVE  LateInv'
  <1>1. /\ Finish(r) /\ req[r].at = "updating" /\ UNCHANGED <<journal, resultTo>>
        /\ req[r].op \in OfYears
    BY DEF UpdatePeriod, UpdateYear, OfYears
  <1>2. overtaken' = {q \in Requests : ShutOut(q)'} /\ \A q \in Requests : LateJob(req[q])'
    BY <1>1, EndsOvertaken, NobodyCloses
  <1>3. \A y \in Years : Brought(y) = 0
    BY <1>1, NothingBrought
  <1>4. arrivedLate' \in [Years -> Int] /\ \A y \in Years : ~ BalancesRead(y)' => arrivedLate'[y] = 0
    BY <1>3, RecordTypes
  <1>5. ASSUME NEW y \in Years, closed'[y] PROVE resultTo'[y] = arrivedLate'[y]
    <2>1. arrivedLate'[y] = arrivedLate[y]
      BY <1>3, <1>5 DEF Record, BalancesRead, LateInv
    <2>2. CASE UpdatePeriod(r)
      BY <1>1, <1>5, <2>1, <2>2 DEF UpdatePeriod, LateInv, OnlyLateEntriesEscape
    <2>3. CASE UpdateYear(r)
      <3>1. closed'[y] = IF y = YearOf(req[r].period) THEN req[r].op = "CLOSE_YEAR" ELSE closed[y]
        BY <1>1, <2>3, YearWritten DEF UpdateYear
      <3>2. req[r].op = "CLOSE_YEAR" =>
              resultTo[YearOf(req[r].period)] = arrivedLate[YearOf(req[r].period)]
        BY <1>1 DEF LateInv, LateJob
      <3> QED
        BY <1>1, <1>5, <2>1, <3>1, <3>2 DEF LateInv, OnlyLateEntriesEscape
    <2> QED
      BY <2>2, <2>3
  <1> QED
    BY <1>2, <1>4, <1>5 DEF LateInv, OnlyLateEntriesEscape

\* What a commit brings late: its own amount, if it was overtaken.
LEMMA CommitBrings ==
  ASSUME TypeOK, RowLocks, RefJobs, NEW r \in Requests, CommitEntry(r), NEW z \in Years
  PROVE  Brought(z) = IF r \in overtaken /\ YearOf(req[r].period) <= z THEN req[r].amount ELSE 0
  <1>1. /\ Len(journal) \in Nat /\ Len(journal') = Len(journal) + 1
        /\ journal'[Len(journal) + 1] = EntryOf(r) /\ EntryOf(r).amount = req[r].amount
    BY CommitShape DEF EntryOf
  <1>2. req'[r].at = "idle" /\ req[r].at = "writing"
    BY NoJobType DEF CommitEntry, Finish, TypeOK
  <1>3. \A q \in Requests : ComesLate(q) <=> q = r /\ r \in overtaken
    BY <1>1, <1>2 DEF ComesLate, CommitEntry, Finish, TypeOK
  <1> QED
    BY <1>1, <1>3 DEF Brought

LEMMA CommitLate ==
  ASSUME TypeOK, TypeOK', RowLocks, RefJobs, YearsInv, NoTwoAdmins, ClerksPost, ClerksPost',
         LateInv, Record, NEW r \in Requests, CommitEntry(r)
  PROVE  LateInv'
  <1> DEFINE y == YearOf(req[r].period)
             late(z) == IF r \in overtaken /\ y <= z THEN req[r].amount ELSE 0
  <1>1. /\ Finish(r) /\ req[r].at = "writing" /\ closed' = ClosedAfter(r) /\ UNCHANGED periodStatus
        /\ resultTo' = [z \in Years |-> resultTo[z] + (IF z >= y THEN req[r].amount ELSE 0)]
    BY DEF CommitEntry
  <1>2. /\ Checked(req[r]) /\ LateJob(req[r]) /\ ClosedYearsInOrder /\ ClosedYearPeriodsClosed
        /\ OnlyLateEntriesEscape /\ req[r] \in Job
    BY DEF YearsInv, ClosedYearsStand, LateInv, TypeOK
  <1>3. /\ y \in Years /\ req[r].period \in Periods /\ req[r].amount \in Int
        /\ Years \subseteq Nat /\ resultTo \in [Years -> Int] /\ arrivedLate \in [Years -> Int]
    <2>1. req[r].period \in Periods /\ req[r].amount \in Int
      BY <1>2 DEF Job
    <2>2. y \in Years
      BY <2>1, PeriodFacts
    <2>3. Years \subseteq Nat
      BY DEF Years
    <2> QED
      BY <2>1, <2>2, <2>3 DEF TypeOK, LateInv
  <1>4. \A z \in Years : Brought(z) = late(z)
    BY CommitBrings
  <1>5. \A z \in Years : late(z) \in Int
    BY <1>3
  <1>6. arrivedLate' \in [Years -> Int] /\ \A z \in Years : ~ BalancesRead(z)' => arrivedLate'[z] = 0
    BY <1>4, <1>5, RecordTypes
  <1>7. \A z \in Years : BalancesRead(z)' => arrivedLate'[z] = arrivedLate[z] + late(z)
    BY <1>4 DEF Record
  <1>8. overtaken' = {q \in Requests : ShutOut(q)'}
    BY <1>1, EndsOvertaken
  <1>9. req[r].op \in {"POST", "REVERSE", "CLOSE_YEAR", "REOPEN_YEAR"}
    BY <1>1, <1>2 DEF Checked, Runs, PeriodsChecked, Job, Ops
  <1>10. \A z \in Years : closed'[z] => BalancesRead(z)'
    BY DEF BalancesRead
  <1> HIDE DEF y, late
  <1>11. CASE req[r].op \in {"POST", "REVERSE"}
    <2>1. closed' = closed
      BY <1>1, <1>11 DEF ClosedAfter
    \* A year at whose end nothing may change any more: all its months are closed.
    <2>2. ASSUME NEW z \in Years, closed[z] \/ \E q \in Requests : BeingClosed(q, z)
          PROVE  resultTo'[z] - resultTo[z] = late(z)
      <3>1. \A p \in Periods : YearOf(p) <= z => periodStatus[p] = "CLOSED"
        <4>1. CASE closed[z]
          <5>1. \A x \in Years : x <= z => EveryPeriodClosed(x)
            BY <1>2, <1>3, <4>1 DEF ClosedYearsInOrder, ClosedYearPeriodsClosed
          <5> QED
            BY <5>1, PeriodFacts DEF EveryPeriodClosed
        <4>2. ASSUME NEW q \in Requests, BeingClosed(q, z)
              PROVE  \A p \in Periods : YearOf(p) <= z => periodStatus[p] = "CLOSED"
          <5>1. EveryPeriodClosed(z) /\ \A x \in Years : x < z => closed[x]
            BY <4>2 DEF BeingClosed, YearsInv, Checked, CloseChecked, Writes
          <5>2. \A x \in Years : x <= z => EveryPeriodClosed(x)
            BY <1>2, <1>3, <5>1 DEF ClosedYearPeriodsClosed
          <5> QED
            BY <5>2, PeriodFacts DEF EveryPeriodClosed
        <4> QED
          BY <2>2, <4>1, <4>2
      <3>2. y <= z => r \in overtaken
        BY <1>1, <1>3, <1>11, <3>1 DEF LateInv, ShutOut, LetIn, MonthOpen, y
      <3> QED
        BY <1>1, <1>3, <3>2 DEF late
    <2>3. OnlyLateEntriesEscape'
      <3> SUFFICES ASSUME NEW z \in Years, closed[z] PROVE resultTo'[z] = arrivedLate'[z]
        BY <2>1 DEF OnlyLateEntriesEscape
      <3>1. resultTo'[z] - resultTo[z] = late(z) /\ arrivedLate'[z] = arrivedLate[z] + late(z)
        BY <1>7, <1>10, <2>1, <2>2
      <3>2. resultTo[z] = arrivedLate[z] /\ resultTo'[z] \in Int
        BY <1>2 DEF OnlyLateEntriesEscape, TypeOK
      <3> QED
        BY <1>3, <1>5, <3>1, <3>2
    <2>4. ASSUME NEW q \in Requests PROVE LateJob(req[q])'
      <3>1. PICK k : k = req'[q]
        OBVIOUS
      <3> DEFINE z == YearOf(k.period)
      <3> SUFFICES ASSUME k.op = "CLOSE_YEAR", k.at \in Writes \union {"updating"}
                   PROVE  /\ k.at \in Writes => k.amount = arrivedLate'[z] - resultTo'[z]
                          /\ k.at = "updating" => resultTo'[z] = arrivedLate'[z]
        BY <3>1 DEF LateJob
      <3>2. q # r /\ k = req[q] /\ k \in Job /\ z \in Years
        BY <1>1, <3>1, PeriodFacts DEF Finish, TypeOK, NoJob, Job
      <3>3. BeingClosed(q, z)
        BY <3>2 DEF BeingClosed, Writes
      <3>4. BalancesRead(z)'
        <4>1. q \in Admins
          BY <3>2 DEF ClerksPost, OfYears, Requests
        <4> QED
          BY <3>1, <3>2, <4>1 DEF BalancesRead, BeingClosed, Writes
      <3>5. resultTo'[z] - resultTo[z] = late(z) /\ arrivedLate'[z] = arrivedLate[z] + late(z)
        BY <1>7, <2>2, <3>2, <3>3, <3>4
      <3>6. /\ k.at \in Writes => k.amount = arrivedLate[z] - resultTo[z]
            /\ k.at = "updating" => resultTo[z] = arrivedLate[z]
        BY <3>2 DEF LateInv, LateJob
      <3>7. /\ resultTo'[z] \in Int /\ resultTo[z] \in Int /\ arrivedLate[z] \in Int
            /\ late(z) \in Int /\ arrivedLate'[z] \in Int
        BY <1>3, <1>5, <1>6, <3>2 DEF TypeOK
      <3> HIDE DEF z
      <3> QED
        BY <3>5, <3>6, <3>7
    <2> QED
      BY <1>6, <1>8, <2>3, <2>4 DEF LateInv
  <1>12. CASE req[r].op \in {"CLOSE_YEAR", "REOPEN_YEAR"}
    <2>1. \A z \in Years : closed'[z] = IF z = y THEN req[r].op = "CLOSE_YEAR" ELSE closed[z]
      BY <1>1, <1>12, YearWritten DEF y
    <2>2. \A z \in Years : late(z) = 0
      BY <1>12 DEF late, LateInv, ShutOut, LetIn
    <2>3. \A q \in Requests : LateJob(req[q])'
      BY <1>1, <1>12, NobodyCloses DEF OfYears
    <2>4. ASSUME NEW z \in Years, closed'[z] PROVE resultTo'[z] = arrivedLate'[z]
      <3>0. arrivedLate'[z] = arrivedLate[z]
        BY <1>3, <1>7, <1>10, <2>2, <2>4
      <3>1. CASE z = y
        <4>1. req[r].op = "CLOSE_YEAR"
          BY <2>1, <2>4, <3>1
        <4>2. req[r].amount = arrivedLate[y] - resultTo[y]
          BY <1>1, <1>2, <4>1 DEF LateJob, Writes, y
        <4> QED
          BY <1>1, <1>3, <3>0, <3>1, <4>2
      <3>2. CASE z # y
        <4>1. closed[z]
          BY <2>1, <2>4, <3>2
        <4>2. z < y
          <5>1. CASE req[r].op = "CLOSE_YEAR"
            <6>1. ~ closed[y]
              BY <1>2, <5>1 DEF Checked, CloseChecked, y
            <6> QED
              BY <1>2, <1>3, <3>2, <4>1, <6>1 DEF ClosedYearsInOrder
          <5>2. CASE req[r].op = "REOPEN_YEAR"
            <6>1. NoLaterYearClosed(y)
              BY <1>1, <1>2, <5>2 DEF Checked, ReopenChecked, y
            <6> QED
              BY <1>3, <3>2, <4>1, <6>1 DEF NoLaterYearClosed
          <5> QED
            BY <1>12, <5>1, <5>2
        <4> QED
          BY <1>1, <1>2, <1>3, <3>0, <4>1, <4>2 DEF OnlyLateEntriesEscape
      <3> QED
        BY <3>1, <3>2
    <2> QED
      BY <1>6, <1>8, <2>3, <2>4 DEF LateInv, OnlyLateEntriesEscape
  <1> QED
    BY <1>9, <1>11, <1>12

---------------------------------------------------------------------------
LateTogether == IInv /\ ReversalInv /\ YearsInv /\ ClerksPost /\ LateInv

LEMMA LateInitially == LateInit => LateTogether
  <1> SUFFICES ASSUME LateInit PROVE LateTogether
    OBVIOUS
  <1>1. IInv /\ ReversalInv /\ YearsInv /\ Init
    BY Initially, ReversalsInitially, YearsInitially DEF LateInit
  <1>2. ClerksPost
    BY <1>1 DEF Init, ClerksPost, NoJob, OfYears, Requests
  <1>3. LateInv
    <2>1. \A r \in Requests : req[r] = NoJob
      BY <1>1 DEF Init
    <2>2. \A r \in Requests : ~ ShutOut(r) /\ LateJob(req[r])
      BY <2>1 DEF ShutOut, LetIn, LateJob, NoJob
    <2>3. OnlyLateEntriesEscape
      BY <1>1 DEF Init, OnlyLateEntriesEscape
    <2> QED
      BY <2>2, <2>3 DEF LateInv, LateInit
  <1> QED
    BY <1>1, <1>2, <1>3 DEF LateTogether

LEMMA LateInductive ==
  LateTogether /\ NoTwoAdmins /\ [Next /\ Record]_lateVars => LateTogether'
  <1> SUFFICES ASSUME LateTogether, NoTwoAdmins, [Next /\ Record]_lateVars PROVE LateTogether'
    OBVIOUS
  <1>1. [Next]_vars
    BY DEF lateVars
  <1>2. IInv' /\ ReversalInv' /\ YearsInv' /\ ClerksPost'
    BY <1>1, Inductive, ReversalsInductive, YearsInductive, ClerksPostInductive
       DEF LateTogether, IInv
  <1>3. CASE Next /\ Record
    <2> USE DEF LateTogether, IInv, ReversalInv
    <2>1. QuietMove => LateInv'
      BY <1>2, <1>3, QuietLate
    <2>2. ASSUME NEW r \in Clerks, ClerkStep(r) PROVE LateInv'
      BY <1>2, <2>1, <2>2, StartsAreQuiet DEF Requests
    <2>3. ASSUME NEW r \in Admins, AdminStart(r) PROVE LateInv'
      BY <1>2, <2>1, <2>3, StartsAreQuiet DEF Requests
    <2>4. ASSUME NEW r \in Admins, AdminStep(r) PROVE LateInv'
      <3>1. r \in Requests /\ (AdminReads(r) \/ UpdatePeriod(r) \/ UpdateYear(r))
        BY <2>4 DEF AdminStep, AdminReads, Requests
      <3> QED
        BY <1>2, <1>3, <2>1, <3>1, AdminReadsQuietly, UpdatesLate
    <2>5. ASSUME NEW r \in Requests, Posting(r) PROVE LateInv'
      BY <1>2, <1>3, <2>1, <2>5, NumbersQuietly, CommitLate DEF Posting
    <2>6. ASSUME NEW r \in Requests, RollBack(r) PROVE LateInv'
      BY <2>1, <2>6, FinishesQuietly DEF RollBack, KeepsBooks
    <2>7. LateInv'
      BY <1>3, <2>2, <2>3, <2>4, <2>5, <2>6 DEF Next
    <2> QED
      BY <1>2, <2>7
  <1>4. CASE UNCHANGED lateVars
    <2>1. \A r \in Requests : ShutOut(r)' = ShutOut(r)
      BY <1>4 DEF lateVars, vars, ShutOut, LetIn, MonthOpen
    <2>2. \A y \in Years : BalancesRead(y)' = BalancesRead(y)
      BY <1>4 DEF lateVars, vars, BalancesRead, BeingClosed
    <2>3. \A r \in Requests : LateJob(req[r])'
      BY <1>4 DEF lateVars, vars, LateTogether, LateInv, LateJob
    <2>4. OnlyLateEntriesEscape'
      BY <1>4 DEF lateVars, vars, LateTogether, LateInv, OnlyLateEntriesEscape
    <2>5. LateInv'
      BY <1>4, <2>1, <2>2, <2>3, <2>4 DEF lateVars, LateTogether, LateInv
    <2> QED
      BY <1>2, <2>5 DEF LateTogether
  <1> QED
    BY <1>2, <1>3, <1>4 DEF LateTogether

\* A closed year's accounts carry what late entries brought and nothing else,
\* beside any number of clerks whose requests overlap with one administrator's,
\* or with any number of administrators one after another (postJournalEntry,
\* postClosingEntry, reopenFiscalYear).
THEOREM ClosedYearsAreSwept ==
    ASSUME MaxInFlight = 1 \/ \A a, b \in Admins : a = b
    PROVE  LateSpec => []OnlyLateEntriesEscape
  <1>1. LateTogether => OnlyLateEntriesEscape
    BY DEF LateTogether, LateInv
  <1>2. CASE MaxInFlight = 1
    <2>1. LateInit => Alone
      BY NoJobType DEF LateInit, Init, Alone
    <2>2. LateTogether /\ Alone /\ [Next /\ Record]_lateVars => Alone'
      BY <1>2, AloneInductive DEF lateVars, LateTogether, IInv
    <2>3. LateTogether /\ Alone => NoTwoAdmins
      BY DEF LateTogether, YearsInv, Alone, NoTwoAdmins, Checked, Runs, OfYears
    <2> QED
      BY <1>1, <2>1, <2>2, <2>3, LateInitially, LateInductive, PTL DEF LateSpec
  <1>3. CASE \A a, b \in Admins : a = b
    <2>1. LateTogether => NoTwoAdmins
      BY <1>3 DEF LateTogether, ClerksPost, NoTwoAdmins, Requests
    <2> QED
      BY <1>1, <2>1, LateInitially, LateInductive, PTL DEF LateSpec
  <1> QED
    BY <1>2, <1>3
=============================================================================
