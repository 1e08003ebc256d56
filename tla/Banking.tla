------------------------------ MODULE Banking ------------------------------
(***************************************************************************)
(* Bank reconciliation: statements are imported, their lines are matched to *)
(* journal entries or recorded as entries of their own, unmatched again,    *)
(* and compared with the books as at a date.                                *)
(*                                                                         *)
(* Each operation is one READ COMMITTED transaction that locks nothing      *)
(* until it writes, so an action is one of its reads, or its writes with    *)
(* the commit.  An entry is abstracted to its day and the net movement it   *)
(* makes on each account a bank account stands for; a statement line to its *)
(* fingerprint: account, day, signed amount and text.                       *)
(***************************************************************************)
EXTENDS Integers, Sequences, FiniteSets, FiniteSetsExt, SequencesExt, Functions

CONSTANTS
    Clerks,      \* requests that match, unmatch and record
    Uploads,     \* requests that import a statement
    BankAccounts,    \* bank accounts, one ledger account each
    Dates,        \* the days things are dated
    Rows,        \* the rows a statement can hold
    Files,       \* the files uploaded: sequences of rows
    Movements,   \* what a document's entry can do to the accounts
    MaxPosted   \* bound: entries ever posted

ASSUME NamesAssumption == Clerks \intersect Uploads = {}
ASSUME DataAssumption ==
    /\ Dates \subseteq Nat
    /\ \A row \in Rows : /\ row.account \in BankAccounts /\ row.day \in Dates
                         /\ row.amount \in Int \ {0}
    /\ Files \subseteq Seq(Rows)
    /\ Movements \subseteq [BankAccounts -> Int]
    /\ MaxPosted \in Nat

NoEntry == 0
NoLine  == 0

VARIABLES
    lines,   \* bank_transactions: the imported row and the entry it is linked to
    journal, \* posted journal entries
    job      \* what each request is doing and has read

bankVars == <<lines, journal, job>>

Line  == [row : Rows, link : Nat]
Entry == [day : Dates, moves : [BankAccounts -> Int], from : Nat, reverses : Nat,
          status : {"POSTED", "REVERSED"}]
Job   == [op : {"NONE", "MATCH", "UNMATCH", "RECORD", "IMPORT"},
          at : {"idle", "choosing", "linking", "clearing", "recording", "inserting"},
          line : Nat, entry : Nat, rows : SUBSET Rows]

NoJob == [op |-> "NONE", at |-> "idle", line |-> NoLine, entry |-> NoEntry, rows |-> {}]
Done(r) == job' = [job EXCEPT ![r] = NoJob]
Idle(r) == job[r].at = "idle"
KeepsBank == UNCHANGED <<lines, journal>>

LineIds  == 1 .. Len(lines)
EntryIds == 1 .. Len(journal)
LinkedTo(e) == {l \in LineIds : lines[l].link = e}

---------------------------------------------------------------------------
(* Faulty forms of definitions below, against which the properties are     *)
(* checked; the specification does not use them.                           *)

FaultEntryTaken(e)        == TRUE
FaultAnyAmount(l, e)      == TRUE
FaultOnlyUnlinks(r)       == FALSE
FaultNoIndex(rows)        == rows
FaultMatchedAnyDay(l, to) == lines[l].link = NoEntry
FaultUndatedPosting(l)    == [from |-> l, status |-> "POSTED", reverses |-> NoEntry,
                              day |-> 0, moves |-> [a \in BankAccounts |-> lines[l].row.amount]]

---------------------------------------------------------------------------
(* importStatement *)

Imported == {lines[l].row : l \in LineIds}

\* The pre-check drops what is already there and what the file repeats.
ReadExisting(w, file) ==
    /\ Idle(w)
    /\ job' = [job EXCEPT ![w] =
                 [NoJob EXCEPT !.op = "IMPORT", !.at = "inserting",
                               !.rows = ToSet(file) \ Imported]]
    /\ KeepsBank

\* createMany skips what the unique index on the fingerprint rejects.
Insertable(rows) == rows \ Imported
InsertRows(w) ==
    LET rows == SetToSeq(Insertable(job[w].rows)) IN
    /\ job[w].at = "inserting"
    /\ lines' = lines \o [i \in 1 .. Len(rows) |-> [row |-> rows[i], link |-> NoEntry]]
    /\ Done(w)
    /\ UNCHANGED journal

---------------------------------------------------------------------------
(* matchTransaction *)

Link(l, e) == lines' = [lines EXCEPT ![l].link = e]

MatchTransaction(r, l, e) ==
    /\ Idle(r)
    /\ lines[l].link = NoEntry
    /\ job' = [job EXCEPT ![r] = [NoJob EXCEPT !.op = "MATCH", !.at = "choosing",
                                               !.line = l, !.entry = e]]
    /\ KeepsBank

EntryFree(e) == LinkedTo(e) = {}
\* Equal, not close; an entry that does not touch the account moves nothing on it.
AmountsAgree(l, e) == journal[e].moves[lines[l].row.account] = lines[l].row.amount
MayMatch(l, e) == journal[e].status = "POSTED" /\ EntryFree(e) /\ AmountsAgree(l, e)

ReadEntry(r) ==
    /\ job[r].at = "choosing"
    /\ IF MayMatch(job[r].line, job[r].entry)
         THEN job' = [job EXCEPT ![r].at = "linking"]
         ELSE Done(r)
    /\ KeepsBank

LinkLine(r) ==
    /\ job[r].at = "linking"
    /\ Link(job[r].line, job[r].entry)
    /\ Done(r)
    /\ UNCHANGED journal

---------------------------------------------------------------------------
(* unmatchTransaction *)

PostEntry(entry) == journal' = Append(journal, entry)
HasRoom == Len(journal) + Cardinality({r \in Clerks : job[r].op \in {"UNMATCH", "RECORD"}})
             < MaxPosted

UnmatchTransaction(r, l) ==
    /\ Idle(r) /\ HasRoom
    /\ lines[l].link # NoEntry
    /\ job' = [job EXCEPT ![r] = [NoJob EXCEPT !.op = "UNMATCH", !.at = "clearing",
                                               !.line = l, !.entry = lines[l].link]]
    /\ KeepsBank

RecordedFromThisLine(r) == journal[job[r].entry].from = job[r].line

\* reversePostedEntry: the mirror image on the same day; reversesId is @unique.
Mirror(e) == [day |-> journal[e].day, from |-> NoLine, reverses |-> e, status |-> "POSTED",
              moves |-> [a \in BankAccounts |-> - journal[e].moves[a]]]
AlreadyReversed(e) == \E i \in EntryIds : journal[i].reverses = e
ReverseEntry(e) == journal' = Append([journal EXCEPT ![e].status = "REVERSED"], Mirror(e))

ClearLink(r) ==
    /\ job[r].at = "clearing"
    /\ IF RecordedFromThisLine(r)
         THEN ~ AlreadyReversed(job[r].entry) /\ ReverseEntry(job[r].entry)
         ELSE UNCHANGED journal
    /\ Link(job[r].line, NoEntry)
    /\ Done(r)

\* An error, a refused period, a lost connection or the index: all is undone.
RollBack(r) ==
    /\ ~ Idle(r)
    /\ Done(r)
    /\ KeepsBank

---------------------------------------------------------------------------
(* recordFromStatement *)

RecordFromStatement(r, l) ==
    /\ Idle(r) /\ HasRoom
    /\ lines[l].link = NoEntry
    /\ job' = [job EXCEPT ![r] = [NoJob EXCEPT !.op = "RECORD", !.at = "recording", !.line = l]]
    /\ KeepsBank

EntryOf(l) ==
    [day |-> lines[l].row.day, from |-> l, reverses |-> NoEntry, status |-> "POSTED",
     moves |-> [a \in BankAccounts |-> IF a = lines[l].row.account THEN lines[l].row.amount ELSE 0]]

PostAndLink(r) ==
    /\ job[r].at = "recording"
    /\ PostEntry(EntryOf(job[r].line))
    /\ Link(job[r].line, Len(journal) + 1)
    /\ Done(r)

---------------------------------------------------------------------------
(* The documents of the other modules, which do not look at the bank. *)

PostDocument(day, moves) ==
    /\ HasRoom
    /\ PostEntry([day |-> day, moves |-> moves, from |-> NoLine, reverses |-> NoEntry,
             status |-> "POSTED"])
    /\ UNCHANGED <<lines, job>>

VoidDocument(e) ==
    /\ HasRoom
    /\ journal[e].status = "POSTED" /\ journal[e].from = NoLine
    /\ journal[e].reverses = NoEntry
    /\ ReverseEntry(e)
    /\ UNCHANGED <<lines, job>>

---------------------------------------------------------------------------
(* reconciliationView and reconciliationDifference, as at the day `to`. *)

BookItems(a, to) == {e \in EntryIds : journal[e].day <= to /\ journal[e].moves[a] # 0}
StatementItems(a, to) == {l \in LineIds : lines[l].row.account = a /\ lines[l].row.day <= to}

\* Matched across the boundary is still outstanding on this side of it.
LineOutstanding(l, to) == lines[l].link = NoEntry \/ journal[lines[l].link].day > to
\* bankTransactions[0]: the first line linked to the entry, of whatever account.
EntryOutstanding(e, to) == \/ LinkedTo(e) = {}
                           \/ lines[Min(LinkedTo(e))].row.day > to

Moved(a, S) == SumFunctionOnSet([e \in EntryIds |-> journal[e].moves[a]], S)
Shown(S)    == SumFunctionOnSet([l \in LineIds |-> lines[l].row.amount], S)

Unexplained(a, to) ==
    LET perBooks     == Moved(a, BookItems(a, to))
        perStatement == Shown(StatementItems(a, to))
        unpresented  == Moved(a, {e \in BookItems(a, to) : EntryOutstanding(e, to)})
        unrecorded   == Shown({l \in StatementItems(a, to) : LineOutstanding(l, to)})
    IN (perBooks - unpresented) - (perStatement - unrecorded)

---------------------------------------------------------------------------
BankInit ==
    /\ lines = << >>
    /\ journal = << >>
    /\ job = [r \in Clerks \union Uploads |-> NoJob]

ClerkStart(r) ==
    \E l \in LineIds :
        \/ \E e \in EntryIds : MatchTransaction(r, l, e)
        \/ UnmatchTransaction(r, l)
        \/ RecordFromStatement(r, l)
ClerkStep(r) == ReadEntry(r) \/ LinkLine(r) \/ ClearLink(r) \/ PostAndLink(r)
UploadStep(w) == (\E file \in Files : ReadExisting(w, file)) \/ InsertRows(w)
OtherModules == \/ \E day \in Dates, moves \in Movements : PostDocument(day, moves)
                \/ \E e \in EntryIds : VoidDocument(e)

BankNext ==
    \/ \E r \in Clerks : ClerkStart(r) \/ ClerkStep(r) \/ RollBack(r)
    \/ \E w \in Uploads : UploadStep(w) \/ RollBack(w)
    \/ OtherModules

BankSpec == BankInit /\ [][BankNext]_bankVars

---------------------------------------------------------------------------
(* Properties *)

TypeOK ==
    /\ lines \in Seq(Line)
    /\ journal \in Seq(Entry)
    /\ job \in [Clerks \union Uploads -> Job]

\* The books and the statement of an account differ by the items outstanding on
\* either side and by nothing else, as at every day: a match made later, across
\* the end of a period, does not unsettle the period that was agreed
\* (reconciliationView, reconciliationDifference).
NothingUnexplained == \A a \in BankAccounts, to \in Dates : Unexplained(a, to) = 0

\* A statement line has one live entry recorded from it, and that entry is the
\* one it is linked to: undoing a recording takes it out of the books, so that
\* recording the line again does not count it twice (recordFromStatement,
\* unmatchTransaction).
RecordedOnce == \A e \in EntryIds :
    journal[e].from # NoLine /\ journal[e].status = "POSTED" => lines[journal[e].from].link = e

\* An entry is claimed by one statement line, and by the amount it moves on that
\* line's account (matchTransaction).
OneLinePerEntry == \A e \in EntryIds : Cardinality(LinkedTo(e)) <= 1
LinksAgree == \A l \in LineIds :
    lines[l].link # NoEntry
      => journal[lines[l].link].moves[lines[l].row.account] = lines[l].row.amount

\* A movement the bank reports is imported once, however often its file is
\* uploaded and whatever uploads run side by side (importStatement).
ImportedOnce == \A l, m \in LineIds : lines[l].row = lines[m].row => l = m

\* What a match says can be relied on: rows well formed and on the books once,
\* one line to an entry, the same amount on both sides (matchTransaction,
\* recordFromStatement, importStatement).
LinksStand == TypeOK /\ ImportedOnce /\ OneLinePerEntry /\ LinksAgree
=============================================================================
