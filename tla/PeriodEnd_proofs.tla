------------------------- MODULE PeriodEnd_proofs -------------------------
(***************************************************************************)
(* What a period's end rests on, for instances of any size: the bank        *)
(* reconciled with the books, the tax credits set off, the reports, whose    *)
(* figures must agree with each other and with the ledger they read, the     *)
(* suggestions for a statement's lines, the depreciation of a block, the     *)
(* income tax of a working paper and the GST of a line and its returns.      *)
(***************************************************************************)
EXTENDS Banking, SetOff, Statements, Matching, Depreciation, IncomeTax, Gst, Sums,
        FiniteSetTheorems, SequenceTheorems, TLAPS

---------------------------------------------------------------------------
(* Bank reconciliation, with one clerk's request at a time.                  *)

\* Lines name entries that exist, and entries lines.
WellLinked ==
    /\ \A l \in LineIds : lines[l].link \in 0 .. Len(journal)
    /\ \A e \in EntryIds : journal[e].from \in 0 .. Len(lines)
LinkedOnce == \A l, m \in LineIds :
    lines[l].link # NoEntry /\ lines[l].link = lines[m].link => l = m

\* What a clerk's request has read of its line and of its entry still holds.
Sound(r) ==
    /\ job[r].at # "inserting"
    /\ job[r].at # "idle" => job[r].line \in LineIds
    /\ job[r].at \in {"choosing", "linking", "recording"} => lines[job[r].line].link = NoEntry
    /\ job[r].at \in {"choosing", "linking"} => job[r].entry \in EntryIds
    /\ job[r].at = "linking" => EntryFree(job[r].entry) /\ AmountsAgree(job[r].line, job[r].entry)
    /\ job[r].at = "clearing" => /\ job[r].entry \in EntryIds
                                 /\ lines[job[r].line].link = job[r].entry

\* An upload carries finitely many rows.
Finite(w) == IsFiniteSet(job[w].rows)

\* The inductive invariant.
IInv ==
    /\ TypeOK /\ WellLinked
    /\ ImportedOnce /\ LinkedOnce /\ LinksAgree /\ RecordedOnce
    /\ \A r \in Clerks : Sound(r)
    /\ \A w \in Uploads : Finite(w)

\* The part of the invariant about lines and entries.
Books == WellLinked /\ ImportedOnce /\ LinkedOnce /\ LinksAgree /\ RecordedOnce

\* Indices, and what is found at them.
LEMMA Basics ==
    ASSUME TypeOK
    PROVE  /\ lines \in Seq(Line) /\ journal \in Seq(Entry)
           /\ Len(lines) \in Nat /\ Len(journal) \in Nat
           /\ LineIds = DOMAIN lines /\ EntryIds = DOMAIN journal
           /\ \A l \in LineIds : lines[l] \in Line
           /\ \A e \in EntryIds : journal[e] \in Entry
           /\ NoEntry \notin EntryIds /\ NoLine \notin LineIds
           /\ LineIds \subseteq Nat /\ EntryIds \subseteq Nat
  BY DEF TypeOK, LineIds, EntryIds, NoEntry, NoLine

\* The journal only grows: an entry keeps its day, its amounts and the line it
\* was recorded from, and a reversed one stays reversed.
Grows ==
    /\ journal' \in Seq(Entry)
    /\ Len(journal) <= Len(journal')
    /\ \A e \in EntryIds : /\ journal'[e].day = journal[e].day
                           /\ journal'[e].moves = journal[e].moves
                           /\ journal'[e].from = journal[e].from
                           /\ journal'[e].status = "POSTED" => journal[e].status = "POSTED"

\* Posting adds one entry at the end and changes no other (postJournalEntry).
LEMMA PostFacts ==
    ASSUME TypeOK, NEW entry \in Entry, PostEntry(entry)
    PROVE  /\ Grows /\ Len(journal') = Len(journal) + 1
           /\ journal'[Len(journal) + 1] = entry
           /\ \A e \in EntryIds : journal'[e] = journal[e]
  <1>1. journal' = Append(journal, entry)
    BY DEF PostEntry
  <1>2. journal' \in Seq(Entry)
    BY <1>1, Basics
  <1>3. Len(journal') = Len(journal) + 1 /\ journal'[Len(journal) + 1] = entry
    BY <1>1, Basics
  <1>4. \A e \in EntryIds : journal'[e] = journal[e]
    BY <1>1, Basics DEF EntryIds
  <1> QED
    BY <1>2, <1>3, <1>4, Basics DEF Grows

\* Reversing marks the entry and adds its mirror image (reversePostedEntry).
LEMMA ReverseFacts ==
    ASSUME TypeOK, NEW e \in EntryIds, ReverseEntry(e)
    PROVE  /\ Grows /\ Len(journal') = Len(journal) + 1
           /\ journal'[Len(journal) + 1] = Mirror(e)
           /\ journal'[e].status = "REVERSED"
  <1> DEFINE changed == [journal[e] EXCEPT !.status = "REVERSED"]
             s == [journal EXCEPT ![e] = changed]
  <1>1. journal[e] \in Entry
    BY Basics
  <1>2. /\ changed \in Entry /\ changed.status = "REVERSED" /\ changed.day = journal[e].day
        /\ changed.moves = journal[e].moves /\ changed.from = journal[e].from
    BY <1>1 DEF Entry
  <1>3. Mirror(e) \in Entry
    <2>1. /\ \A a \in BankAccounts : journal[e].moves[a] \in Int
          /\ e \in Nat /\ journal[e].day \in Dates
      BY <1>1, Basics DEF Entry, EntryIds
    <2>2. [a \in BankAccounts |-> - journal[e].moves[a]] \in [BankAccounts -> Int]
      BY <2>1
    <2> QED
      BY <2>1, <2>2 DEF Mirror, Entry, NoLine
  <1>4. journal' = Append(s, Mirror(e))
    BY DEF ReverseEntry
  <1> HIDE DEF changed
  <1>5. s \in Seq(Entry) /\ Len(s) = Len(journal) /\ s[e] = changed
        /\ \A i \in EntryIds : i # e => s[i] = journal[i]
    BY <1>2, Basics DEF EntryIds
  <1> HIDE DEF s
  <1>6. journal' \in Seq(Entry) /\ Len(journal') = Len(journal) + 1
        /\ journal'[Len(journal) + 1] = Mirror(e)
    BY <1>3, <1>4, <1>5
  <1>7. \A i \in EntryIds : journal'[i] = s[i]
    BY <1>4, <1>5, Basics DEF EntryIds
  <1>8. \A i \in EntryIds : /\ s[i].day = journal[i].day /\ s[i].moves = journal[i].moves
                            /\ s[i].from = journal[i].from
                            /\ s[i].status = "POSTED" => journal[i].status = "POSTED"
    BY <1>2, <1>5
  <1>9. Grows
    BY <1>6, <1>7, <1>8, Basics DEF Grows
  <1> QED
    BY <1>2, <1>5, <1>6, <1>7, <1>9

\* Writing a line's link changes nothing else about the lines.
LEMMA LinkFacts ==
    ASSUME TypeOK, NEW l \in LineIds, NEW e \in Nat, Link(l, e)
    PROVE  /\ lines' \in Seq(Line) /\ Len(lines') = Len(lines)
           /\ lines'[l].link = e
           /\ \A m \in LineIds : /\ lines'[m].row = lines[m].row
                                 /\ m # l => lines'[m].link = lines[m].link
  <1> DEFINE changed == [lines[l] EXCEPT !.link = e]
  <1>1. lines[l] \in Line
    BY Basics
  <1>2. changed \in Line /\ changed.link = e /\ changed.row = lines[l].row
    BY <1>1 DEF Line
  <1>3. lines' = [lines EXCEPT ![l] = changed]
    BY DEF Link
  <1> HIDE DEF changed
  <1>4. lines' \in Seq(Line) /\ Len(lines') = Len(lines) /\ lines'[l] = changed
        /\ \A m \in LineIds : m # l => lines'[m] = lines[m]
    BY <1>2, <1>3, Basics DEF LineIds
  <1> QED
    BY <1>2, <1>4

\* What is appended comes after what was there.
LEMMA Appended ==
    ASSUME NEW S, NEW s \in Seq(S), NEW t \in Seq(S)
    PROVE  /\ s \o t \in Seq(S) /\ Len(s \o t) = Len(s) + Len(t)
           /\ \A m \in 1 .. Len(s) : (s \o t)[m] = s[m]
           /\ \A m \in 1 .. Len(s \o t) : m \notin 1 .. Len(s) =>
                 m - Len(s) \in 1 .. Len(t) /\ (s \o t)[m] = t[m - Len(s)]
  <1>1. s \o t \in Seq(S) /\ Len(s \o t) = Len(s) + Len(t) /\ Len(s) \in Nat /\ Len(t) \in Nat
    OBVIOUS
  <1>2. \A m \in 1 .. Len(s) : (s \o t)[m] = s[m]
    OBVIOUS
  <1>3. ASSUME NEW m \in 1 .. Len(s \o t), m \notin 1 .. Len(s)
        PROVE  m - Len(s) \in 1 .. Len(t) /\ (s \o t)[m] = t[m - Len(s)]
    <2>1. m \in Int /\ m > Len(s) /\ m <= Len(s) + Len(t)
      BY <1>1, <1>3
    <2> QED
      BY <1>1, <2>1
  <1> QED
    BY <1>1, <1>2, <1>3

\* A set put in a sequence is there once, and nothing else is.
LEMMA SetToSeqFacts ==
    ASSUME NEW S, IsFiniteSet(S)
    PROVE  /\ Len(SetToSeq(S)) \in Nat
           /\ SetToSeq(S) \in [1 .. Len(SetToSeq(S)) -> S]
           /\ \A i, j \in 1 .. Len(SetToSeq(S)) : SetToSeq(S)[i] = SetToSeq(S)[j] => i = j
  <1>1. Cardinality(S) \in Nat /\ ExistsBijection(1 .. Cardinality(S), S)
    BY FS_CardinalityType
  <1>2. \E f \in [1 .. Cardinality(S) -> S] : IsInjective(f)
    BY <1>1 DEF ExistsBijection, Bijection, Injection
  <1>3. SetToSeq(S) \in [1 .. Cardinality(S) -> S] /\ IsInjective(SetToSeq(S))
    BY <1>2 DEF SetToSeq
  <1>4. SetToSeq(S) \in Seq(S) /\ Len(SetToSeq(S)) = Cardinality(S)
    BY <1>1, <1>3
  <1> QED
    BY <1>1, <1>3, <1>4 DEF IsInjective

\* What an upload inserts is linked to nothing, was not there and is there once.
LEMMA InsertFacts ==
    ASSUME TypeOK, NEW w \in Uploads, Finite(w), InsertRows(w)
    PROVE  /\ lines' \in Seq(Line) /\ Len(lines) <= Len(lines')
           /\ \A m \in LineIds : lines'[m] = lines[m]
           /\ \A m \in LineIds' : m \notin LineIds =>
                 lines'[m].link = NoEntry /\ lines'[m].row \notin Imported
           /\ \A m, n \in LineIds' :
                 m \notin LineIds /\ n \notin LineIds /\ lines'[m].row = lines'[n].row => m = n
  <1> DEFINE S == Insertable(job[w].rows)
             rows == SetToSeq(S)
             new == [i \in 1 .. Len(rows) |-> [row |-> rows[i], link |-> NoEntry]]
  <1>1. S \subseteq Rows /\ IsFiniteSet(S) /\ S \intersect Imported = {}
    <2>1. job[w].rows \subseteq Rows
      BY DEF TypeOK, Job
    <2>2. S \subseteq job[w].rows /\ S \intersect Imported = {}
      BY DEF Insertable
    <2> QED
      BY <2>1, <2>2, FS_Subset DEF Finite
  <1> HIDE DEF S
  <1>2. /\ Len(rows) \in Nat /\ rows \in [1 .. Len(rows) -> S]
        /\ \A i, j \in 1 .. Len(rows) : rows[i] = rows[j] => i = j
    BY <1>1, SetToSeqFacts
  <1>3. lines' = lines \o new
    BY DEF InsertRows, S
  <1> HIDE DEF rows
  <1>4. \A i \in 1 .. Len(rows) : new[i] \in Line /\ new[i].row = rows[i] /\ new[i].link = NoEntry
    BY <1>1, <1>2 DEF Line, NoEntry
  <1>5. new \in Seq(Line) /\ Len(new) = Len(rows)
    BY <1>2, <1>4
  <1> HIDE DEF new
  <1>6. /\ lines' \in Seq(Line) /\ Len(lines') = Len(lines) + Len(rows)
        /\ \A m \in LineIds : lines'[m] = lines[m]
        /\ \A m \in LineIds' : m \notin LineIds =>
              m - Len(lines) \in 1 .. Len(rows) /\ lines'[m] = new[m - Len(lines)]
    <2>1. lines \in Seq(Line)
      BY Basics
    <2> QED
      BY <1>3, <1>5, <2>1, Appended DEF LineIds
  <1>7. ASSUME NEW m \in LineIds', m \notin LineIds
        PROVE  m - Len(lines) \in 1 .. Len(rows) /\ lines'[m] = new[m - Len(lines)]
    BY <1>6, <1>7
  <1>8. ASSUME NEW m \in LineIds', m \notin LineIds
        PROVE  lines'[m].link = NoEntry /\ lines'[m].row \notin Imported
    BY <1>1, <1>2, <1>4, <1>7, <1>8
  <1>9. ASSUME NEW m \in LineIds', NEW n \in LineIds', m \notin LineIds, n \notin LineIds,
               lines'[m].row = lines'[n].row
        PROVE  m = n
    <2>1. m - Len(lines) = n - Len(lines)
      BY <1>2, <1>4, <1>7, <1>9
    <2>2. m \in Int /\ n \in Int /\ Len(lines) \in Int
      BY <1>6, Basics DEF LineIds
    <2> QED
      BY <2>1, <2>2
  <1> QED
    BY <1>2, <1>6, <1>8, <1>9, Basics

\* Lines are only added, and those added are linked to nothing.
LinesGrow ==
    /\ lines' \in Seq(Line)
    /\ Len(lines) <= Len(lines')
    /\ \A m \in LineIds : lines'[m] = lines[m]
    /\ \A m \in LineIds' : m \notin LineIds => lines'[m].link = NoEntry

\* When lines and entries are only added, lines of movements not yet imported and
\* entries recorded from none, links and recordings stand as they were.
LEMMA Grown ==
    ASSUME TypeOK, Books, Grows, LinesGrow,
           \A m \in LineIds' : m \notin LineIds => lines'[m].row \notin Imported,
           \A m, n \in LineIds' :
              m \notin LineIds /\ n \notin LineIds /\ lines'[m].row = lines'[n].row => m = n,
           \A e \in EntryIds' : e \notin EntryIds => journal'[e].from = NoLine
    PROVE  Books'
  <1>0. /\ Len(lines) \in Nat /\ Len(lines') \in Nat /\ Len(journal) \in Nat /\ Len(journal') \in Nat
        /\ LineIds \subseteq LineIds' /\ EntryIds \subseteq EntryIds'
        /\ NoEntry = 0 /\ NoLine = 0
    <2>1. Len(lines) \in Nat /\ Len(lines') \in Nat /\ Len(journal) \in Nat /\ Len(journal') \in Nat
      BY Basics DEF Grows, LinesGrow
    <2> QED
      BY <2>1 DEF Grows, LinesGrow, LineIds, EntryIds, NoEntry, NoLine
  <1>1. WellLinked'
    <2>1. ASSUME NEW l \in LineIds' PROVE lines'[l].link \in 0 .. Len(journal')
      <3>1. CASE l \in LineIds
        <4>1. lines'[l].link \in 0 .. Len(journal)
          BY <3>1 DEF Books, WellLinked, LinesGrow
        <4> QED
          BY <1>0, <4>1 DEF Grows
      <3>2. CASE l \notin LineIds
        BY <1>0, <3>2 DEF LinesGrow
      <3> QED
        BY <3>1, <3>2
    <2>2. ASSUME NEW e \in EntryIds' PROVE journal'[e].from \in 0 .. Len(lines')
      <3>1. CASE e \in EntryIds
        <4>1. journal'[e].from \in 0 .. Len(lines)
          BY <3>1 DEF Books, WellLinked, Grows
        <4> QED
          BY <1>0, <4>1 DEF LinesGrow
      <3>2. CASE e \notin EntryIds
        BY <1>0, <3>2
      <3> QED
        BY <3>1, <3>2
    <2> QED
      BY <2>1, <2>2 DEF WellLinked
  <1>2. ImportedOnce'
    <2> SUFFICES ASSUME NEW l \in LineIds', NEW m \in LineIds', lines'[l].row = lines'[m].row
                 PROVE  l = m
      BY DEF ImportedOnce
    <2>1. ASSUME NEW i \in LineIds PROVE lines'[i].row = lines[i].row /\ lines[i].row \in Imported
      BY DEF LinesGrow, Imported
    <2> QED
      BY <2>1 DEF Books, ImportedOnce
  <1>3. LinkedOnce'
    BY DEF LinesGrow, Books, LinkedOnce
  <1>4. LinksAgree'
    <2> SUFFICES ASSUME NEW l \in LineIds', lines'[l].link # NoEntry
                 PROVE  journal'[lines'[l].link].moves[lines'[l].row.account] = lines'[l].row.amount
      BY DEF LinksAgree
    <2>1. l \in LineIds /\ lines'[l] = lines[l]
      BY DEF LinesGrow
    <2>2. lines[l].link \in EntryIds
      BY <1>0, <2>1 DEF Books, WellLinked, EntryIds
    <2> QED
      BY <2>1, <2>2 DEF Books, LinksAgree, Grows
  <1>5. RecordedOnce'
    <2> SUFFICES ASSUME NEW e \in EntryIds', journal'[e].from # NoLine, journal'[e].status = "POSTED"
                 PROVE  lines'[journal'[e].from].link = e
      BY DEF RecordedOnce
    <2>1. e \in EntryIds
      OBVIOUS
    <2>2. journal[e].from = journal'[e].from /\ journal[e].status = "POSTED"
      BY <2>1 DEF Grows
    <2>3. journal[e].from \in LineIds
      BY <1>0, <2>1, <2>2 DEF Books, WellLinked, LineIds
    <2> QED
      BY <2>1, <2>2, <2>3 DEF Books, RecordedOnce, LinesGrow
  <1> QED
    BY <1>1, <1>2, <1>3, <1>4, <1>5 DEF Books

\* What a waiting request has read of its line and its entry survives that.
LEMMA SoundKept ==
    ASSUME TypeOK, Books, Grows, LinesGrow, NEW r \in Clerks, Sound(r), job'[r] = job[r]
    PROVE  Sound(r)'
  <1>0. /\ LineIds \subseteq LineIds' /\ EntryIds \subseteq EntryIds'
    <2>1. Len(lines) \in Nat /\ Len(lines') \in Nat /\ Len(journal) \in Nat /\ Len(journal') \in Nat
      BY Basics DEF Grows, LinesGrow
    <2> QED
      BY <2>1 DEF Grows, LinesGrow, LineIds, EntryIds
  <1>1. ASSUME job[r].at = "linking"
        PROVE  EntryFree(job[r].entry)' /\ AmountsAgree(job[r].line, job[r].entry)'
    <2>1. job[r].line \in LineIds /\ job[r].entry \in EntryIds
          /\ EntryFree(job[r].entry) /\ AmountsAgree(job[r].line, job[r].entry)
      BY <1>1 DEF Sound
    <2>2. AmountsAgree(job[r].line, job[r].entry)'
      BY <2>1 DEF AmountsAgree, Grows, LinesGrow
    <2>3. job[r].entry # NoEntry
      BY <2>1, Basics
    <2>4. ASSUME NEW l \in LineIds' PROVE lines'[l].link # job[r].entry
      BY <2>1, <2>3 DEF EntryFree, LinkedTo, LinesGrow
    <2> QED
      BY <2>2, <2>4 DEF EntryFree, LinkedTo
  <1>2. job[r].at # "idle" => lines'[job[r].line] = lines[job[r].line]
    BY DEF LinesGrow, Sound
  <1> QED
    BY <1>0, <1>1, <1>2 DEF Sound

\* A request that has ended carries nothing.
LEMMA NoJobFacts ==
    NoJob \in Job /\ NoJob.at = "idle" /\ NoJob.rows = {} /\ IsFiniteSet(NoJob.rows)
  BY FS_EmptySet DEF NoJob, Job, NoLine, NoEntry

\* What a step of a request without writes leaves of the invariant to be shown.
LEMMA Quiet ==
    ASSUME TypeOK, UNCHANGED <<lines, journal>>
    PROVE  Grows /\ LinesGrow /\ LineIds' = LineIds /\ EntryIds' = EntryIds
  BY Basics DEF Grows, LinesGrow, LineIds, EntryIds

\* Of one clerk's step it is enough to say what its request is then.
LEMMA Assemble ==
    ASSUME \A a, b \in Clerks : a = b, IInv, NEW r \in Clerks, NEW new \in Job,
           job' = [job EXCEPT ![r] = new],
           lines' \in Seq(Line), journal' \in Seq(Entry), Books', Sound(r)'
    PROVE  IInv'
  <1>1. job \in [Clerks \union Uploads -> Job] /\ job' \in [Clerks \union Uploads -> Job]
    BY DEF IInv, TypeOK
  <1>2. TypeOK'
    BY <1>1 DEF TypeOK
  <1>3. \A w \in Uploads : Finite(w)'
    <2>1. \A w \in Uploads : job'[w] = job[w]
      BY <1>1, NamesAssumption
    <2> QED
      BY <2>1 DEF IInv, Finite
  <1> QED
    BY <1>2, <1>3 DEF IInv, Books

\* A clerk's step that writes nothing needs only what the request then relies on.
LEMMA ClerkQuiet ==
    ASSUME \A a, b \in Clerks : a = b, IInv, NEW r \in Clerks, NEW new \in Job,
           job' = [job EXCEPT ![r] = new], UNCHANGED <<lines, journal>>, Sound(r)'
    PROVE  IInv'
  <1>1. TypeOK /\ Books
    BY DEF IInv, Books
  <1>2. Grows /\ LinesGrow /\ LineIds' = LineIds /\ EntryIds' = EntryIds
    BY <1>1, Quiet
  <1>3. Books'
    BY <1>1, <1>2, Grown
  <1> QED
    BY <1>1, <1>2, <1>3, Assemble DEF Grows, LinesGrow

\* What a request is doing after its step.
LEMMA JobIs ==
    ASSUME TypeOK, NEW r \in Clerks, NEW new \in Job, job' = [job EXCEPT ![r] = new]
    PROVE  job'[r] = new /\ job[r] \in Job
  BY DEF TypeOK

\* matchTransaction, the line.
LEMMA MatchReads ==
    ASSUME \A a, b \in Clerks : a = b, IInv, NEW r \in Clerks, NEW l \in LineIds, NEW e \in EntryIds,
           MatchTransaction(r, l, e)
    PROVE  IInv'
  <1> DEFINE new == [NoJob EXCEPT !.op = "MATCH", !.at = "choosing", !.line = l, !.entry = e]
  <1>0. l \in Nat /\ e \in Nat
    BY Basics DEF IInv
  <1>1. new \in Job /\ new.at = "choosing" /\ new.line = l /\ new.entry = e
    BY <1>0, NoJobFacts DEF NoJob, Job
  <1>2. job' = [job EXCEPT ![r] = new] /\ UNCHANGED <<lines, journal>> /\ lines[l].link = NoEntry
    BY DEF MatchTransaction, KeepsBank
  <1> HIDE DEF new
  <1>3. job'[r] = new
    BY <1>1, <1>2, JobIs DEF IInv
  <1>4. Sound(r)'
    BY <1>1, <1>2, <1>3 DEF Sound, LineIds, EntryIds
  <1> QED
    BY <1>1, <1>2, <1>4, ClerkQuiet

\* matchTransaction, the entry and the checks.
LEMMA EntryReads ==
    ASSUME \A a, b \in Clerks : a = b, IInv, NEW r \in Clerks, ReadEntry(r)
    PROVE  IInv'
  <1>0. job[r] \in Job /\ Sound(r) /\ job[r].at = "choosing" /\ UNCHANGED <<lines, journal>>
    BY DEF IInv, TypeOK, ReadEntry, KeepsBank
  <1>1. CASE MayMatch(job[r].line, job[r].entry)
    <2> DEFINE new == [job[r] EXCEPT !.at = "linking"]
    <2>1. new \in Job /\ new.at = "linking" /\ new.line = job[r].line /\ new.entry = job[r].entry
      BY <1>0 DEF Job
    <2>2. job' = [job EXCEPT ![r] = new]
      BY <1>1 DEF ReadEntry
    <2> HIDE DEF new
    <2>3. job'[r] = new
      BY <2>1, <2>2, JobIs DEF IInv
    <2>4. EntryFree(new.entry) /\ AmountsAgree(new.line, new.entry)
      BY <1>1, <2>1 DEF MayMatch
    <2>5. EntryFree(job[r].entry)' /\ AmountsAgree(job[r].line, job[r].entry)'
      BY <1>0, <2>3, <2>4 DEF EntryFree, AmountsAgree, LinkedTo, LineIds
    <2>6. Sound(r)'
      BY <1>0, <2>1, <2>3, <2>5 DEF Sound, LineIds, EntryIds
    <2> QED
      BY <1>0, <2>1, <2>2, <2>6, ClerkQuiet
  <1>2. CASE ~ MayMatch(job[r].line, job[r].entry)
    <2>1. job' = [job EXCEPT ![r] = NoJob]
      BY <1>2 DEF ReadEntry, Done
    <2>2. Sound(r)'
      BY <2>1, NoJobFacts, JobIs DEF Sound, IInv
    <2> QED
      BY <1>0, <2>1, <2>2, NoJobFacts, ClerkQuiet
  <1> QED
    BY <1>1, <1>2

\* unmatchTransaction, before its writes.
LEMMA UnmatchReads ==
    ASSUME \A a, b \in Clerks : a = b, IInv, NEW r \in Clerks, NEW l \in LineIds,
           UnmatchTransaction(r, l)
    PROVE  IInv'
  <1> DEFINE new == [NoJob EXCEPT !.op = "UNMATCH", !.at = "clearing", !.line = l,
                                  !.entry = lines[l].link]
  <1>0. lines[l].link \in EntryIds /\ lines[l].link \in Nat /\ l \in Nat
    <2>1. lines[l].link \in 0 .. Len(journal) /\ lines[l].link # 0 /\ Len(journal) \in Nat
          /\ l \in Nat
      BY Basics DEF IInv, WellLinked, UnmatchTransaction, NoEntry
    <2> QED
      BY <2>1 DEF EntryIds
  <1>1. new \in Job /\ new.at = "clearing" /\ new.line = l /\ new.entry = lines[l].link
    BY <1>0, NoJobFacts DEF NoJob, Job
  <1>2. job' = [job EXCEPT ![r] = new] /\ UNCHANGED <<lines, journal>>
    BY DEF UnmatchTransaction, KeepsBank
  <1> HIDE DEF new
  <1>3. job'[r] = new
    BY <1>1, <1>2, JobIs DEF IInv
  <1>4. Sound(r)'
    BY <1>0, <1>1, <1>2, <1>3 DEF Sound, LineIds, EntryIds
  <1> QED
    BY <1>1, <1>2, <1>4, ClerkQuiet

\* recordFromStatement, before its writes.
LEMMA RecordReads ==
    ASSUME \A a, b \in Clerks : a = b, IInv, NEW r \in Clerks, NEW l \in LineIds,
           RecordFromStatement(r, l)
    PROVE  IInv'
  <1> DEFINE new == [NoJob EXCEPT !.op = "RECORD", !.at = "recording", !.line = l]
  <1>0. l \in Nat
    BY Basics DEF IInv
  <1>1. new \in Job /\ new.at = "recording" /\ new.line = l
    BY <1>0, NoJobFacts DEF NoJob, Job
  <1>2. job' = [job EXCEPT ![r] = new] /\ UNCHANGED <<lines, journal>> /\ lines[l].link = NoEntry
    BY DEF RecordFromStatement, KeepsBank
  <1> HIDE DEF new
  <1>3. job'[r] = new
    BY <1>1, <1>2, JobIs DEF IInv
  <1>4. Sound(r)'
    BY <1>1, <1>2, <1>3 DEF Sound, LineIds, EntryIds
  <1> QED
    BY <1>1, <1>2, <1>4, ClerkQuiet

\* A request that fails leaves nothing.
LEMMA ClerkRollsBack ==
    ASSUME \A a, b \in Clerks : a = b, IInv, NEW r \in Clerks, RollBack(r)
    PROVE  IInv'
  <1>1. job' = [job EXCEPT ![r] = NoJob] /\ UNCHANGED <<lines, journal>>
    BY DEF RollBack, Done, KeepsBank
  <1>2. Sound(r)'
    BY <1>1, NoJobFacts, JobIs DEF Sound, IInv
  <1> QED
    BY <1>1, <1>2, NoJobFacts, ClerkQuiet

\* An upload, and the other modules, leave the clerks' requests as they were.
LEMMA Others ==
    ASSUME IInv, Grows, LinesGrow, Books', job' \in [Clerks \union Uploads -> Job],
           \A r \in Clerks : job'[r] = job[r], \A w \in Uploads : Finite(w)'
    PROVE  IInv'
  <1>1. \A r \in Clerks : Sound(r)'
    BY SoundKept DEF IInv, Books
  <1> QED
    BY <1>1 DEF IInv, Books, TypeOK, Grows, LinesGrow

\* importStatement, whatever other uploads did meanwhile.
LEMMA UploadSteps ==
    ASSUME IInv, NEW w \in Uploads, UploadStep(w) \/ RollBack(w)
    PROVE  IInv'
  <1>0. TypeOK /\ Books /\ job \in [Clerks \union Uploads -> Job] /\ w \notin Clerks
    BY NamesAssumption DEF IInv, Books, TypeOK
  <1>1. ASSUME NEW new \in Job, IsFiniteSet(new.rows), job' = [job EXCEPT ![w] = new]
        PROVE  /\ job' \in [Clerks \union Uploads -> Job]
               /\ \A r \in Clerks : job'[r] = job[r]
               /\ \A v \in Uploads : Finite(v)'
    <2>1. /\ job' \in [Clerks \union Uploads -> Job]
          /\ \A r \in Clerks : job'[r] = job[r]
          /\ \A v \in Uploads : job'[v] = IF v = w THEN new ELSE job[v]
      BY <1>0, <1>1
    <2> QED
      BY <1>1, <2>1 DEF IInv, Finite
  <1>2. ASSUME UNCHANGED <<lines, journal>> PROVE Grows /\ LinesGrow /\ Books'
    <2>1. Grows /\ LinesGrow /\ LineIds' = LineIds /\ EntryIds' = EntryIds
      BY <1>0, <1>2, Quiet
    <2> QED
      BY <1>0, <2>1, Grown
  <1>3. ASSUME NEW file \in Files, ReadExisting(w, file) PROVE IInv'
    <2> DEFINE rows == ToSet(file) \ Imported
               new == [NoJob EXCEPT !.op = "IMPORT", !.at = "inserting", !.rows = rows]
    <2>1. rows \subseteq Rows /\ IsFiniteSet(rows)
      <3>1. file \in Seq(Rows)
        BY DataAssumption
      <3>2. DOMAIN file = 1 .. Len(file) /\ Len(file) \in Nat /\ \A i \in DOMAIN file : file[i] \in Rows
        BY <3>1
      <3>3. file \in Surjection(DOMAIN file, ToSet(file))
        <4>1. file \in [DOMAIN file -> ToSet(file)]
          BY <3>1 DEF ToSet
        <4> QED
          BY <4>1 DEF Surjection, ToSet
      <3>4. IsFiniteSet(ToSet(file))
        BY <3>2, <3>3, FS_Interval, FS_Surjection
      <3>5. rows \subseteq ToSet(file) /\ ToSet(file) \subseteq Rows
        BY <3>2 DEF ToSet
      <3> QED
        BY <3>4, <3>5, FS_Subset
    <2> HIDE DEF rows
    <2>2. new \in Job /\ new.rows = rows
      BY <2>1, NoJobFacts DEF NoJob, Job
    <2>3. job' = [job EXCEPT ![w] = new] /\ UNCHANGED <<lines, journal>>
      BY <1>3 DEF ReadExisting, KeepsBank, rows
    <2> HIDE DEF new
    <2> QED
      BY <1>1, <1>2, <2>1, <2>2, <2>3, Others
  <1>4. ASSUME InsertRows(w) PROVE IInv'
    <2>1. job' = [job EXCEPT ![w] = NoJob] /\ UNCHANGED journal
      BY <1>4 DEF InsertRows, Done
    <2>2. Finite(w)
      BY DEF IInv
    <2>3. /\ LinesGrow
          /\ \A m \in LineIds' : m \notin LineIds => lines'[m].row \notin Imported
          /\ \A m, n \in LineIds' :
                m \notin LineIds /\ n \notin LineIds /\ lines'[m].row = lines'[n].row => m = n
      BY <1>0, <1>4, <2>2, InsertFacts DEF LinesGrow
    <2>4. Grows /\ EntryIds' = EntryIds
      BY <1>0, <2>1, Basics DEF Grows, EntryIds
    <2>5. Books'
      BY <1>0, <2>3, <2>4, Grown
    <2> QED
      BY <1>1, <2>1, <2>3, <2>4, <2>5, NoJobFacts, Others
  <1>5. ASSUME RollBack(w) PROVE IInv'
    <2>1. job' = [job EXCEPT ![w] = NoJob] /\ UNCHANGED <<lines, journal>>
      BY <1>5 DEF RollBack, Done, KeepsBank
    <2> QED
      BY <1>1, <1>2, <2>1, NoJobFacts, Others
  <1> QED
    BY <1>3, <1>4, <1>5 DEF UploadStep

\* Documents posted and voided by the other modules.
LEMMA OthersPost ==
    ASSUME IInv, OtherModules
    PROVE  IInv'
  <1>0. TypeOK /\ Books /\ job \in [Clerks \union Uploads -> Job]
    BY DEF IInv, Books, TypeOK
  <1>1. /\ Grows /\ UNCHANGED <<lines, job>>
        /\ Len(journal') = Len(journal) + 1
        /\ journal'[Len(journal) + 1].from = NoLine
    <2>1. ASSUME NEW day \in Dates, NEW moves \in Movements, PostDocument(day, moves)
          PROVE  <1>1!:
      <3> DEFINE entry == [day |-> day, moves |-> moves, from |-> NoLine, reverses |-> NoEntry,
                           status |-> "POSTED"]
      <3>1. entry \in Entry /\ entry.from = NoLine
        BY DataAssumption DEF Entry, NoLine, NoEntry
      <3>2. PostEntry(entry) /\ UNCHANGED <<lines, job>>
        BY <2>1 DEF PostDocument
      <3> HIDE DEF entry
      <3> QED
        BY <1>0, <3>1, <3>2, PostFacts
    <2>2. ASSUME NEW e \in EntryIds, VoidDocument(e)
          PROVE  <1>1!:
      <3>1. ReverseEntry(e) /\ UNCHANGED <<lines, job>>
        BY <2>2 DEF VoidDocument
      <3>2. Mirror(e).from = NoLine
        BY DEF Mirror
      <3> QED
        BY <1>0, <3>1, <3>2, ReverseFacts
    <2> QED
      BY <2>1, <2>2 DEF OtherModules
  <1>2. LinesGrow /\ LineIds' = LineIds
    BY <1>0, <1>1, Basics DEF LinesGrow, LineIds
  <1>3. \A e \in EntryIds' : e \notin EntryIds => e = Len(journal) + 1
    BY <1>0, <1>1, Basics DEF EntryIds
  <1>4. Books'
    BY <1>0, <1>1, <1>2, <1>3, Grown
  <1> QED
    BY <1>0, <1>1, <1>2, <1>4, Others DEF IInv, Finite

\* A write of a link, beside a journal that grows: what is left to show of it.
LEMMA Relinked ==
    ASSUME TypeOK, Books, Grows, NEW l \in LineIds, NEW e \in Nat, Link(l, e),
           e <= Len(journal'),
           e # NoEntry => \A m \in LineIds : lines[m].link # e,
           e # NoEntry => journal'[e].moves[lines[l].row.account] = lines[l].row.amount,
           \A x \in EntryIds' :
              /\ x \notin EntryIds => journal'[x].from \in {NoLine, l}
              /\ journal'[x].status = "POSTED" /\ journal'[x].from = l => x = e
    PROVE  /\ lines' \in Seq(Line) /\ Books'
  <1>0. /\ lines' \in Seq(Line) /\ Len(lines') = Len(lines) /\ lines'[l].link = e
        /\ \A m \in LineIds : /\ lines'[m].row = lines[m].row
                              /\ m # l => lines'[m].link = lines[m].link
    BY LinkFacts
  <1>1. /\ Len(lines) \in Nat /\ Len(journal) \in Nat /\ Len(journal') \in Nat
        /\ LineIds' = LineIds /\ EntryIds \subseteq EntryIds' /\ NoEntry = 0 /\ NoLine = 0
    <2>1. Len(lines) \in Nat /\ Len(journal) \in Nat /\ Len(journal') \in Nat
      BY Basics DEF Grows
    <2> QED
      BY <1>0, <2>1 DEF Grows, LineIds, EntryIds, NoEntry, NoLine
  <1>2. WellLinked'
    <2>1. ASSUME NEW m \in LineIds PROVE lines'[m].link \in 0 .. Len(journal')
      <3>1. lines[m].link \in 0 .. Len(journal) /\ Len(journal) <= Len(journal')
        BY DEF Books, WellLinked, Grows
      <3>2. CASE m = l
        BY <1>0, <1>1, <3>2
      <3>3. CASE m # l
        BY <1>0, <1>1, <3>1, <3>3
      <3> QED
        BY <3>2, <3>3
    <2>2. ASSUME NEW x \in EntryIds' PROVE journal'[x].from \in 0 .. Len(lines)
      <3>1. l \in 0 .. Len(lines)
        BY <1>1 DEF LineIds
      <3> QED
        BY <1>1, <3>1 DEF Books, WellLinked, Grows
    <2> QED
      BY <1>0, <1>1, <2>1, <2>2 DEF WellLinked
  <1>3. ImportedOnce'
    BY <1>0, <1>1 DEF Books, ImportedOnce
  <1>4. LinkedOnce'
    <2> SUFFICES ASSUME NEW m \in LineIds, NEW n \in LineIds,
                        lines'[m].link # NoEntry, lines'[m].link = lines'[n].link
                 PROVE  m = n
      BY <1>1 DEF LinkedOnce
    <2>1. ASSUME m = l, n # l PROVE FALSE
      BY <1>0, <2>1
    <2>2. ASSUME m # l, n = l PROVE FALSE
      BY <1>0, <2>2
    <2>3. ASSUME m # l, n # l PROVE m = n
      BY <1>0, <2>3 DEF Books, LinkedOnce
    <2> QED
      BY <2>1, <2>2, <2>3
  <1>5. LinksAgree'
    <2> SUFFICES ASSUME NEW m \in LineIds, lines'[m].link # NoEntry
                 PROVE  journal'[lines'[m].link].moves[lines'[m].row.account] = lines'[m].row.amount
      BY <1>1 DEF LinksAgree
    <2>1. CASE m = l
      BY <1>0, <2>1
    <2>2. CASE m # l
      <3>1. lines'[m].link = lines[m].link /\ lines'[m].row = lines[m].row
        BY <1>0, <2>2
      <3>2. lines[m].link \in EntryIds
        BY <1>1, <3>1 DEF Books, WellLinked, EntryIds
      <3> QED
        BY <3>1, <3>2 DEF Books, LinksAgree, Grows
    <2> QED
      BY <2>1, <2>2
  <1>6. RecordedOnce'
    <2> SUFFICES ASSUME NEW x \in EntryIds', journal'[x].from # NoLine, journal'[x].status = "POSTED"
                 PROVE  lines'[journal'[x].from].link = x
      BY DEF RecordedOnce
    <2>1. CASE journal'[x].from = l
      BY <1>0, <2>1
    <2>2. CASE journal'[x].from # l
      <3>1. x \in EntryIds
        BY <2>2
      <3>2. journal[x].from = journal'[x].from /\ journal[x].status = "POSTED"
        BY <3>1 DEF Grows
      <3>3. journal[x].from \in LineIds
        BY <1>1, <3>1, <3>2 DEF Books, WellLinked, LineIds
      <3> QED
        BY <1>0, <2>2, <3>1, <3>2, <3>3 DEF Books, RecordedOnce
    <2> QED
      BY <2>1, <2>2
  <1> QED
    BY <1>0, <1>2, <1>3, <1>4, <1>5, <1>6 DEF Books

\* An entry recorded from a line that is linked to another one, or to none, has
\* been taken out of the books.
LEMMA LetGo ==
    ASSUME TypeOK, Books, Grows, NEW l \in LineIds, NEW x \in EntryIds,
           journal'[x].status = "POSTED", journal'[x].from = l
    PROVE  lines[l].link = x
  <1>1. journal[x].from = l /\ journal[x].status = "POSTED" /\ l # NoLine
    BY Basics DEF Grows
  <1> QED
    BY <1>1 DEF Books, RecordedOnce

\* The three writes of a link: matched, let go, recorded.
LEMMA LinkWrites ==
    ASSUME \A a, b \in Clerks : a = b, IInv, NEW r \in Clerks,
           LinkLine(r) \/ ClearLink(r) \/ PostAndLink(r)
    PROVE  IInv'
  <1>0. TypeOK /\ Books /\ job[r] \in Job /\ Sound(r)
    BY DEF IInv, Books, TypeOK
  <1>1. job[r].line \in LineIds /\ job' = [job EXCEPT ![r] = NoJob]
    BY <1>0 DEF Sound, LinkLine, ClearLink, PostAndLink, Done
  <1>2. Sound(r)'
    BY <1>1, NoJobFacts, JobIs DEF Sound, IInv
  <1> DEFINE l == job[r].line
             e == job[r].entry
  <1>3. Len(journal) \in Nat /\ l \in LineIds
    BY <1>0, <1>1, Basics
  <1>4. CASE LinkLine(r)
    <2>1. /\ Link(l, e) /\ UNCHANGED journal
          /\ e \in EntryIds /\ lines[l].link = NoEntry
          /\ EntryFree(e) /\ AmountsAgree(l, e)
      BY <1>0, <1>4 DEF LinkLine, Sound
    <2> HIDE DEF l, e
    <2>2. Grows /\ EntryIds' = EntryIds
      BY <1>0, <2>1, Basics DEF Grows, EntryIds
    <2>3. e \in Nat /\ e <= Len(journal')
      BY <1>3, <2>1 DEF EntryIds
    <2>4. /\ \A m \in LineIds : lines[m].link # e
          /\ journal'[e].moves[lines[l].row.account] = lines[l].row.amount
      BY <2>1 DEF EntryFree, LinkedTo, AmountsAgree
    <2>5. ASSUME NEW x \in EntryIds', journal'[x].status = "POSTED", journal'[x].from = l
          PROVE  x = e
      <3>1. x \in EntryIds /\ lines[l].link = x
        BY <1>0, <1>3, <2>2, <2>5, LetGo
      <3> QED
        BY <1>0, <2>1, <3>1, Basics
    <2>6. lines' \in Seq(Line) /\ Books'
      BY <1>0, <1>3, <2>1, <2>2, <2>3, <2>4, <2>5, Relinked
    <2> QED
      BY <1>1, <1>2, <2>2, <2>6, NoJobFacts, Assemble DEF Grows
  <1>5. CASE ClearLink(r)
    <2>1. /\ Link(l, NoEntry) /\ e \in EntryIds /\ lines[l].link = e
          /\ \/ ReverseEntry(e)
             \/ UNCHANGED journal /\ journal[e].from # l
      BY <1>0, <1>5 DEF ClearLink, Sound, RecordedFromThisLine
    <2> HIDE DEF l, e
    <2>2. NoEntry \in Nat /\ NoEntry = 0
      BY DEF NoEntry
    <2>3. CASE ReverseEntry(e)
      <3>1. /\ Grows /\ Len(journal') = Len(journal) + 1
            /\ journal'[Len(journal) + 1] = Mirror(e) /\ journal'[e].status = "REVERSED"
        BY <1>0, <2>1, <2>3, ReverseFacts
      <3>2. ASSUME NEW x \in EntryIds', x \notin EntryIds PROVE journal'[x].from = NoLine
        <4>1. x = Len(journal) + 1
          BY <1>3, <3>1, <3>2 DEF EntryIds
        <4> QED
          BY <3>1, <4>1 DEF Mirror
      <3>3. ASSUME NEW x \in EntryIds', journal'[x].status = "POSTED", journal'[x].from = l
            PROVE  FALSE
        <4>1. x \in EntryIds
          BY <1>0, <1>3, <3>2, <3>3, Basics
        <4>2. x = e
          BY <1>0, <1>3, <2>1, <3>1, <3>3, <4>1, LetGo
        <4> QED
          BY <3>1, <3>3, <4>2
      <3>4. 0 <= Len(journal')
        BY <1>3, <3>1
      <3>5. lines' \in Seq(Line) /\ Books'
        BY <1>0, <1>3, <2>1, <2>2, <3>1, <3>2, <3>3, <3>4, Relinked
      <3> QED
        BY <1>1, <1>2, <3>1, <3>5, NoJobFacts, Assemble DEF Grows
    <2>4. CASE UNCHANGED journal /\ journal[e].from # l
      <3>1. Grows /\ EntryIds' = EntryIds /\ 0 <= Len(journal')
        BY <1>0, <1>3, <2>4, Basics DEF Grows, EntryIds
      <3>2. ASSUME NEW x \in EntryIds', journal'[x].status = "POSTED", journal'[x].from = l
            PROVE  FALSE
        <4>1. x = e
          BY <1>0, <1>3, <2>1, <3>1, <3>2, LetGo
        <4> QED
          BY <2>4, <3>2, <4>1
      <3>3. lines' \in Seq(Line) /\ Books'
        BY <1>0, <1>3, <2>1, <2>2, <3>1, <3>2, Relinked
      <3> QED
        BY <1>1, <1>2, <3>1, <3>3, NoJobFacts, Assemble DEF Grows
    <2> QED
      BY <2>1, <2>3, <2>4
  <1>6. CASE PostAndLink(r)
    <2> DEFINE n == Len(journal) + 1
    <2>1. PostEntry(EntryOf(l)) /\ Link(l, n) /\ lines[l].link = NoEntry
      BY <1>0, <1>6 DEF PostAndLink, Sound
    <2> HIDE DEF l, e
    <2>2. /\ EntryOf(l) \in Entry /\ EntryOf(l).from = l
          /\ EntryOf(l).moves[lines[l].row.account] = lines[l].row.amount
      <3>1. lines[l].row \in Rows /\ l \in Nat
        BY <1>0, <1>3, Basics DEF Line
      <3>2. /\ lines[l].row.account \in BankAccounts /\ lines[l].row.day \in Dates
            /\ lines[l].row.amount \in Int
        BY <3>1, DataAssumption
      <3>3. [a \in BankAccounts |-> IF a = lines[l].row.account THEN lines[l].row.amount ELSE 0]
              \in [BankAccounts -> Int]
        BY <3>2
      <3> QED
        BY <3>1, <3>2, <3>3 DEF EntryOf, Entry, NoEntry
    <2>3. /\ Grows /\ Len(journal') = n /\ journal'[n] = EntryOf(l)
      BY <1>0, <2>1, <2>2, PostFacts
    <2>4. n \in Nat /\ n # NoEntry /\ n <= Len(journal')
      BY <1>3, <2>3 DEF NoEntry
    <2>5. ASSUME NEW m \in LineIds PROVE lines[m].link # n
      <3>1. lines[m].link \in 0 .. Len(journal)
        BY <1>0 DEF Books, WellLinked
      <3> QED
        BY <1>3, <3>1
    <2>6. ASSUME NEW x \in EntryIds', x \notin EntryIds PROVE x = n
      BY <1>3, <2>3, <2>6 DEF EntryIds
    <2>7. ASSUME NEW x \in EntryIds', journal'[x].status = "POSTED", journal'[x].from = l
          PROVE  x = n
      <3>1. ASSUME x \in EntryIds PROVE FALSE
        <4>1. lines[l].link = x
          BY <1>0, <1>3, <2>3, <2>7, <3>1, LetGo
        <4> QED
          BY <1>0, <2>1, <3>1, <4>1, Basics
      <3> QED
        BY <2>6, <3>1
    <2> HIDE DEF n
    <2>8. lines' \in Seq(Line) /\ Books'
      <3>1. \A x \in EntryIds' : x \notin EntryIds => journal'[x].from = l
        BY <2>2, <2>3, <2>6
      <3> QED
        BY <1>0, <1>3, <2>1, <2>2, <2>3, <2>4, <2>5, <2>7, <3>1, Relinked
    <2> QED
      BY <1>1, <1>2, <2>3, <2>8, NoJobFacts, Assemble DEF Grows
  <1> QED
    BY <1>4, <1>5, <1>6

\* Nothing is imported or posted at first.
LEMMA Initially == BankInit => IInv
  <1> SUFFICES ASSUME BankInit PROVE IInv
    OBVIOUS
  <1>1. lines = << >> /\ journal = << >> /\ \A r \in Clerks \union Uploads : job[r] = NoJob
    BY DEF BankInit
  <1>2. LineIds = {} /\ EntryIds = {}
    BY <1>1 DEF LineIds, EntryIds
  <1>3. TypeOK
    <2>1. lines \in Seq(Line) /\ journal \in Seq(Entry)
      BY <1>1
    <2> QED
      BY <2>1, NoJobFacts DEF BankInit, TypeOK
  <1>4. \A r \in Clerks : Sound(r)
    BY <1>1, NoJobFacts DEF Sound
  <1>5. \A w \in Uploads : Finite(w)
    BY <1>1, NoJobFacts DEF Finite
  <1> QED
    BY <1>2, <1>3, <1>4, <1>5
       DEF IInv, WellLinked, ImportedOnce, LinkedOnce, LinksAgree, RecordedOnce

\* Every step keeps the invariant.
LEMMA Inductive ==
    ASSUME \A a, b \in Clerks : a = b, IInv, [BankNext]_bankVars
    PROVE  IInv'
  <1>1. ASSUME NEW r \in Clerks, ClerkStart(r) PROVE IInv'
    BY <1>1, MatchReads, UnmatchReads, RecordReads DEF ClerkStart
  <1>2. ASSUME NEW r \in Clerks, ClerkStep(r) PROVE IInv'
    BY <1>2, EntryReads, LinkWrites DEF ClerkStep
  <1>3. CASE UNCHANGED bankVars
    <2>1. TypeOK /\ Books /\ UNCHANGED <<lines, journal, job>>
      BY <1>3 DEF IInv, Books, bankVars
    <2>2. Grows /\ LinesGrow /\ LineIds' = LineIds /\ EntryIds' = EntryIds
      BY <2>1, Quiet
    <2>3. Books'
      BY <2>1, <2>2, Grown
    <2> QED
      BY <2>1, <2>2, <2>3, Others DEF IInv, TypeOK, Finite
  <1> QED
    BY <1>1, <1>2, <1>3, ClerkRollsBack, UploadSteps, OthersPost DEF BankNext

\* So it holds throughout.
LEMMA Always == ASSUME \A a, b \in Clerks : a = b PROVE BankSpec => []IInv
  <1>1. IInv /\ [BankNext]_bankVars => IInv'
    BY Inductive
  <1> QED
    BY <1>1, Initially, PTL DEF BankSpec

\* With one clerk at a time, and any uploads, documents and voids beside, a line
\* has one live entry recorded from it, the one it is linked to: undoing a
\* recording takes it out of the books (recordFromStatement, unmatchTransaction).
THEOREM LinesRecordedOnce ==
    ASSUME \A a, b \in Clerks : a = b
    PROVE  BankSpec => []RecordedOnce
  <1>1. IInv => RecordedOnce
    BY DEF IInv
  <1> QED
    BY <1>1, Always, PTL

\* Then also a movement is imported once, an entry explains one line, and both
\* sides show the same amount (importStatement, matchTransaction).
THEOREM MatchesStand ==
    ASSUME \A a, b \in Clerks : a = b
    PROVE  BankSpec => []LinksStand
  <1>1. IInv => LinksStand
    <2> SUFFICES ASSUME IInv, NEW e \in EntryIds PROVE Cardinality(LinkedTo(e)) <= 1
      BY DEF IInv, LinksStand, OneLinePerEntry
    <2>1. ASSUME NEW l \in LinkedTo(e) PROVE LinkedTo(e) = {l}
      BY Basics DEF IInv, LinkedOnce, LinkedTo
    <2>2. CASE LinkedTo(e) = {}
      <3>1. Cardinality(LinkedTo(e)) = 0
        BY <2>2, FS_EmptySet
      <3> QED
        BY <3>1
    <2>3. ASSUME NEW l \in LinkedTo(e) PROVE Cardinality(LinkedTo(e)) <= 1
      <3>1. Cardinality(LinkedTo(e)) = 1
        BY <2>1, <2>3, FS_Singleton
      <3> QED
        BY <3>1
    <2> QED
      BY <2>2, <2>3
  <1> QED
    BY <1>1, Always, PTL

\* An entry moves money on one bank account.
OneAccountEach == \A e \in EntryIds : \A a, b \in BankAccounts :
    journal[e].moves[a] # 0 /\ journal[e].moves[b] # 0 => a = b

\* Where documents move one bank account each, so do the mirror images and the
\* entries recorded from lines.
LEMMA OneAccountKept ==
    ASSUME \A moves \in Movements : \A a, b \in BankAccounts : moves[a] # 0 /\ moves[b] # 0 => a = b,
           IInv, OneAccountEach, [BankNext]_bankVars
    PROVE  OneAccountEach'
  <1>0. TypeOK /\ Len(journal) \in Nat
    BY Basics DEF IInv
  <1>1. ASSUME NEW entry, Grows, Len(journal') = Len(journal) + 1,
               journal'[Len(journal) + 1] = entry,
               \A a, b \in BankAccounts : entry.moves[a] # 0 /\ entry.moves[b] # 0 => a = b
        PROVE  OneAccountEach'
    <2>1. ASSUME NEW e \in EntryIds' PROVE e \in EntryIds \/ e = Len(journal) + 1
      BY <1>0, <1>1 DEF EntryIds
    <2>2. ASSUME NEW e \in EntryIds', NEW a \in BankAccounts, NEW b \in BankAccounts,
                 journal'[e].moves[a] # 0, journal'[e].moves[b] # 0
          PROVE  a = b
      <3>1. CASE e \in EntryIds
        BY <1>1, <2>2, <3>1 DEF OneAccountEach, Grows
      <3>2. CASE e = Len(journal) + 1
        BY <1>1, <2>2, <3>2
      <3> QED
        BY <2>1, <3>1, <3>2
    <2> QED
      BY <2>2 DEF OneAccountEach
  <1>2. ASSUME NEW entry \in Entry, PostEntry(entry),
               \A a, b \in BankAccounts : entry.moves[a] # 0 /\ entry.moves[b] # 0 => a = b
        PROVE  OneAccountEach'
    <2>1. Grows /\ Len(journal') = Len(journal) + 1 /\ journal'[Len(journal) + 1] = entry
      BY <1>0, <1>2, PostFacts
    <2> QED
      BY <1>1, <1>2, <2>1
  <1>3. ASSUME NEW e \in EntryIds, ReverseEntry(e) PROVE OneAccountEach'
    <2>1. ASSUME NEW a \in BankAccounts, Mirror(e).moves[a] # 0 PROVE journal[e].moves[a] # 0
      BY <2>1 DEF Mirror
    <2>2. /\ Grows /\ Len(journal') = Len(journal) + 1
          /\ journal'[Len(journal) + 1] = Mirror(e)
      BY <1>0, <1>3, ReverseFacts
    <2>3. \A a, b \in BankAccounts : Mirror(e).moves[a] # 0 /\ Mirror(e).moves[b] # 0 => a = b
      BY <1>3, <2>1 DEF OneAccountEach
    <2> HIDE DEF Mirror
    <2> QED
      BY <1>1, <2>2, <2>3
  <1>4. ASSUME UNCHANGED journal PROVE OneAccountEach'
    BY <1>4 DEF OneAccountEach, EntryIds
  <1>5. ASSUME OtherModules PROVE OneAccountEach'
    <2>1. ASSUME NEW day \in Dates, NEW moves \in Movements, PostDocument(day, moves)
          PROVE  OneAccountEach'
      <3> DEFINE entry == [day |-> day, moves |-> moves, from |-> NoLine, reverses |-> NoEntry,
                           status |-> "POSTED"]
      <3>1. entry \in Entry /\ entry.moves = moves
        BY DataAssumption DEF Entry, NoLine, NoEntry
      <3>2. PostEntry(entry)
        BY <2>1 DEF PostDocument
      <3> HIDE DEF entry
      <3> QED
        BY <1>2, <3>1, <3>2
    <2> QED
      BY <1>3, <1>5, <2>1 DEF OtherModules, VoidDocument
  <1>6. ASSUME NEW r \in Clerks, ClearLink(r) PROVE OneAccountEach'
    <2>1. job[r].entry \in EntryIds
      BY <1>6 DEF IInv, Sound, ClearLink
    <2> QED
      BY <1>3, <1>4, <1>6, <2>1 DEF ClearLink
  <1>7. ASSUME NEW r \in Clerks, PostAndLink(r) PROVE OneAccountEach'
    <2> DEFINE l == job[r].line
    <2>1. l \in LineIds /\ PostEntry(EntryOf(l))
      BY <1>7 DEF IInv, Sound, PostAndLink
    <2> HIDE DEF l
    <2>2. lines[l].row \in Rows /\ l \in Nat
      BY <1>0, <2>1, Basics DEF Line
    <2>3. EntryOf(l) \in Entry
      <3>1. lines[l].row.account \in BankAccounts /\ lines[l].row.day \in Dates /\ lines[l].row.amount \in Int
        BY <2>2, DataAssumption
      <3>2. [a \in BankAccounts |-> IF a = lines[l].row.account THEN lines[l].row.amount ELSE 0]
              \in [BankAccounts -> Int]
        BY <3>1
      <3> QED
        BY <2>2, <3>1, <3>2 DEF EntryOf, Entry, NoEntry
    <2>4. ASSUME NEW a \in BankAccounts, EntryOf(l).moves[a] # 0 PROVE a = lines[l].row.account
      BY <2>4 DEF EntryOf
    <2> QED
      BY <1>2, <2>1, <2>3, <2>4
  <1>8. ASSUME NEW w, UploadStep(w) \/ RollBack(w) PROVE UNCHANGED journal
    BY <1>8 DEF UploadStep, ReadExisting, InsertRows, RollBack, KeepsBank
  <1>9. ASSUME NEW r \in Clerks, ClerkStart(r) PROVE UNCHANGED journal
    BY <1>9 DEF ClerkStart, MatchTransaction, UnmatchTransaction, RecordFromStatement, KeepsBank
  <1>10. ASSUME NEW r \in Clerks, ReadEntry(r) \/ LinkLine(r) PROVE UNCHANGED journal
    BY <1>10 DEF ReadEntry, LinkLine, KeepsBank
  <1> QED
    BY <1>4, <1>5, <1>6, <1>7, <1>8, <1>9, <1>10 DEF BankNext, ClerkStep, bankVars

\* The amounts matched by a day are the same on both sides, term by term.
LEMMA MatchedAmounts ==
    ASSUME IInv, OneAccountEach, NEW a \in BankAccounts, NEW to \in Dates
    PROVE  Unexplained(a, to) = 0
  <1> DEFINE f == [e \in EntryIds |-> journal[e].moves[a]]
             g == [l \in LineIds |-> lines[l].row.amount]
             h == [l \in LineIds |-> lines[l].link]
             B == BookItems(a, to)
             U == {e \in B : EntryOutstanding(e, to)}
             T == StatementItems(a, to)
             V == {l \in T : LineOutstanding(l, to)}
  <1>0. TypeOK /\ to \in Nat /\ NoEntry = 0
    BY DataAssumption DEF IInv, NoEntry
  <1>1. /\ B \subseteq EntryIds /\ U \subseteq B /\ T \subseteq LineIds /\ V \subseteq T
        /\ IsFiniteSet(B) /\ IsFiniteSet(T)
    <2>1. IsFiniteSet(EntryIds) /\ IsFiniteSet(LineIds)
      BY <1>0, Basics, FS_Interval DEF EntryIds, LineIds
    <2>2. B \subseteq EntryIds /\ U \subseteq B /\ T \subseteq LineIds /\ V \subseteq T
      BY DEF BookItems, StatementItems
    <2> QED
      BY <2>1, <2>2, FS_Subset
  <1>2. ASSUME NEW e \in EntryIds
        PROVE  f[e] = journal[e].moves[a] /\ f[e] \in Int /\ journal[e].day \in Nat
    <2>1. journal[e] \in Entry
      BY <1>0, Basics
    <2> QED
      BY <2>1, DataAssumption DEF Entry
  <1>3. ASSUME NEW l \in LineIds
        PROVE  /\ g[l] = lines[l].row.amount /\ g[l] \in Int /\ g[l] # 0
               /\ h[l] = lines[l].link /\ lines[l].row.day \in Nat /\ lines[l].row.account \in BankAccounts
               /\ h[l] # NoEntry => /\ h[l] \in EntryIds /\ LinkedTo(h[l]) = {l}
                                    /\ journal[h[l]].moves[lines[l].row.account] = g[l]
    <2>1. lines[l].row \in Rows /\ lines[l].link \in 0 .. Len(journal) /\ Len(journal) \in Nat
      BY <1>0, Basics DEF Line, IInv, WellLinked
    <2>2. lines[l].link # NoEntry => lines[l].link \in EntryIds
      BY <1>0, <2>1 DEF EntryIds
    <2>3. lines[l].link # NoEntry => LinkedTo(lines[l].link) = {l}
      BY DEF IInv, LinkedOnce, LinkedTo
    <2>4. lines[l].link # NoEntry =>
             journal[lines[l].link].moves[lines[l].row.account] = lines[l].row.amount
      BY DEF IInv, LinksAgree
    <2> QED
      BY <2>1, <2>2, <2>3, <2>4, DataAssumption
  <1>4. ASSUME NEW e, NEW l \in LineIds, LinkedTo(e) = {l} PROVE Min(LinkedTo(e)) = l
    <2>1. l \in Nat
      BY <1>0, Basics
    <2> QED
      BY <1>4, <2>1 DEF Min
  <1>5. ASSUME NEW l \in T \ V
        PROVE  h[l] \in B \ U /\ f[h[l]] = g[l] /\ h[l] # NoEntry
    <2>1. l \in LineIds /\ lines[l].row.account = a /\ lines[l].row.day <= to
      BY DEF StatementItems
    <2>2. lines[l].link # NoEntry /\ ~ journal[lines[l].link].day > to
      BY DEF LineOutstanding
    <2>3. h[l] # NoEntry /\ h[l] \in EntryIds /\ LinkedTo(h[l]) = {l} /\ f[h[l]] = g[l]
          /\ journal[h[l]].day <= to
      <3>1. /\ h[l] = lines[l].link /\ h[l] # NoEntry /\ h[l] \in EntryIds /\ LinkedTo(h[l]) = {l}
            /\ journal[h[l]].moves[a] = g[l]
        BY <1>3, <2>1, <2>2
      <3>2. f[h[l]] = journal[h[l]].moves[a] /\ journal[h[l]].day \in Nat
        BY <1>2, <3>1
      <3> HIDE DEF f, g, h
      <3>3. ~ journal[h[l]].day > to
        BY <2>2, <3>1
      <3>4. journal[h[l]].day <= to
        BY <1>0, <3>2, <3>3
      <3> QED
        BY <3>1, <3>2, <3>4
    <2>4. h[l] \in B
      BY <1>2, <1>3, <2>1, <2>3 DEF BookItems
    <2>5. ~ EntryOutstanding(h[l], to)
      <3>1. Min(LinkedTo(h[l])) = l /\ lines[l].row.day \in Nat
        BY <1>3, <1>4, <2>1, <2>3
      <3> HIDE DEF h
      <3> QED
        BY <1>0, <2>1, <2>3, <3>1 DEF EntryOutstanding
    <2> QED
      BY <2>3, <2>4, <2>5
  <1>6. ASSUME NEW z \in B \ U PROVE \E l \in T \ V : h[l] = z
    <2>1. z \in EntryIds /\ journal[z].day <= to /\ journal[z].moves[a] # 0
      BY DEF BookItems
    <2>2. LinkedTo(z) # {} /\ ~ lines[Min(LinkedTo(z))].row.day > to
      BY DEF EntryOutstanding
    <2>3. PICK l \in LineIds : lines[l].link = z
      BY <2>2 DEF LinkedTo
    <2>4. z # NoEntry /\ LinkedTo(z) = {l}
      BY <1>0, <1>3, <2>1, <2>3, Basics
    <2>5. Min(LinkedTo(z)) = l
      BY <1>4, <2>4
    <2>6. lines[l].row.day <= to
      BY <1>0, <1>3, <2>2, <2>5
    <2>7. lines[l].row.account = a
      <3>1. journal[z].moves[lines[l].row.account] # 0 /\ lines[l].row.account \in BankAccounts
        BY <1>3, <2>3, <2>4
      <3> QED
        BY <2>1, <3>1 DEF OneAccountEach
    <2>8. l \in T
      BY <2>6, <2>7 DEF StatementItems
    <2>9. ~ LineOutstanding(l, to)
      BY <1>0, <1>2, <2>1, <2>3, <2>4 DEF LineOutstanding
    <2> QED
      BY <2>3, <2>8, <2>9
  <1>7. ASSUME NEW l \in T \ V, NEW m \in T \ V, h[l] = h[m] PROVE l = m
    <2>1. l \in LineIds /\ m \in LineIds /\ h[l] # NoEntry
      BY <1>1, <1>5
    <2> QED
      BY <1>3, <1>7, <2>1
  <1>8. /\ \A e \in B : f[e] \in Int
        /\ \A l \in T : g[l] \in Int
    BY <1>1, <1>2, <1>3
  <1>9. /\ Moved(a, B) = SumFunctionOnSet(f, B) /\ Moved(a, U) = SumFunctionOnSet(f, U)
        /\ Shown(T) = SumFunctionOnSet(g, T) /\ Shown(V) = SumFunctionOnSet(g, V)
    BY DEF Moved, Shown
  <1>10. Unexplained(a, to) = (Moved(a, B) - Moved(a, U)) - (Shown(T) - Shown(V))
    BY DEF Unexplained
  <1> HIDE DEF f, g, h, B, U, T, V
  <1>11. SumFunctionOnSet(f, B) = SumFunctionOnSet(f, U) + SumFunctionOnSet(f, B \ U)
    BY <1>1, <1>8, SumParts
  <1>12. SumFunctionOnSet(g, T) = SumFunctionOnSet(g, V) + SumFunctionOnSet(g, T \ V)
    BY <1>1, <1>8, SumParts
  <1>13. IsFiniteSet(T \ V) /\ IsFiniteSet(B \ U) /\ IsFiniteSet(U) /\ IsFiniteSet(V)
    <2>1. T \ V \subseteq T /\ B \ U \subseteq B
      OBVIOUS
    <2> QED
      BY <1>1, <2>1, FS_Subset
  <1>14. SumFunctionOnSet(g, T \ V) = SumFunctionOnSet(f, B \ U)
    <2>1. \A l \in T \ V : h[l] \in B \ U /\ g[l] \in Int /\ f[h[l]] = g[l]
      BY <1>5, <1>8
    <2> QED
      BY <1>6, <1>7, <1>13, <2>1, SumMatched
  <1>15. /\ SumFunctionOnSet(f, U) \in Int /\ SumFunctionOnSet(g, V) \in Int
         /\ SumFunctionOnSet(f, B \ U) \in Int
    <2>1. /\ \A e \in U : f[e] \in Int
          /\ \A e \in B \ U : f[e] \in Int
          /\ \A l \in V : g[l] \in Int
      BY <1>1, <1>8
    <2> QED
      BY <1>13, <2>1, SumInt
  <1> QED
    BY <1>9, <1>10, <1>11, <1>12, <1>14, <1>15

\* If moreover no document moves two of the accounts at once, books and statement
\* differ by the outstanding items and by nothing else, as at every day
\* (reconciliationView, reconciliationDifference).
THEOREM BankExplained ==
    ASSUME \A a, b \in Clerks : a = b,
           \A moves \in Movements : \A a, b \in BankAccounts : moves[a] # 0 /\ moves[b] # 0 => a = b
    PROVE  BankSpec => []NothingUnexplained
  <1>1. BankInit => OneAccountEach
    BY DEF BankInit, OneAccountEach, EntryIds
  <1>2. IInv /\ OneAccountEach /\ [BankNext]_bankVars => IInv' /\ OneAccountEach'
    BY Inductive, OneAccountKept
  <1>3. IInv /\ OneAccountEach => NothingUnexplained
    BY MatchedAmounts DEF NothingUnexplained
  <1> QED
    BY <1>1, <1>2, <1>3, Initially, PTL DEF BankSpec

---------------------------------------------------------------------------
(* The set-off leaves the least cash, for heads of any size.                *)

(* One payment moves the same amount out of a credit and out of a head, and   *)
(* touches nothing else.                                                      *)
LEMMA PayFacts ==
    ASSUME NEW position \in Position, NEW from \in Heads, NEW against \in Heads, NEW amount \in Nat,
           amount <= position.owed[against], amount <= position.available[from]
    PROVE  /\ Pay(position, from, against, amount) \in Position
           /\ Pay(position, from, against, amount).owed[against] = position.owed[against] - amount
           /\ Pay(position, from, against, amount).available[from] = position.available[from] - amount
           /\ \A head \in Heads \ {against} :
                 Pay(position, from, against, amount).owed[head] = position.owed[head]
           /\ \A head \in Heads \ {from} :
                 Pay(position, from, against, amount).available[head] = position.available[head]
<1>1. position.owed \in TaxHeads /\ position.available \in TaxHeads
  BY DEF Position
<1>2. position.owed[against] - amount \in Nat /\ position.available[from] - amount \in Nat
  BY <1>1 DEF TaxHeads
<1> QED
  BY <1>1, <1>2 DEF Pay, Position, TaxHeads

(* `apply` pays the lesser of the credit and the head.                        *)
LEMMA ApplyFacts ==
    ASSUME NEW position \in Position, NEW from \in Heads, NEW against \in Heads
    PROVE  LET paid == Smaller(position.available[from], position.owed[against])
           IN  /\ Apply(position, from, against) \in Position
               /\ Apply(position, from, against).owed[against] = position.owed[against] - paid
               /\ Apply(position, from, against).available[from] = position.available[from] - paid
               /\ \A head \in Heads \ {against} :
                     Apply(position, from, against).owed[head] = position.owed[head]
               /\ \A head \in Heads \ {from} :
                     Apply(position, from, against).available[head] = position.available[head]
<1> DEFINE paid == Smaller(position.available[from], position.owed[against])
<1>1. position.available[from] \in Nat /\ position.owed[against] \in Nat
  BY DEF Position, TaxHeads
<1>2. /\ paid \in Nat /\ paid <= position.available[from] /\ paid <= position.owed[against]
  BY <1>1 DEF Smaller
<1>3. Apply(position, from, against) = Pay(position, from, against, paid)
  BY DEF Apply
<1> HIDE DEF paid
<1>4. QED
  BY <1>2, <1>3, PayFacts DEF paid

(* The position after each stage, head by head.                               *)
LEMMA DirectedFacts ==
    ASSUME NEW owes \in TaxHeads, NEW has \in TaxHeads
    PROVE  LET igst == Smaller(has["igst"], owes["igst"])
               toCgst == Smaller(has["igst"] - igst, Excess(owes["cgst"], has["cgst"]))
               toSgst == Smaller(has["igst"] - igst - toCgst, Excess(owes["sgst"], has["sgst"]))
               position == Directed(owes, has)
           IN  /\ position \in Position
               /\ position.owed["igst"] = owes["igst"] - igst
               /\ position.owed["cgst"] = owes["cgst"] - toCgst
               /\ position.owed["sgst"] = owes["sgst"] - toSgst
               /\ position.owed["cess"] = owes["cess"]
               /\ position.available["igst"] = has["igst"] - igst - toCgst - toSgst
               /\ position.available["cgst"] = has["cgst"]
               /\ position.available["sgst"] = has["sgst"]
               /\ position.available["cess"] = has["cess"]
<1> DEFINE start == [owed |-> owes, available |-> has]
           first == Apply(start, "igst", "igst")
           igst == Smaller(has["igst"], owes["igst"])
           toCgst == Smaller(has["igst"] - igst, Excess(owes["cgst"], has["cgst"]))
           toSgst == Smaller(has["igst"] - igst - toCgst, Excess(owes["sgst"], has["sgst"]))
           second == Pay(first, "igst", "cgst", toCgst)
           third == Pay(second, "igst", "sgst", toSgst)
<1>0. /\ \A head \in Heads : owes[head] \in Nat /\ has[head] \in Nat
      /\ {"igst", "cgst", "sgst", "cess"} = Heads
  BY DEF TaxHeads, Heads
<1>1. start \in Position /\ start.owed = owes /\ start.available = has
  BY DEF Position
<1>2. /\ first \in Position
      /\ first.owed["igst"] = owes["igst"] - igst /\ first.available["igst"] = has["igst"] - igst
      /\ \A head \in {"cgst", "sgst", "cess"} : first.owed[head] = owes[head] /\ first.available[head] = has[head]
  <2>1. Smaller(start.available["igst"], start.owed["igst"]) = igst
    BY <1>1
  <2>2. /\ first \in Position
        /\ first.owed["igst"] = start.owed["igst"] - igst
        /\ first.available["igst"] = start.available["igst"] - igst
        /\ \A head \in Heads \ {"igst"} : /\ first.owed[head] = start.owed[head]
                                          /\ first.available[head] = start.available[head]
    <3> HIDE DEF start, igst
    <3> QED  BY <1>1, <2>1, ApplyFacts DEF Heads
  <2>3. {"cgst", "sgst", "cess"} = Heads \ {"igst"}
    BY DEF Heads
  <2> QED  BY <1>1, <2>2, <2>3
<1>3. /\ igst \in Nat /\ igst <= has["igst"] /\ igst <= owes["igst"]
      /\ toCgst \in Nat /\ toCgst <= has["igst"] - igst /\ toCgst <= owes["cgst"]
      /\ toSgst \in Nat /\ toSgst <= has["igst"] - igst - toCgst /\ toSgst <= owes["sgst"]
  BY <1>0 DEF Smaller, Excess
<1>4. DirectIgst(first) = third
  <2>1. Excess(first.owed["cgst"], first.available["cgst"]) = Excess(owes["cgst"], has["cgst"])
    BY <1>2
  <2>2. Excess(first.owed["sgst"], first.available["sgst"]) = Excess(owes["sgst"], has["sgst"])
    BY <1>2
  <2> HIDE DEF first
  <2> QED  BY <1>2, <2>1, <2>2 DEF DirectIgst
<1>5. Directed(owes, has) = third
  BY <1>4 DEF Directed
<1> HIDE DEF start, first, igst, toCgst, toSgst
<1>6. /\ second \in Position
      /\ second.owed["cgst"] = owes["cgst"] - toCgst
      /\ second.available["igst"] = has["igst"] - igst - toCgst
      /\ \A head \in {"igst", "sgst", "cess"} : second.owed[head] = first.owed[head]
      /\ \A head \in {"cgst", "sgst", "cess"} : second.available[head] = first.available[head]
  BY <1>0, <1>2, <1>3, PayFacts
<1> HIDE DEF second
<1>7. /\ third \in Position
      /\ third.owed["sgst"] = owes["sgst"] - toSgst
      /\ third.available["igst"] = has["igst"] - igst - toCgst - toSgst
      /\ \A head \in {"igst", "cgst", "cess"} : third.owed[head] = second.owed[head]
      /\ \A head \in {"cgst", "sgst", "cess"} : third.available[head] = second.available[head]
  <2>1. /\ toSgst \in Nat /\ toSgst <= second.owed["sgst"] /\ toSgst <= second.available["igst"]
        /\ second.owed["sgst"] = owes["sgst"]
    BY <1>2, <1>3, <1>6
  <2>2. {"igst", "cgst", "cess"} = Heads \ {"sgst"} /\ {"cgst", "sgst", "cess"} = Heads \ {"igst"}
    BY DEF Heads
  <2>3. "igst" \in Heads /\ "sgst" \in Heads
    BY DEF Heads
  <2> QED  BY <1>6, <2>1, <2>2, <2>3, PayFacts
<1> HIDE DEF third
<1> QED
  BY <1>2, <1>5, <1>6, <1>7 DEF igst, toCgst, toSgst

(* What each stage of the plain order pays, from the position it starts at.   *)
LEMMA PlainOrderFacts ==
    ASSUME NEW owes \in TaxHeads, NEW has \in TaxHeads
    PROVE  LET start == Directed(owes, has)
               igstToCgst == Smaller(start.available["igst"], start.owed["cgst"])
               igstToSgst == Smaller(start.available["igst"] - igstToCgst, start.owed["sgst"])
               cgstToCgst == Smaller(start.available["cgst"], start.owed["cgst"] - igstToCgst)
               cgstToIgst == Smaller(start.available["cgst"] - cgstToCgst, start.owed["igst"])
               sgstToSgst == Smaller(start.available["sgst"], start.owed["sgst"] - igstToSgst)
               sgstToIgst == Smaller(start.available["sgst"] - sgstToSgst, start.owed["igst"] - cgstToIgst)
               cessToCess == Smaller(start.available["cess"], start.owed["cess"])
               final == ApplySetOff(owes, has)
           IN  /\ final \in Position
               /\ final.owed["igst"] = start.owed["igst"] - cgstToIgst - sgstToIgst
               /\ final.owed["cgst"] = start.owed["cgst"] - igstToCgst - cgstToCgst
               /\ final.owed["sgst"] = start.owed["sgst"] - igstToSgst - sgstToSgst
               /\ final.owed["cess"] = start.owed["cess"] - cessToCess
               /\ final.available["igst"] = start.available["igst"] - igstToCgst - igstToSgst
               /\ final.available["cgst"] = start.available["cgst"] - cgstToCgst - cgstToIgst
               /\ final.available["sgst"] = start.available["sgst"] - sgstToSgst - sgstToIgst
               /\ final.available["cess"] = start.available["cess"] - cessToCess
<1> DEFINE start == Directed(owes, has)
           p1 == Apply(start, "igst", "cgst")
           p2 == Apply(p1, "igst", "sgst")
           p3 == Apply(p2, "cgst", "cgst")
           p4 == Apply(p3, "cgst", "igst")
           p5 == Apply(p4, "sgst", "sgst")
           p6 == Apply(p5, "sgst", "igst")
           p7 == Apply(p6, "cess", "cess")
<1>0. ApplySetOff(owes, has) = p7
  BY DEF ApplySetOff, SgstSpent, CgstSpent, IgstSpent
<1>1. start \in Position
  BY DirectedFacts
<1>2. /\ "igst" \in Heads /\ "cgst" \in Heads /\ "sgst" \in Heads /\ "cess" \in Heads
      /\ "igst" # "cgst" /\ "igst" # "sgst" /\ "igst" # "cess"
      /\ "cgst" # "sgst" /\ "cgst" # "cess" /\ "sgst" # "cess"
  BY DEF Heads
<1> HIDE DEF start
<1>3. /\ p1 \in Position
      /\ p1.owed["igst"] = start.owed["igst"]
      /\ p1.owed["cgst"] = start.owed["cgst"] - Smaller(start.available["igst"], start.owed["cgst"])
      /\ p1.owed["sgst"] = start.owed["sgst"]
      /\ p1.owed["cess"] = start.owed["cess"]
      /\ p1.available["igst"] = start.available["igst"] - Smaller(start.available["igst"], start.owed["cgst"])
      /\ p1.available["cgst"] = start.available["cgst"]
      /\ p1.available["sgst"] = start.available["sgst"]
      /\ p1.available["cess"] = start.available["cess"]
  <2>1. /\ p1 \in Position
        /\ p1.owed["cgst"] = start.owed["cgst"] - Smaller(start.available["igst"], start.owed["cgst"])
        /\ p1.available["igst"] = start.available["igst"] - Smaller(start.available["igst"], start.owed["cgst"])
        /\ \A head \in Heads \ {"cgst"} : p1.owed[head] = start.owed[head]
        /\ \A head \in Heads \ {"igst"} : p1.available[head] = start.available[head]
    BY <1>1, <1>2, ApplyFacts
  <2> QED  BY <2>1, <1>2
<1> HIDE DEF p1
<1>4. /\ p2 \in Position
      /\ p2.owed["igst"] = p1.owed["igst"]
      /\ p2.owed["cgst"] = p1.owed["cgst"]
      /\ p2.owed["sgst"] = p1.owed["sgst"] - Smaller(p1.available["igst"], p1.owed["sgst"])
      /\ p2.owed["cess"] = p1.owed["cess"]
      /\ p2.available["igst"] = p1.available["igst"] - Smaller(p1.available["igst"], p1.owed["sgst"])
      /\ p2.available["cgst"] = p1.available["cgst"]
      /\ p2.available["sgst"] = p1.available["sgst"]
      /\ p2.available["cess"] = p1.available["cess"]
  <2>1. /\ p2 \in Position
        /\ p2.owed["sgst"] = p1.owed["sgst"] - Smaller(p1.available["igst"], p1.owed["sgst"])
        /\ p2.available["igst"] = p1.available["igst"] - Smaller(p1.available["igst"], p1.owed["sgst"])
        /\ \A head \in Heads \ {"sgst"} : p2.owed[head] = p1.owed[head]
        /\ \A head \in Heads \ {"igst"} : p2.available[head] = p1.available[head]
    BY <1>3, <1>2, ApplyFacts
  <2> QED  BY <2>1, <1>2
<1> HIDE DEF p2
<1>5. /\ p3 \in Position
      /\ p3.owed["igst"] = p2.owed["igst"]
      /\ p3.owed["cgst"] = p2.owed["cgst"] - Smaller(p2.available["cgst"], p2.owed["cgst"])
      /\ p3.owed["sgst"] = p2.owed["sgst"]
      /\ p3.owed["cess"] = p2.owed["cess"]
      /\ p3.available["igst"] = p2.available["igst"]
      /\ p3.available["cgst"] = p2.available["cgst"] - Smaller(p2.available["cgst"], p2.owed["cgst"])
      /\ p3.available["sgst"] = p2.available["sgst"]
      /\ p3.available["cess"] = p2.available["cess"]
  <2>1. /\ p3 \in Position
        /\ p3.owed["cgst"] = p2.owed["cgst"] - Smaller(p2.available["cgst"], p2.owed["cgst"])
        /\ p3.available["cgst"] = p2.available["cgst"] - Smaller(p2.available["cgst"], p2.owed["cgst"])
        /\ \A head \in Heads \ {"cgst"} : p3.owed[head] = p2.owed[head]
        /\ \A head \in Heads \ {"cgst"} : p3.available[head] = p2.available[head]
    BY <1>4, <1>2, ApplyFacts
  <2> QED  BY <2>1, <1>2
<1> HIDE DEF p3
<1>6. /\ p4 \in Position
      /\ p4.owed["igst"] = p3.owed["igst"] - Smaller(p3.available["cgst"], p3.owed["igst"])
      /\ p4.owed["cgst"] = p3.owed["cgst"]
      /\ p4.owed["sgst"] = p3.owed["sgst"]
      /\ p4.owed["cess"] = p3.owed["cess"]
      /\ p4.available["igst"] = p3.available["igst"]
      /\ p4.available["cgst"] = p3.available["cgst"] - Smaller(p3.available["cgst"], p3.owed["igst"])
      /\ p4.available["sgst"] = p3.available["sgst"]
      /\ p4.available["cess"] = p3.available["cess"]
  <2>1. /\ p4 \in Position
        /\ p4.owed["igst"] = p3.owed["igst"] - Smaller(p3.available["cgst"], p3.owed["igst"])
        /\ p4.available["cgst"] = p3.available["cgst"] - Smaller(p3.available["cgst"], p3.owed["igst"])
        /\ \A head \in Heads \ {"igst"} : p4.owed[head] = p3.owed[head]
        /\ \A head \in Heads \ {"cgst"} : p4.available[head] = p3.available[head]
    BY <1>5, <1>2, ApplyFacts
  <2> QED  BY <2>1, <1>2
<1> HIDE DEF p4
<1>7. /\ p5 \in Position
      /\ p5.owed["igst"] = p4.owed["igst"]
      /\ p5.owed["cgst"] = p4.owed["cgst"]
      /\ p5.owed["sgst"] = p4.owed["sgst"] - Smaller(p4.available["sgst"], p4.owed["sgst"])
      /\ p5.owed["cess"] = p4.owed["cess"]
      /\ p5.available["igst"] = p4.available["igst"]
      /\ p5.available["cgst"] = p4.available["cgst"]
      /\ p5.available["sgst"] = p4.available["sgst"] - Smaller(p4.available["sgst"], p4.owed["sgst"])
      /\ p5.available["cess"] = p4.available["cess"]
  <2>1. /\ p5 \in Position
        /\ p5.owed["sgst"] = p4.owed["sgst"] - Smaller(p4.available["sgst"], p4.owed["sgst"])
        /\ p5.available["sgst"] = p4.available["sgst"] - Smaller(p4.available["sgst"], p4.owed["sgst"])
        /\ \A head \in Heads \ {"sgst"} : p5.owed[head] = p4.owed[head]
        /\ \A head \in Heads \ {"sgst"} : p5.available[head] = p4.available[head]
    BY <1>6, <1>2, ApplyFacts
  <2> QED  BY <2>1, <1>2
<1> HIDE DEF p5
<1>8. /\ p6 \in Position
      /\ p6.owed["igst"] = p5.owed["igst"] - Smaller(p5.available["sgst"], p5.owed["igst"])
      /\ p6.owed["cgst"] = p5.owed["cgst"]
      /\ p6.owed["sgst"] = p5.owed["sgst"]
      /\ p6.owed["cess"] = p5.owed["cess"]
      /\ p6.available["igst"] = p5.available["igst"]
      /\ p6.available["cgst"] = p5.available["cgst"]
      /\ p6.available["sgst"] = p5.available["sgst"] - Smaller(p5.available["sgst"], p5.owed["igst"])
      /\ p6.available["cess"] = p5.available["cess"]
  <2>1. /\ p6 \in Position
        /\ p6.owed["igst"] = p5.owed["igst"] - Smaller(p5.available["sgst"], p5.owed["igst"])
        /\ p6.available["sgst"] = p5.available["sgst"] - Smaller(p5.available["sgst"], p5.owed["igst"])
        /\ \A head \in Heads \ {"igst"} : p6.owed[head] = p5.owed[head]
        /\ \A head \in Heads \ {"sgst"} : p6.available[head] = p5.available[head]
    BY <1>7, <1>2, ApplyFacts
  <2> QED  BY <2>1, <1>2
<1> HIDE DEF p6
<1>9. /\ p7 \in Position
      /\ p7.owed["igst"] = p6.owed["igst"]
      /\ p7.owed["cgst"] = p6.owed["cgst"]
      /\ p7.owed["sgst"] = p6.owed["sgst"]
      /\ p7.owed["cess"] = p6.owed["cess"] - Smaller(p6.available["cess"], p6.owed["cess"])
      /\ p7.available["igst"] = p6.available["igst"]
      /\ p7.available["cgst"] = p6.available["cgst"]
      /\ p7.available["sgst"] = p6.available["sgst"]
      /\ p7.available["cess"] = p6.available["cess"] - Smaller(p6.available["cess"], p6.owed["cess"])
  <2>1. /\ p7 \in Position
        /\ p7.owed["cess"] = p6.owed["cess"] - Smaller(p6.available["cess"], p6.owed["cess"])
        /\ p7.available["cess"] = p6.available["cess"] - Smaller(p6.available["cess"], p6.owed["cess"])
        /\ \A head \in Heads \ {"cess"} : p7.owed[head] = p6.owed[head]
        /\ \A head \in Heads \ {"cess"} : p7.available[head] = p6.available[head]
    BY <1>8, <1>2, ApplyFacts
  <2> QED  BY <2>1, <1>2
<1> HIDE DEF p7
<1> QED
  BY <1>0, <1>3, <1>4, <1>5, <1>6, <1>7, <1>8, <1>9 DEF start

(* The set-off is itself a lawful way of spending the credit: this one.       *)
LEMMA FinalAmounts ==
    ASSUME NEW owes \in TaxHeads, NEW has \in TaxHeads
    PROVE  \E spend \in Allocation(Nat, Nat, Nat) :
              /\ Lawful(spend, owes, has)
              /\ Payable(owes, has) = CashOf(spend, owes, has)
              /\ spend.cgstToIgst = Smaller(has["cgst"] - spend.cgstToCgst,
                                            owes["igst"] - Smaller(has["igst"], owes["igst"]))
              /\ spend.sgstToIgst = Smaller(has["sgst"] - spend.sgstToSgst,
                                            owes["igst"] - Smaller(has["igst"], owes["igst"]) - spend.cgstToIgst)
              /\ spend.cgstToCgst = Smaller(has["cgst"], owes["cgst"] - spend.igstToCgst)
              /\ spend.sgstToSgst = Smaller(has["sgst"], owes["sgst"] - spend.igstToSgst)
              /\ LET igst == Smaller(has["igst"], owes["igst"])
                     toCgst == Smaller(has["igst"] - igst, Excess(owes["cgst"], has["cgst"]))
                     toSgst == Smaller(has["igst"] - igst - toCgst, Excess(owes["sgst"], has["sgst"]))
                     restC == Smaller(has["igst"] - igst - toCgst - toSgst, owes["cgst"] - toCgst)
                 IN  /\ spend.igstToCgst = toCgst + restC
                     /\ spend.igstToSgst = toSgst + Smaller(has["igst"] - igst - toCgst - toSgst - restC,
                                                            owes["sgst"] - toSgst)
<1> DEFINE Li == owes["igst"]  Lc == owes["cgst"]  Ls == owes["sgst"]  Lx == owes["cess"]
           Ci == has["igst"]  Cc == has["cgst"]  Cs == has["sgst"]  Cx == has["cess"]
           igst == Smaller(Ci, Li)
           toCgst == Smaller(Ci - igst, Excess(Lc, Cc))
           toSgst == Smaller(Ci - igst - toCgst, Excess(Ls, Cs))
           restC == Smaller(Ci - igst - toCgst - toSgst, Lc - toCgst)
           restS == Smaller(Ci - igst - toCgst - toSgst - restC, Ls - toSgst)
           cc == Smaller(Cc, Lc - toCgst - restC)
           ci == Smaller(Cc - cc, Li - igst)
           ss == Smaller(Cs, Ls - toSgst - restS)
           si == Smaller(Cs - ss, Li - igst - ci)
           xx == Smaller(Cx, Lx)
           spend == [igstToCgst |-> toCgst + restC, igstToSgst |-> toSgst + restS,
                     cgstToCgst |-> cc, cgstToIgst |-> ci, sgstToSgst |-> ss, sgstToIgst |-> si]
           start == Directed(owes, has)
           final == ApplySetOff(owes, has)
<1>1. /\ Li \in Nat /\ Lc \in Nat /\ Ls \in Nat /\ Lx \in Nat
      /\ Ci \in Nat /\ Cc \in Nat /\ Cs \in Nat /\ Cx \in Nat
  BY DEF TaxHeads, Heads
<1>2. /\ start.owed["igst"] = Li - igst /\ start.owed["cgst"] = Lc - toCgst
      /\ start.owed["sgst"] = Ls - toSgst /\ start.owed["cess"] = Lx
      /\ start.available["igst"] = Ci - igst - toCgst - toSgst
      /\ start.available["cgst"] = Cc /\ start.available["sgst"] = Cs /\ start.available["cess"] = Cx
  BY DirectedFacts
<1>3. /\ final.owed["igst"] = Li - igst - ci - si
      /\ final.owed["cgst"] = Lc - toCgst - restC - cc
      /\ final.owed["sgst"] = Ls - toSgst - restS - ss
      /\ final.owed["cess"] = Lx - xx
  <2> HIDE DEF start, final, Li, Lc, Ls, Lx, Ci, Cc, Cs, Cx, igst, toCgst, toSgst
  <2> QED  BY <1>2, PlainOrderFacts DEF start, final
<1> HIDE DEF Li, Lc, Ls, Lx, Ci, Cc, Cs, Cx
<1>4. igst \in Nat /\ igst <= Ci /\ igst <= Li
  BY <1>1 DEF Smaller
<1>5. toCgst \in Nat /\ toCgst <= Ci - igst /\ toCgst <= Lc
  BY <1>1, <1>4 DEF Smaller, Excess
<1>6. toSgst \in Nat /\ toSgst <= Ci - igst - toCgst /\ toSgst <= Ls
  BY <1>1, <1>4, <1>5 DEF Smaller, Excess
<1> HIDE DEF igst, toCgst, toSgst
<1>7. /\ restC \in Nat /\ restC <= Ci - igst - toCgst - toSgst /\ restC <= Lc - toCgst
  BY <1>1, <1>4, <1>5, <1>6 DEF Smaller
<1>8. /\ restS \in Nat /\ restS <= Ci - igst - toCgst - toSgst - restC /\ restS <= Ls - toSgst
  BY <1>1, <1>4, <1>5, <1>6, <1>7 DEF Smaller
<1> HIDE DEF restC, restS
<1>9. cc \in Nat /\ cc <= Cc /\ cc <= Lc - toCgst - restC
  BY <1>1, <1>5, <1>7 DEF Smaller
<1>10. ss \in Nat /\ ss <= Cs /\ ss <= Ls - toSgst - restS
  BY <1>1, <1>6, <1>8 DEF Smaller
<1> HIDE DEF cc, ss
<1>11. ci \in Nat /\ ci <= Cc - cc /\ ci <= Li - igst
  BY <1>1, <1>4, <1>9 DEF Smaller
<1> HIDE DEF ci
<1>12. si \in Nat /\ si <= Cs - ss /\ si <= Li - igst - ci
  BY <1>1, <1>4, <1>10, <1>11 DEF Smaller
<1>13. xx \in Nat
  BY <1>1 DEF Smaller
<1> HIDE DEF si, xx
<1>14. spend \in Allocation(Nat, Nat, Nat)
  BY <1>5, <1>6, <1>7, <1>8, <1>9, <1>10, <1>11, <1>12 DEF Allocation
<1>15. Lawful(spend, owes, has)
  BY <1>1, <1>4, <1>5, <1>6, <1>7, <1>8, <1>9, <1>10, <1>11, <1>12
     DEF Lawful, igst, Li, Lc, Ls, Ci, Cc, Cs
<1>16. Payable(owes, has) = CashOf(spend, owes, has)
  <2>1. Payable(owes, has) = (Li - igst - ci - si) + (Lc - toCgst - restC - cc)
                              + (Ls - toSgst - restS - ss) + (Lx - xx)
    BY <1>3 DEF Payable, TotalHeads
  <2>2. CashOf(spend, owes, has) =
           (Li + Lc + Ls + Lx) - (igst + xx + (toCgst + restC) + (toSgst + restS) + cc + ci + ss + si)
    BY DEF CashOf, Spent, TotalHeads, igst, xx, Li, Lc, Ls, Lx, Ci, Cx
  <2> QED  BY <2>1, <2>2, <1>1, <1>4, <1>5, <1>6, <1>7, <1>8, <1>9, <1>10, <1>11, <1>12, <1>13
<1>17. /\ spend.igstToCgst = toCgst + restC /\ spend.igstToSgst = toSgst + restS
       /\ spend.cgstToCgst = cc /\ spend.cgstToIgst = ci /\ spend.sgstToSgst = ss /\ spend.sgstToIgst = si
  OBVIOUS
<1>18. cc = Smaller(Cc, Lc - (toCgst + restC)) /\ ss = Smaller(Cs, Ls - (toSgst + restS))
  BY <1>1, <1>5, <1>6, <1>7, <1>8 DEF cc, ss, Smaller
<1> HIDE DEF spend
<1> QED
  BY <1>14, <1>15, <1>16, <1>17, <1>18
     DEF ci, si, restC, restS, toCgst, toSgst, igst, Li, Lc, Ls, Ci, Cc, Cs

(* For tax heads of any size, no lawful way of spending the credit leaves     *)
(* less to be paid in cash than the set-off does (set-off.ts 111-132).        *)
THEOREM NoSpendingBeatsTheSetOff ==
    ASSUME NEW owes \in TaxHeads, NEW has \in TaxHeads,
           NEW spend \in Allocation(Nat, Nat, Nat), Lawful(spend, owes, has)
    PROVE  Payable(owes, has) <= CashOf(spend, owes, has)
<1> DEFINE Li == owes["igst"]  Lc == owes["cgst"]  Ls == owes["sgst"]
           Ci == has["igst"]  Cc == has["cgst"]  Cs == has["sgst"]
           igst == Smaller(Ci, Li)
           chosen(s) == s.igstToCgst + s.igstToSgst + s.cgstToCgst + s.cgstToIgst + s.sgstToSgst + s.sgstToIgst
<1>1. /\ Li \in Nat /\ Lc \in Nat /\ Ls \in Nat /\ Ci \in Nat /\ Cc \in Nat /\ Cs \in Nat
      /\ owes["cess"] \in Nat /\ has["cess"] \in Nat
  BY DEF TaxHeads, Heads
<1>2. PICK best \in Allocation(Nat, Nat, Nat) :
         /\ Payable(owes, has) = CashOf(best, owes, has)
         /\ best.cgstToCgst = Smaller(Cc, Lc - best.igstToCgst)
         /\ best.sgstToSgst = Smaller(Cs, Ls - best.igstToSgst)
         /\ best.cgstToIgst = Smaller(Cc - best.cgstToCgst, Li - igst)
         /\ best.sgstToIgst = Smaller(Cs - best.sgstToSgst, Li - igst - best.cgstToIgst)
         /\ LET toCgst == Smaller(Ci - igst, Excess(Lc, Cc))
                toSgst == Smaller(Ci - igst - toCgst, Excess(Ls, Cs))
                restC == Smaller(Ci - igst - toCgst - toSgst, Lc - toCgst)
            IN  /\ best.igstToCgst = toCgst + restC
                /\ best.igstToSgst = toSgst + Smaller(Ci - igst - toCgst - toSgst - restC, Ls - toSgst)
  BY FinalAmounts
<1>3. chosen(spend) <= chosen(best)
  <2>1. /\ spend.igstToCgst \in Nat /\ spend.igstToSgst \in Nat /\ spend.cgstToCgst \in Nat
        /\ spend.cgstToIgst \in Nat /\ spend.sgstToSgst \in Nat /\ spend.sgstToIgst \in Nat
    BY DEF Allocation
  <2>2. /\ igst + spend.igstToCgst + spend.igstToSgst <= Ci
        /\ spend.cgstToCgst + spend.cgstToIgst <= Cc
        /\ spend.sgstToSgst + spend.sgstToIgst <= Cs
        /\ igst + spend.cgstToIgst + spend.sgstToIgst <= Li
        /\ spend.igstToCgst + spend.cgstToCgst <= Lc
        /\ spend.igstToSgst + spend.sgstToSgst <= Ls
    BY DEF Lawful
  <2>5. /\ best.igstToCgst \in Nat /\ best.igstToSgst \in Nat /\ best.cgstToCgst \in Nat
        /\ best.cgstToIgst \in Nat /\ best.sgstToSgst \in Nat /\ best.sgstToIgst \in Nat
    BY DEF Allocation
  <2>3. CASE Ci <= Li
    <3>1. igst = Ci /\ Li - igst \in Nat
      BY <1>1, <2>3 DEF Smaller
    <3>2. best.igstToCgst = 0 /\ best.igstToSgst = 0
      <4> HIDE DEF igst, Li, Lc, Ls, Ci, Cc, Cs
      <4> QED  BY <1>1, <1>2, <3>1 DEF Smaller, Excess
    <3>3. spend.igstToCgst = 0 /\ spend.igstToSgst = 0
      <4> HIDE DEF igst, Li, Lc, Ls, Ci, Cc, Cs
      <4>1. Ci + spend.igstToCgst + spend.igstToSgst <= Ci
        BY <2>2, <3>1
      <4> QED  BY <1>1, <2>1, <4>1
    <3>4. /\ best.cgstToCgst = Smaller(Cc, Lc) /\ best.sgstToSgst = Smaller(Cs, Ls)
          /\ best.cgstToIgst = Smaller(Cc - best.cgstToCgst, Li - igst)
          /\ best.sgstToIgst = Smaller(Cs - best.sgstToSgst, (Li - igst) - best.cgstToIgst)
      <4> HIDE DEF igst, Li, Lc, Ls, Ci, Cc, Cs
      <4> QED  BY <1>1, <1>2, <3>1, <3>2
    <3>5. /\ spend.cgstToIgst + spend.sgstToIgst <= Li - igst
          /\ spend.cgstToCgst <= Lc /\ spend.sgstToSgst <= Ls
      <4> HIDE DEF igst, Li, Lc, Ls, Ci, Cc, Cs
      <4> QED  BY <1>1, <2>1, <2>2, <3>1
    <3>6. spend.cgstToCgst + spend.cgstToIgst + spend.sgstToSgst + spend.sgstToIgst <=
             best.cgstToCgst + best.cgstToIgst + best.sgstToSgst + best.sgstToIgst
      <4> HIDE DEF igst, Li, Lc, Ls, Ci, Cc, Cs
      <4> DEFINE rest == Li - igst
                 a == spend.cgstToCgst  b == spend.cgstToIgst
                 c == spend.sgstToSgst  d == spend.sgstToIgst
                 cc == best.cgstToCgst  ci == best.cgstToIgst
                 ss == best.sgstToSgst  si == best.sgstToIgst
      <4>1. /\ rest \in Nat /\ a \in Nat /\ b \in Nat /\ c \in Nat /\ d \in Nat
            /\ a + b <= Cc /\ c + d <= Cs /\ b + d <= rest /\ a <= Lc /\ c <= Ls
        BY <2>1, <2>2, <3>1, <3>5
      <4>2. /\ cc = Smaller(Cc, Lc) /\ ss = Smaller(Cs, Ls)
            /\ ci = Smaller(Cc - cc, rest) /\ si = Smaller(Cs - ss, rest - ci)
        BY <3>4
      <4>3. Lc \in Nat /\ Ls \in Nat /\ Cc \in Nat /\ Cs \in Nat
        BY <1>1
      <4> HIDE DEF rest, a, b, c, d, cc, ci, ss, si
      <4>4. a + b + c + d <= cc + ci + ss + si
        BY <4>1, <4>2, <4>3 DEF Smaller
      <4> QED  BY <4>4 DEF a, b, c, d, cc, ci, ss, si
    <3> QED  BY <2>1, <2>5, <3>2, <3>3, <3>6
  <2>4. CASE Ci > Li
    <3>1. igst = Li /\ Ci - igst \in Nat
      BY <1>1, <2>4 DEF Smaller
    <3>2. /\ spend.cgstToIgst = 0 /\ spend.sgstToIgst = 0
      <4> HIDE DEF igst, Li, Lc, Ls, Ci, Cc, Cs
      <4> QED  BY <1>1, <2>1, <2>2, <3>1
    <3>3. best.cgstToIgst = 0 /\ best.sgstToIgst = 0
      <4>1. Li - igst = 0
        BY <1>1, <3>1
      <4> HIDE DEF igst, Li, Lc, Ls, Ci, Cc, Cs
      <4>2. best.cgstToCgst <= Cc /\ best.sgstToSgst <= Cs
        BY <1>1, <1>2, <2>5 DEF Smaller
      <4>3. best.cgstToIgst = 0
        BY <1>1, <1>2, <2>5, <4>1, <4>2 DEF Smaller
      <4> QED  BY <1>1, <1>2, <2>5, <4>1, <4>2, <4>3 DEF Smaller
    <3>4. /\ spend.igstToCgst + spend.igstToSgst <= Ci - igst
          /\ spend.cgstToCgst <= Cc /\ spend.sgstToSgst <= Cs
      <4> HIDE DEF igst, Li, Lc, Ls, Ci, Cc, Cs
      <4> QED  BY <1>1, <2>1, <2>2, <3>1, <3>2
    <3>5. spend.igstToCgst + spend.igstToSgst + spend.cgstToCgst + spend.sgstToSgst <=
             best.igstToCgst + best.igstToSgst + best.cgstToCgst + best.sgstToSgst
      <4> DEFINE pool == Ci - igst
                 toC == Smaller(pool, Excess(Lc, Cc))
                 toS == Smaller(pool - toC, Excess(Ls, Cs))
                 restC == Smaller(pool - toC - toS, Lc - toC)
                 restS == Smaller(pool - toC - toS - restC, Ls - toS)
      <4>1. best.igstToCgst = toC + restC /\ best.igstToSgst = toS + restS
        BY <1>2
      <4>2. best.cgstToCgst = Smaller(Cc, Lc - (toC + restC)) /\ best.sgstToSgst = Smaller(Cs, Ls - (toS + restS))
        BY <1>2, <4>1
      <4>3. pool \in Nat
        BY <3>1
      <4> HIDE DEF pool, igst, Li, Lc, Ls, Ci, Cc, Cs
      <4>4. (spend.igstToCgst + spend.igstToSgst + spend.cgstToCgst + spend.sgstToSgst <=
               (toC + restC) + (toS + restS) + best.cgstToCgst + best.sgstToSgst)
        <5>1. spend.igstToCgst + spend.igstToSgst <= pool
          BY <3>4 DEF pool
        <5> DEFINE x == spend.igstToCgst  y == spend.igstToSgst
                   a == spend.cgstToCgst  c == spend.sgstToSgst
                   cc == best.cgstToCgst  ss == best.sgstToSgst
        <5>2. /\ x \in Nat /\ y \in Nat /\ a \in Nat /\ c \in Nat
              /\ x + y <= pool /\ a <= Cc /\ c <= Cs /\ x + a <= Lc /\ y + c <= Ls
          BY <2>1, <2>2, <3>4, <5>1
        <5>3. /\ cc = Smaller(Cc, Lc - (toC + restC)) /\ ss = Smaller(Cs, Ls - (toS + restS))
          BY <4>2
        <5>4. Lc \in Nat /\ Ls \in Nat /\ Cc \in Nat /\ Cs \in Nat
          BY <1>1
        <5> HIDE DEF x, y, a, c, cc, ss, toC, toS, restC, restS
        <5>5. x + y + a + c <= (toC + restC) + (toS + restS) + cc + ss
          <6>0. pool \in Nat
            BY <4>3
          <6>1. CASE Cc >= Lc /\ Cs >= Ls
            BY <6>0, <5>2, <5>3, <5>4, <6>1 DEF Smaller, Excess, toC, toS, restC, restS
          <6>2. CASE Cc >= Lc /\ Cs < Ls
            BY <6>0, <5>2, <5>3, <5>4, <6>2 DEF Smaller, Excess, toC, toS, restC, restS
          <6>3. CASE Cc < Lc /\ Cs >= Ls
            BY <6>0, <5>2, <5>3, <5>4, <6>3 DEF Smaller, Excess, toC, toS, restC, restS
          <6>4. CASE Cc < Lc /\ Cs < Ls
            BY <6>0, <5>2, <5>3, <5>4, <6>4 DEF Smaller, Excess, toC, toS, restC, restS
          <6> QED  BY <5>4, <6>1, <6>2, <6>3, <6>4
        <5> QED  BY <5>5 DEF x, y, a, c, cc, ss
      <4> HIDE DEF toC, toS, restC, restS
      <4> QED  BY <4>1, <4>4
    <3> QED  BY <2>1, <2>5, <3>2, <3>3, <3>5
  <2> QED  BY <1>1, <2>3, <2>4
<1>4. CashOf(best, owes, has) <= CashOf(spend, owes, has)
  <2>1. /\ chosen(best) \in Nat /\ chosen(spend) \in Nat
        /\ igst \in Nat /\ Smaller(has["cess"], owes["cess"]) \in Nat
    BY <1>1 DEF Allocation, Smaller
  <2>2. \A s \in Allocation(Nat, Nat, Nat) :
           CashOf(s, owes, has) = TotalHeads(owes) - (igst + Smaller(has["cess"], owes["cess"]) + chosen(s))
    <3> SUFFICES ASSUME NEW s \in Allocation(Nat, Nat, Nat)
                 PROVE  Spent(s, owes, has) = igst + Smaller(has["cess"], owes["cess"]) + chosen(s)
      BY DEF CashOf
    <3>1. /\ s.igstToCgst \in Nat /\ s.igstToSgst \in Nat /\ s.cgstToCgst \in Nat
          /\ s.cgstToIgst \in Nat /\ s.sgstToSgst \in Nat /\ s.sgstToIgst \in Nat
      BY DEF Allocation
    <3> QED  BY <2>1, <3>1 DEF Spent
  <2>3. TotalHeads(owes) \in Nat
    BY <1>1 DEF TotalHeads
  <2> QED  BY <1>3, <2>1, <2>2, <2>3
<1> QED
  BY <1>2, <1>4

(* Both sides of a set-off stay within the amounts the model lets heads have. *)
SetOffTypeOK == liability \in [Heads -> 0..MaxHead] /\ credit \in [Heads -> 0..MaxHead]

(* In every reachable state the set-off leaves the least cash any lawful      *)
(* spending of the credit would, and a lawful spending leaves it.             *)
THEOREM LeastCashAlways == SetOffSpec => []LeastCash
<1>1. SetOffInit => SetOffTypeOK
  BY SetOffAssumption DEF SetOffInit, SetOffTypeOK
<1>2. SetOffTypeOK /\ [SetOffNext]_setOffVars => SetOffTypeOK'
  <2> SUFFICES ASSUME SetOffTypeOK, [SetOffNext]_setOffVars PROVE SetOffTypeOK'
    OBVIOUS
  <2>1. ASSUME NEW head \in Heads, ClaimCredit(head) PROVE SetOffTypeOK'
    <3>1. credit[head] + 1 \in 0..MaxHead
      BY <2>1, SetOffAssumption DEF SetOffTypeOK, ClaimCredit
    <3> QED  BY <2>1, <3>1 DEF SetOffTypeOK, ClaimCredit
  <2>2. CASE UNCHANGED setOffVars
    BY <2>2 DEF SetOffTypeOK, setOffVars
  <2> QED  BY <2>1, <2>2 DEF SetOffNext
<1>3. SetOffTypeOK => LeastCash
  <2> SUFFICES ASSUME SetOffTypeOK PROVE LeastCash
    OBVIOUS
  <2>1. liability \in TaxHeads /\ credit \in TaxHeads
    BY SetOffAssumption DEF SetOffTypeOK, TaxHeads
  <2>2. ASSUME NEW spend \in Allocation(0..liability["igst"], 0..liability["cgst"], 0..liability["sgst"]), Lawful(spend, liability, credit)
        PROVE  Payable(liability, credit) <= CashOf(spend, liability, credit)
    <3>1. spend \in Allocation(Nat, Nat, Nat)
      BY <2>1, <2>2 DEF Allocation, TaxHeads, Heads
    <3> QED  BY <2>1, <2>2, <3>1, NoSpendingBeatsTheSetOff
  <2>3. \E spend \in Allocation(0..liability["igst"], 0..liability["cgst"], 0..liability["sgst"]) :
           Lawful(spend, liability, credit) /\ Payable(liability, credit) = CashOf(spend, liability, credit)
    <3>1. PICK best \in Allocation(Nat, Nat, Nat) :
             Lawful(best, liability, credit) /\ Payable(liability, credit) = CashOf(best, liability, credit)
      BY <2>1, FinalAmounts
    <3>2. /\ best.igstToCgst \in Nat /\ best.igstToSgst \in Nat /\ best.cgstToCgst \in Nat
          /\ best.cgstToIgst \in Nat /\ best.sgstToSgst \in Nat /\ best.sgstToIgst \in Nat
      BY DEF Allocation
    <3>3. /\ liability["igst"] \in 0..MaxHead /\ liability["cgst"] \in 0..MaxHead
          /\ liability["sgst"] \in 0..MaxHead /\ credit["igst"] \in 0..MaxHead
      BY DEF SetOffTypeOK, Heads
    <3>4. Smaller(credit["igst"], liability["igst"]) \in Nat
      BY <3>3 DEF Smaller
    <3>5. /\ best.igstToCgst + best.cgstToCgst <= liability["cgst"]
          /\ best.igstToSgst + best.sgstToSgst <= liability["sgst"]
          /\ Smaller(credit["igst"], liability["igst"]) + best.cgstToIgst + best.sgstToIgst <= liability["igst"]
      BY <3>1 DEF Lawful
    <3>6. /\ best.igstToCgst \in 0..liability["cgst"] /\ best.igstToSgst \in 0..liability["sgst"]
          /\ best.cgstToCgst \in 0..liability["cgst"] /\ best.cgstToIgst \in 0..liability["igst"]
          /\ best.sgstToSgst \in 0..liability["sgst"] /\ best.sgstToIgst \in 0..liability["igst"]
      BY <3>2, <3>3, <3>4, <3>5, SetOffAssumption
    <3>7. best \in Allocation(0..liability["igst"], 0..liability["cgst"], 0..liability["sgst"])
      BY <3>6 DEF Allocation
    <3> QED  BY <3>1, <3>7
  <2> QED  BY <2>2, <2>3 DEF LeastCash
<1> QED
  BY <1>1, <1>2, <1>3, PTL DEF SetOffSpec

---------------------------------------------------------------------------
(* The reports, and the ledger of an account page by page.                  *)

---------------------------------------------------------------------------
(* The chart and the calendar. *)

\* The accounts of the chart, by the sections the reports read them in.
LEMMA ChartIs ==
    /\ Accounts = {"CASH", "DEPRECIATED", "LOAN", "DRAWINGS", "RETAINED", "SALES",
                   "SALES_RETURNS", "OWN_EXPENSE"}
    /\ InSection("BALANCE_SHEET", "ASSET") = {"CASH", "DEPRECIATED"}
    /\ InSection("BALANCE_SHEET", "LIABILITY") = {"LOAN"}
    /\ InSection("BALANCE_SHEET", "EQUITY") = {"DRAWINGS", "RETAINED"}
    /\ Typed("INCOME") = {"SALES", "SALES_RETURNS"}
    /\ InSection("TRADING", "INCOME") = {"SALES", "SALES_RETURNS"}
    /\ InSection("TRADING", "EXPENSE") = {}
    /\ InSection("PROFIT_AND_LOSS", "INCOME") = {}
    /\ InSection("PROFIT_AND_LOSS", "EXPENSE") = {"OWN_EXPENSE"}
    /\ Typed("EXPENSE") = {"OWN_EXPENSE"}
    /\ Results = {"SALES", "SALES_RETURNS", "OWN_EXPENSE"}
  BY DEF Accounts, Chart, Account, InSection, Typed, Results

\* A report adds up finitely many accounts.
LEMMA AccountsFinite == \A S \in SUBSET Accounts : IsFiniteSet(S)
  <1>1. IsFiniteSet({"CASH", "DEPRECIATED", "LOAN", "DRAWINGS", "RETAINED", "SALES",
                     "SALES_RETURNS", "OWN_EXPENSE"})
    <2>1. IsFiniteSet({"CASH"}) /\ IsFiniteSet({"LOAN"}) /\ IsFiniteSet({"DEPRECIATED"})
          /\ IsFiniteSet({"DRAWINGS"}) /\ IsFiniteSet({"RETAINED"}) /\ IsFiniteSet({"SALES"})
          /\ IsFiniteSet({"SALES_RETURNS"}) /\ IsFiniteSet({"OWN_EXPENSE"})
      BY FS_Singleton
    <2>2. IsFiniteSet((((((({"CASH"} \union {"DEPRECIATED"}) \union {"LOAN"}) \union {"DRAWINGS"})
             \union {"RETAINED"}) \union {"SALES"}) \union {"SALES_RETURNS"}) \union {"OWN_EXPENSE"})
      BY <2>1, FS_Union
    <2>3. {"CASH", "DEPRECIATED", "LOAN", "DRAWINGS", "RETAINED", "SALES",
           "SALES_RETURNS", "OWN_EXPENSE"}
           = (((((({"CASH"} \union {"DEPRECIATED"}) \union {"LOAN"}) \union {"DRAWINGS"})
             \union {"RETAINED"}) \union {"SALES"}) \union {"SALES_RETURNS"}) \union {"OWN_EXPENSE"}
      OBVIOUS
    <2> QED
      BY <2>2, <2>3
  <1> QED
    BY <1>1, ChartIs, FS_Subset

\* An account is debited or credited by its type.
Natural(a, amount) == IF Chart[a].type \in {"ASSET", "EXPENSE"} THEN amount ELSE - amount
\* An account's figure is its debits less its credits, or the reverse, by its type
\* (naturalAmount).
LEMMA NaturalIs ==
    ASSUME NEW a \in Accounts, NEW dr \in Int, NEW cr \in Int
    PROVE  NaturalAmount(a, dr, cr) = Natural(a, dr - cr)
  BY DEF NaturalAmount, NaturalSideForType, SignedBalance, Natural

\* Which accounts stand on which side; drawings are capital and stand with it.
LEMMA NaturalByAccount ==
    ASSUME NEW amount
    PROVE  /\ \A a \in {"CASH", "DEPRECIATED", "OWN_EXPENSE"} : Natural(a, amount) = amount
           /\ \A a \in {"LOAN", "DRAWINGS", "RETAINED", "SALES", "SALES_RETURNS"} :
                 Natural(a, amount) = - amount
  BY DEF Natural, Chart, Account

\* Every day falls in a fiscal year, and each year ends on a day.
LEMMA YearsAndDays ==
    /\ NumYears \in Nat \ {0} /\ DaysPerYear \in Nat \ {0}
    /\ NumYears * DaysPerYear \in Nat
    /\ \A y \in Years : YearEnd(y) \in Days
    /\ \A day \in Days : /\ YearOf(day) \in Years
                         /\ \A y \in Years : day <= YearEnd(y) <=> YearOf(day) <= y
  <1>1. NumYears \in Nat \ {0} /\ DaysPerYear \in Nat \ {0} /\ NumYears * DaysPerYear \in Nat
    BY CalendarAssumption
  <1>2. ASSUME NEW y \in Years PROVE YearEnd(y) \in Days
    <2>1. y \in Nat /\ 1 <= y /\ y <= NumYears
      BY <1>1 DEF Years
    <2>2. y * DaysPerYear \in Nat /\ 1 <= y * DaysPerYear /\ y * DaysPerYear <= NumYears * DaysPerYear
      BY <1>1, <2>1
    <2> QED
      BY <1>1, <2>2 DEF YearEnd, Days
  <1>3. ASSUME NEW day \in Days
        PROVE  /\ YearOf(day) \in Years
               /\ \A y \in Years : day <= YearEnd(y) <=> YearOf(day) <= y
    <2> DEFINE q == (day - 1) \div DaysPerYear
               r == (day - 1) % DaysPerYear
    <2>1. day \in Nat /\ 1 <= day /\ day <= NumYears * DaysPerYear
      BY <1>1 DEF Days
    <2>2. q \in Nat /\ r \in 0 .. DaysPerYear - 1 /\ day - 1 = DaysPerYear * q + r
      BY <1>1, <2>1
    <2>3. YearOf(day) = q + 1
      BY DEF YearOf
    <2> HIDE DEF q, r
    <2>4. ASSUME NEW y \in Nat PROVE day <= y * DaysPerYear <=> q + 1 <= y
      <3>1. CASE q + 1 <= y
        <4>1. (q + 1) * DaysPerYear <= y * DaysPerYear
          BY <1>1, <2>2, <3>1
        <4>2. (q + 1) * DaysPerYear = DaysPerYear * q + DaysPerYear
          BY <1>1, <2>2
        <4>3. DaysPerYear * q \in Nat /\ y * DaysPerYear \in Nat
          BY <1>1, <2>2
        <4> QED
          BY <1>1, <2>1, <2>2, <3>1, <4>1, <4>2, <4>3
      <3>2. CASE y <= q
        <4>1. y * DaysPerYear <= DaysPerYear * q
          BY <1>1, <2>2, <3>2
        <4>3. DaysPerYear * q \in Nat /\ y * DaysPerYear \in Nat
          BY <1>1, <2>2
        <4> QED
          BY <1>1, <2>1, <2>2, <3>2, <4>1, <4>3
      <3> QED
        BY <2>2, <3>1, <3>2
    <2>5. q + 1 <= NumYears
      BY <1>1, <2>1, <2>4
    <2>6. YearOf(day) \in Years
      BY <2>2, <2>3, <2>5, <1>1 DEF Years
    <2>7. ASSUME NEW y \in Years PROVE day <= YearEnd(y) <=> YearOf(day) <= y
      <3>1. y \in Nat
        BY <1>1 DEF Years
      <3> QED
        BY <2>3, <2>4, <3>1 DEF YearEnd
    <2> QED
      BY <2>6, <2>7
  <1> QED
    BY <1>1, <1>2, <1>3

\* A later year does not end before an earlier one.
LEMMA LaterYearEnd ==
    ASSUME NEW y \in Nat, NEW z \in Nat, z < y
    PROVE  ~ (YearEnd(y) <= YearEnd(z))
  <1>1. DaysPerYear \in Nat \ {0}
    BY YearsAndDays
  <1>2. y * DaysPerYear \in Nat /\ z * DaysPerYear \in Nat /\ (z + 1) * DaysPerYear \in Nat
    BY <1>1
  <1>3. (z + 1) * DaysPerYear <= y * DaysPerYear
    BY <1>1, <1>2
  <1>4. (z + 1) * DaysPerYear = z * DaysPerYear + DaysPerYear
    BY <1>1
  <1> QED
    BY <1>1, <1>2, <1>3, <1>4 DEF YearEnd

---------------------------------------------------------------------------
(* Balances are sums of lines. *)

EntryRow == [date : Days, kind : {"MANUAL", "CLOSING_ENTRY"}, branch : Reports,
              reverses : Nat, lines : [Accounts -> Int]]
IsBook == book \in Seq(EntryRow)

\* What some entries add up to on an account, debits positive.
Net(a, entries) == SumFunctionOnSet([i \in Entries |-> book[i].lines[a]], entries)

\* Entries are dated, and their lines are whole paise on the accounts of the chart.
LEMMA EntriesAre ==
    ASSUME IsBook
    PROVE  /\ Entries = 1 .. Len(book) /\ Len(book) \in Nat
           /\ \A i \in Entries : /\ i \in Nat /\ book[i] \in EntryRow /\ book[i].date \in Days
                                 /\ \A a \in Accounts : book[i].lines[a] \in Int
           /\ \A E \in SUBSET Entries : IsFiniteSet(E)
  <1>1. Entries = 1 .. Len(book) /\ Len(book) \in Nat
    BY DEF Entries, IsBook
  <1>2. ASSUME NEW i \in Entries
        PROVE  /\ i \in Nat /\ book[i] \in EntryRow /\ book[i].date \in Days
               /\ \A a \in Accounts : book[i].lines[a] \in Int
    <2>1. i \in Nat /\ book[i] \in EntryRow
      BY <1>1 DEF IsBook
    <2> QED
      BY <2>1 DEF EntryRow
  <1>3. IsFiniteSet(Entries)
    BY <1>1, FS_Interval
  <1> QED
    BY <1>1, <1>2, <1>3, FS_Subset

\* What an account takes from entries is their debits less their credits.
LEMMA NetIs ==
    ASSUME IsBook, NEW a \in Accounts, NEW E \in SUBSET Entries
    PROVE  /\ Net(a, E) \in Int
           /\ Debits(a, E) \in Int /\ Credits(a, E) \in Int
           /\ Debits(a, E) - Credits(a, E) = Net(a, E)
  <1> DEFINE moved  == [i \in Entries |-> book[i].lines[a]]
             dr == [i \in E |-> DebitOf(book[i].lines[a])]
             cr == [i \in E |-> CreditOf(book[i].lines[a])]
             net   == SumFunctionOnSet(moved, E)
             sd    == SumFunctionOnSet(dr, E)
             sc    == SumFunctionOnSet(cr, E)
  <1>1. IsFiniteSet(E)
    BY EntriesAre
  <1>2. \A i \in E : /\ moved[i] \in Int /\ cr[i] \in Int /\ dr[i] \in Int
                     /\ dr[i] = moved[i] + cr[i]
    <2>1. ASSUME NEW i \in E
          PROVE  /\ moved[i] \in Int /\ cr[i] \in Int /\ dr[i] \in Int
                 /\ dr[i] = moved[i] + cr[i]
      <3>1. book[i].lines[a] \in Int
        BY EntriesAre
      <3> QED
        BY <3>1 DEF DebitOf, CreditOf
    <2> QED
      BY <2>1
  <1> HIDE DEF moved, dr, cr
  <1>3. sd = net + sc
    BY <1>1, <1>2, SumBoth
  <1>4. net \in Int /\ sd \in Int /\ sc \in Int
    BY <1>1, <1>2, SumInt
  <1>5. Net(a, E) = net /\ Debits(a, E) = sd /\ Credits(a, E) = sc
    BY DEF Net, Debits, Credits, moved, dr, cr
  <1> HIDE DEF net, sd, sc
  <1> QED
    BY <1>3, <1>4, <1>5

\* Entries split in two: each account takes the sum of the parts.
LEMMA NetOfBoth ==
    ASSUME IsBook, NEW a \in Accounts, NEW E \in SUBSET Entries, NEW P \in SUBSET E
    PROVE  Net(a, E) = Net(a, P) + Net(a, E \ P)
  <1> DEFINE moved == [i \in Entries |-> book[i].lines[a]]
  <1>1. IsFiniteSet(E) /\ \A i \in E : moved[i] \in Int
    BY EntriesAre
  <1> HIDE DEF moved
  <1>2. SumFunctionOnSet(moved, E) = SumFunctionOnSet(moved, P) + SumFunctionOnSet(moved, E \ P)
    BY <1>1, SumParts
  <1> QED
    BY <1>2 DEF Net, moved

\* No entries move nothing.
LEMMA NetOfNone == ASSUME NEW a PROVE Net(a, {}) = 0
  BY SumNone DEF Net

\* A balance stands on one side only, and is nil when debits and credits meet
\* (balanceSide).
LEMMA SideIs ==
    ASSUME NEW dr \in Int, NEW cr \in Int
    PROVE  LET side == BalanceSide(dr, cr)
           IN  /\ side.debit \in Int /\ side.credit \in Int
               /\ side.debit - side.credit = dr - cr
               /\ (side.debit = 0 /\ side.credit = 0) <=> (dr = cr)
  BY DEF BalanceSide

\* A report reads entries of the book.
LEMMA ReadIn == ASSUME NEW w PROVE EntriesRead(w) \in SUBSET Entries
  BY DEF EntriesRead

CarriedIn(w) == EntriesRead(Window(1, w.from - 1, w.branch, FALSE))

\* An account's closing balance is what was carried in and what the window moved
\* (accountBalances).
LEMMA BalanceIs ==
    ASSUME IsBook, NEW a \in Accounts, NEW w
    PROVE  LET row == AccountBalance(a, w)
           IN  /\ row.closingDebit \in Int /\ row.closingCredit \in Int
               /\ row.closingDebit - row.closingCredit
                     = Net(a, CarriedIn(w)) + Net(a, EntriesRead(w))
               /\ row.periodDebit \in Int /\ row.periodCredit \in Int
               /\ row.periodDebit - row.periodCredit = Net(a, EntriesRead(w))
  <1> DEFINE db == Debits(a, CarriedIn(w))
             cb == Credits(a, CarriedIn(w))
             d  == Debits(a, EntriesRead(w))
             c  == Credits(a, EntriesRead(w))
             row == AccountBalance(a, w)
             nb == Net(a, CarriedIn(w))
             n  == Net(a, EntriesRead(w))
             closing == BalanceSide(db + d, cb + c)
  <1>1. db \in Int /\ cb \in Int /\ db - cb = nb /\ nb \in Int
    BY NetIs, ReadIn DEF CarriedIn
  <1>2. d \in Int /\ c \in Int /\ d - c = n /\ n \in Int
    BY NetIs, ReadIn
  <1>3. /\ row.closingDebit = closing.debit /\ row.closingCredit = closing.credit
        /\ row.periodDebit = d /\ row.periodCredit = c
    BY DEF AccountBalance, CarriedIn
  <1> HIDE DEF db, cb, d, c, nb, n
  <1>4. /\ closing.debit \in Int /\ closing.credit \in Int
        /\ closing.debit - closing.credit = (db + d) - (cb + c)
    BY <1>1, <1>2, SideIs
  <1> HIDE DEF closing, row
  <1>5. /\ row.closingDebit \in Int /\ row.closingCredit \in Int
        /\ row.closingDebit - row.closingCredit = nb + n
        /\ row.periodDebit \in Int /\ row.periodCredit \in Int
        /\ row.periodDebit - row.periodCredit = n
    BY <1>1, <1>2, <1>3, <1>4
  <1> QED
    BY <1>5 DEF row, nb, n

\* The figure a profit and loss account prints is the net of the entries it reads.
LEMMA MovementIs ==
    ASSUME IsBook, NEW a \in Accounts, NEW w
    PROVE  MovementOf(a, w) = Natural(a, Net(a, EntriesRead(w)))
  BY BalanceIs, NaturalIs DEF MovementOf

Through(day, branch) == EntriesRead(Window(1, day, branch, FALSE))

\* The figure a balance sheet prints is the net of everything up to its day.
LEMMA PositionIs ==
    ASSUME IsBook, NEW a \in Accounts, NEW day, NEW branch
    PROVE  LET row == AccountBalance(a, Window(1, day, branch, FALSE))
           IN  /\ row.closingDebit - row.closingCredit = Net(a, Through(day, branch))
               /\ PositionOf(a, day, branch) = Natural(a, Net(a, Through(day, branch)))
  <1> DEFINE w == Window(1, day, branch, FALSE)
             row == AccountBalance(a, w)
  <1>1. CarriedIn(w) = {}
    <2>1. w.from = 1
      BY DEF Window
    <2>2. \A i \in Entries : book[i].date \notin 1 .. 1 - 1
      BY EntriesAre DEF Days
    <2>3. Window(1, w.from - 1, w.branch, FALSE).from = 1
          /\ Window(1, w.from - 1, w.branch, FALSE).to = 1 - 1
      BY <2>1 DEF Window
    <2> QED
      BY <2>2, <2>3 DEF CarriedIn, EntriesRead
  <1>2. Net(a, EntriesRead(w)) \in Int
    BY NetIs, ReadIn
  <1>3. /\ row.closingDebit \in Int /\ row.closingCredit \in Int
        /\ row.closingDebit - row.closingCredit = Net(a, CarriedIn(w)) + Net(a, EntriesRead(w))
    BY BalanceIs
  <1>4. row.closingDebit - row.closingCredit = Net(a, EntriesRead(w))
    <2>1. Net(a, CarriedIn(w)) = 0
      BY <1>1, NetOfNone
    <2> HIDE DEF row, w
    <2> QED
      BY <1>2, <1>3, <2>1
  <1>5. PositionOf(a, day, branch) = Natural(a, row.closingDebit - row.closingCredit)
    BY <1>3, NaturalIs DEF PositionOf
  <1>6. EntriesRead(w) = Through(day, branch)
    BY DEF Through
  <1>7. /\ row.closingDebit - row.closingCredit = Net(a, Through(day, branch))
        /\ PositionOf(a, day, branch) = Natural(a, Net(a, Through(day, branch)))
    <2> HIDE DEF row, w
    <2> QED
      BY <1>4, <1>5, <1>6
  <1> QED
    BY <1>7

---------------------------------------------------------------------------
(* Totals of accounts. *)

\* The sum over one account.
LEMMA SumOfOne ==
    ASSUME NEW f, NEW a, f[a] \in Int
    PROVE  SumFunctionOnSet(f, {a}) = f[a]
  <1>1. IsFiniteSet({a}) /\ {a} \ {a} = {}
    BY FS_Singleton
  <1>2. SumFunctionOnSet(f, {a}) = f[a] + SumFunctionOnSet(f, {a} \ {a})
    BY <1>1, SumWithout
  <1> QED
    BY <1>1, <1>2, SumNone

\* The sum over two accounts.
LEMMA SumOfTwo ==
    ASSUME NEW f, NEW a, NEW b, a # b, f[a] \in Int, f[b] \in Int
    PROVE  SumFunctionOnSet(f, {a, b}) = f[a] + f[b]
  <1>1. IsFiniteSet({a, b}) /\ {a, b} \ {a} = {b}
    <2>1. IsFiniteSet({a}) /\ IsFiniteSet({b}) /\ {a, b} = {a} \union {b}
      BY FS_Singleton
    <2> QED
      BY <2>1, FS_Union
  <1>2. SumFunctionOnSet(f, {a, b}) = f[a] + SumFunctionOnSet(f, {a, b} \ {a})
    BY <1>1, SumWithout
  <1> QED
    BY <1>1, <1>2, SumOfOne

OfResults(f) == f["SALES"] + f["SALES_RETURNS"] + f["OWN_EXPENSE"]
\* The sum over the income and expense accounts, written out.
LEMMA SumOfResults ==
    ASSUME NEW f, \A a \in Results : f[a] \in Int
    PROVE  SumFunctionOnSet(f, Results) = OfResults(f)
  <1>1. IsFiniteSet(Results) /\ "OWN_EXPENSE" \in Results
        /\ Results \ {"OWN_EXPENSE"} = {"SALES", "SALES_RETURNS"}
    BY ChartIs, AccountsFinite
  <1>2. SumFunctionOnSet(f, Results) = f["OWN_EXPENSE"] + SumFunctionOnSet(f, Results \ {"OWN_EXPENSE"})
    BY <1>1, SumWithout
  <1>3. f["SALES"] \in Int /\ f["SALES_RETURNS"] \in Int /\ f["OWN_EXPENSE"] \in Int
    BY ChartIs
  <1>4. SumFunctionOnSet(f, {"SALES", "SALES_RETURNS"}) = f["SALES"] + f["SALES_RETURNS"]
    BY <1>3, SumOfTwo
  <1>5. SumFunctionOnSet(f, Results) = f["OWN_EXPENSE"] + (f["SALES"] + f["SALES_RETURNS"])
    BY <1>1, <1>2, <1>4
  <1> QED
    BY <1>3, <1>5 DEF OfResults

\* The sum over the chart, written out.
LEMMA SumOfAccounts ==
    ASSUME NEW f, \A a \in Accounts : f[a] \in Int
    PROVE  SumFunctionOnSet(f, Accounts)
             = f["CASH"] + f["DEPRECIATED"] + f["LOAN"] + f["DRAWINGS"] + f["RETAINED"] + OfResults(f)
  <1> DEFINE Sum(S) == SumFunctionOnSet(f, S)
             A1 == Accounts \ {"CASH"}
             A2 == A1 \ {"DEPRECIATED"}
             A3 == A2 \ {"LOAN"}
             A4 == A3 \ {"DRAWINGS"}
  <1>1. /\ "CASH" \in Accounts /\ "DEPRECIATED" \in A1 /\ "LOAN" \in A2 /\ "DRAWINGS" \in A3
        /\ "RETAINED" \in A4 /\ A4 \ {"RETAINED"} = Results
    BY ChartIs
  <1>2. \A S \in SUBSET Accounts : IsFiniteSet(S) /\ \A a \in S : f[a] \in Int
    BY AccountsFinite
  <1>3. \A S \in SUBSET Accounts : \A a \in S : Sum(S) = f[a] + Sum(S \ {a})
    BY <1>2, SumWithout
  <1>4. /\ A1 \in SUBSET Accounts /\ A2 \in SUBSET Accounts /\ A3 \in SUBSET Accounts
        /\ A4 \in SUBSET Accounts /\ Accounts \in SUBSET Accounts /\ Results \in SUBSET Accounts
    BY <1>1
  <1>5. Sum(Results) = OfResults(f)
    BY <1>2, <1>4, SumOfResults
  <1>6. Sum(Results) \in Int
    BY <1>2, <1>4, SumInt
  <1>7. /\ f["CASH"] \in Int /\ f["DEPRECIATED"] \in Int /\ f["LOAN"] \in Int
        /\ f["DRAWINGS"] \in Int /\ f["RETAINED"] \in Int
    BY <1>1
  <1>8. /\ Sum(Accounts) = f["CASH"] + Sum(A1)
        /\ Sum(A1) = f["DEPRECIATED"] + Sum(A2)
        /\ Sum(A2) = f["LOAN"] + Sum(A3)
        /\ Sum(A3) = f["DRAWINGS"] + Sum(A4)
        /\ Sum(A4) = f["RETAINED"] + Sum(Results)
    <2> HIDE DEF Sum
    <2> QED
      BY <1>1, <1>3, <1>4
  <1>9. Sum(Accounts) = f["CASH"] + f["DEPRECIATED"] + f["LOAN"] + f["DRAWINGS"] + f["RETAINED"]
                          + OfResults(f)
    <2> HIDE DEF Sum, A1, A2, A3, A4
    <2> QED
      BY <1>5, <1>6, <1>7, <1>8
  <1> QED
    BY <1>9

\* Entries that balance leave nothing over all the accounts.
Balanced == \A i \in Entries : SumFunctionOnSet(book[i].lines, Accounts) = 0

\* Entries that balance leave the accounts' nets adding up to nil.
LEMMA NetsCancel ==
    ASSUME IsBook, Balanced, NEW E \in SUBSET Entries
    PROVE  Net("CASH", E) + Net("DEPRECIATED", E) + Net("LOAN", E) + Net("DRAWINGS", E)
             + Net("RETAINED", E)
             + (Net("SALES", E) + Net("SALES_RETURNS", E) + Net("OWN_EXPENSE", E)) = 0
  <1> DEFINE f == [i \in E |-> book[i].lines]
             rows == [i \in E |-> SumFunctionOnSet(f[i], Accounts)]
             nets == [a \in Accounts |-> Net(a, E)]
             turned == [a \in Accounts |-> [i \in E |-> f[i][a]]]
             moved(a) == [i \in Entries |-> book[i].lines[a]]
  <1>1. IsFiniteSet(E) /\ IsFiniteSet(Accounts) /\ \A i \in E : \A a \in Accounts : f[i][a] \in Int
    BY EntriesAre, AccountsFinite
  <1>2. SumFunctionOnSet(rows, E) = 0
    <2>1. \A i \in E : rows[i] = 0
      BY DEF Balanced
    <2> HIDE DEF rows
    <2> QED
      BY <1>1, <2>1, SumOfNils
  <1>3. \A i \in E : rows[i] = SumFunctionOnSet(f[i], Accounts)
    OBVIOUS
  <1>4. ASSUME NEW a \in Accounts PROVE nets[a] = SumFunctionOnSet(turned[a], E)
    <2>1. \A i \in E : moved(a)[i] = turned[a][i]
      OBVIOUS
    <2>2. nets[a] = SumFunctionOnSet(moved(a), E)
      BY DEF Net
    <2>3. SumFunctionOnSet(moved(a), E) = SumFunctionOnSet(turned[a], E)
      <3> HIDE DEF moved, turned
      <3> QED
        BY <1>1, <2>1, SumSame
    <2> QED
      BY <2>2, <2>3
  <1>5. \A a \in Accounts : nets[a] \in Int
    BY NetIs
  <1>6. /\ nets["CASH"] = Net("CASH", E) /\ nets["DEPRECIATED"] = Net("DEPRECIATED", E)
        /\ nets["LOAN"] = Net("LOAN", E) /\ nets["DRAWINGS"] = Net("DRAWINGS", E)
        /\ nets["RETAINED"] = Net("RETAINED", E) /\ nets["SALES"] = Net("SALES", E)
        /\ nets["SALES_RETURNS"] = Net("SALES_RETURNS", E) /\ nets["OWN_EXPENSE"] = Net("OWN_EXPENSE", E)
    BY ChartIs
  <1>6a. \A i \in E : \A a \in Accounts : turned[a][i] = f[i][a]
    OBVIOUS
  <1> HIDE DEF f, rows, nets, turned
  <1>7. SumFunctionOnSet(rows, E) = SumFunctionOnSet(nets, Accounts)
    BY <1>1, <1>3, <1>4, <1>6a, SumSwapped
  <1>8. SumFunctionOnSet(nets, Accounts)
          = nets["CASH"] + nets["DEPRECIATED"] + nets["LOAN"] + nets["DRAWINGS"] + nets["RETAINED"]
              + OfResults(nets)
    BY <1>5, SumOfAccounts
  <1> QED
    BY <1>2, <1>6, <1>7, <1>8 DEF OfResults

\* The totals the statements are made of, account by account.
LEMMA TotalsAt ==
    ASSUME IsBook, NEW day, NEW branch
    PROVE  LET E == Through(day, branch)
           IN  /\ TotalAt(InSection("BALANCE_SHEET", "ASSET"), day, branch)
                    = Net("CASH", E) + Net("DEPRECIATED", E)
               /\ TotalAt(InSection("BALANCE_SHEET", "LIABILITY"), day, branch) = - Net("LOAN", E)
               /\ TotalAt(InSection("BALANCE_SHEET", "EQUITY"), day, branch)
                    = - Net("DRAWINGS", E) - Net("RETAINED", E)
               /\ TotalAt(Typed("INCOME"), day, branch) = - Net("SALES", E) - Net("SALES_RETURNS", E)
               /\ TotalAt(Typed("EXPENSE"), day, branch) = Net("OWN_EXPENSE", E)
  <1> DEFINE E == Through(day, branch)
             P(A) == [a \in A |-> PositionOf(a, day, branch)]
  <1>1. ASSUME NEW A \in SUBSET Accounts, NEW a \in A
        PROVE  P(A)[a] = Natural(a, Net(a, E)) /\ Net(a, E) \in Int
    <2>1. PositionOf(a, day, branch) = Natural(a, Net(a, E))
      BY PositionIs
    <2> QED
      BY <2>1, NetIs, ReadIn DEF Through
  <1>2. ASSUME NEW A \in SUBSET Accounts
        PROVE  /\ \A a \in A \cap {"CASH", "DEPRECIATED", "OWN_EXPENSE"} :
                     P(A)[a] = Net(a, E) /\ P(A)[a] \in Int
               /\ \A a \in A \cap {"LOAN", "DRAWINGS", "RETAINED", "SALES", "SALES_RETURNS"} :
                     P(A)[a] = - Net(a, E) /\ P(A)[a] \in Int /\ Net(a, E) \in Int
               /\ TotalAt(A, day, branch) = SumFunctionOnSet(P(A), A)
    <2> HIDE DEF P, E
    <2>1. /\ \A a \in A \cap {"CASH", "DEPRECIATED", "OWN_EXPENSE"} :
                     P(A)[a] = Net(a, E) /\ P(A)[a] \in Int
          /\ \A a \in A \cap {"LOAN", "DRAWINGS", "RETAINED", "SALES", "SALES_RETURNS"} :
                     P(A)[a] = - Net(a, E) /\ P(A)[a] \in Int /\ Net(a, E) \in Int
      BY <1>1, NaturalByAccount
    <2> QED
      BY <2>1 DEF TotalAt, P
  <1> HIDE DEF P, E
  <1>3. TotalAt({"CASH", "DEPRECIATED"}, day, branch) = Net("CASH", E) + Net("DEPRECIATED", E)
    <2> DEFINE A == {"CASH", "DEPRECIATED"}
               f == P(A)
    <2>1. A \in SUBSET Accounts
      BY ChartIs
    <2>2. /\ f["CASH"] = Net("CASH", E) /\ f["CASH"] \in Int
          /\ f["DEPRECIATED"] = Net("DEPRECIATED", E) /\ f["DEPRECIATED"] \in Int
          /\ Net("CASH", E) \in Int /\ Net("DEPRECIATED", E) \in Int
          /\ TotalAt(A, day, branch) = SumFunctionOnSet(f, A)
      BY <1>2, <2>1
    <2> HIDE DEF f
    <2>3. SumFunctionOnSet(f, A) = f["CASH"] + f["DEPRECIATED"]
      BY <2>2, SumOfTwo
    <2> QED
      BY <2>2, <2>3
  <1>4. TotalAt({"LOAN"}, day, branch) = - Net("LOAN", E)
    <2>1. {"LOAN"} \in SUBSET Accounts
      BY ChartIs
    <2> QED
      BY <1>2, <2>1, SumOfOne
  <1>5. TotalAt({"DRAWINGS", "RETAINED"}, day, branch) = - Net("DRAWINGS", E) - Net("RETAINED", E)
    <2> DEFINE A == {"DRAWINGS", "RETAINED"}
               f == P(A)
    <2>1. A \in SUBSET Accounts
      BY ChartIs
    <2>2. /\ f["DRAWINGS"] = - Net("DRAWINGS", E) /\ f["DRAWINGS"] \in Int
          /\ f["RETAINED"] = - Net("RETAINED", E) /\ f["RETAINED"] \in Int
          /\ Net("DRAWINGS", E) \in Int /\ Net("RETAINED", E) \in Int
          /\ TotalAt(A, day, branch) = SumFunctionOnSet(f, A)
      BY <1>2, <2>1
    <2> HIDE DEF f
    <2>3. SumFunctionOnSet(f, A) = f["DRAWINGS"] + f["RETAINED"]
      BY <2>2, SumOfTwo
    <2> QED
      BY <2>2, <2>3
  <1>6. TotalAt({"SALES", "SALES_RETURNS"}, day, branch) = - Net("SALES", E) - Net("SALES_RETURNS", E)
    <2> DEFINE A == {"SALES", "SALES_RETURNS"}
               f == P(A)
    <2>1. A \in SUBSET Accounts
      BY ChartIs
    <2>2. /\ f["SALES"] = - Net("SALES", E) /\ f["SALES"] \in Int
          /\ f["SALES_RETURNS"] = - Net("SALES_RETURNS", E) /\ f["SALES_RETURNS"] \in Int
          /\ Net("SALES", E) \in Int /\ Net("SALES_RETURNS", E) \in Int
          /\ TotalAt(A, day, branch) = SumFunctionOnSet(f, A)
      BY <1>2, <2>1
    <2> HIDE DEF f
    <2>3. SumFunctionOnSet(f, A) = f["SALES"] + f["SALES_RETURNS"]
      BY <2>2, SumOfTwo
    <2> QED
      BY <2>2, <2>3
  <1>7. TotalAt({"OWN_EXPENSE"}, day, branch) = Net("OWN_EXPENSE", E)
    <2>1. {"OWN_EXPENSE"} \in SUBSET Accounts
      BY ChartIs
    <2> QED
      BY <1>2, <2>1, SumOfOne
  <1> QED
    BY <1>3, <1>4, <1>5, <1>6, <1>7, ChartIs DEF E

\* The totals of the profit and loss account as nets of the entries it reads.
LEMMA TotalsIn ==
    ASSUME IsBook, NEW w
    PROVE  LET E == EntriesRead(w)
           IN  /\ TotalIn(InSection("TRADING", "INCOME"), w) = - Net("SALES", E) - Net("SALES_RETURNS", E)
               /\ TotalIn(InSection("TRADING", "EXPENSE"), w) = 0
               /\ TotalIn(InSection("PROFIT_AND_LOSS", "INCOME"), w) = 0
               /\ TotalIn(InSection("PROFIT_AND_LOSS", "EXPENSE"), w) = Net("OWN_EXPENSE", E)
               /\ TotalIn({"DRAWINGS"}, w) = - Net("DRAWINGS", E)
  <1> DEFINE E == EntriesRead(w)
             M(A) == [a \in A |-> MovementOf(a, w)]
  <1>1. ASSUME NEW A \in SUBSET Accounts, NEW a \in A
        PROVE  M(A)[a] = Natural(a, Net(a, E)) /\ Net(a, E) \in Int
    <2>1. MovementOf(a, w) = Natural(a, Net(a, E))
      BY MovementIs
    <2> QED
      BY <2>1, NetIs, ReadIn
  <1>2. ASSUME NEW A \in SUBSET Accounts
        PROVE  /\ \A a \in A \cap {"OWN_EXPENSE"} : M(A)[a] = Net(a, E) /\ M(A)[a] \in Int
               /\ \A a \in A \cap {"DRAWINGS", "SALES", "SALES_RETURNS"} :
                     M(A)[a] = - Net(a, E) /\ M(A)[a] \in Int /\ Net(a, E) \in Int
               /\ TotalIn(A, w) = SumFunctionOnSet(M(A), A)
    <2> HIDE DEF M, E
    <2>1. /\ \A a \in A \cap {"OWN_EXPENSE"} : M(A)[a] = Net(a, E) /\ M(A)[a] \in Int
          /\ \A a \in A \cap {"DRAWINGS", "SALES", "SALES_RETURNS"} :
                     M(A)[a] = - Net(a, E) /\ M(A)[a] \in Int /\ Net(a, E) \in Int
      BY <1>1, NaturalByAccount
    <2> QED
      BY <2>1 DEF TotalIn, M
  <1> HIDE DEF M, E
  <1>3. TotalIn({}, w) = 0
    BY <1>2, SumNone
  <1>4. TotalIn({"SALES", "SALES_RETURNS"}, w) = - Net("SALES", E) - Net("SALES_RETURNS", E)
    <2> DEFINE A == {"SALES", "SALES_RETURNS"}
               f == M(A)
    <2>1. A \in SUBSET Accounts
      BY ChartIs
    <2>2. /\ f["SALES"] = - Net("SALES", E) /\ f["SALES"] \in Int
          /\ f["SALES_RETURNS"] = - Net("SALES_RETURNS", E) /\ f["SALES_RETURNS"] \in Int
          /\ Net("SALES", E) \in Int /\ Net("SALES_RETURNS", E) \in Int
          /\ TotalIn(A, w) = SumFunctionOnSet(f, A)
      BY <1>2, <2>1
    <2> HIDE DEF f
    <2>3. SumFunctionOnSet(f, A) = f["SALES"] + f["SALES_RETURNS"]
      BY <2>2, SumOfTwo
    <2> QED
      BY <2>2, <2>3
  <1>5. TotalIn({"OWN_EXPENSE"}, w) = Net("OWN_EXPENSE", E)
    <2>1. {"OWN_EXPENSE"} \in SUBSET Accounts
      BY ChartIs
    <2> QED
      BY <1>2, <2>1, SumOfOne
  <1>6. TotalIn({"DRAWINGS"}, w) = - Net("DRAWINGS", E)
    <2>1. {"DRAWINGS"} \in SUBSET Accounts
      BY ChartIs
    <2> QED
      BY <1>2, <2>1, SumOfOne
  <1> QED
    BY <1>3, <1>4, <1>5, <1>6, ChartIs DEF E

\* Assets are liabilities plus capital, on any day.
LEMMA SheetIs ==
    ASSUME IsBook, Balanced, NEW day, NEW branch
    PROVE  SheetDifference(day, branch) = 0
  <1> DEFINE E == Through(day, branch)
  <1>1. \A a \in Accounts : Net(a, E) \in Int
    BY NetIs, ReadIn DEF Through
  <1>2. Net("CASH", E) + Net("DEPRECIATED", E) + Net("LOAN", E) + Net("DRAWINGS", E)
             + Net("RETAINED", E)
             + (Net("SALES", E) + Net("SALES_RETURNS", E) + Net("OWN_EXPENSE", E)) = 0
    BY NetsCancel, ReadIn DEF Through
  <1>3. SheetDifference(day, branch)
           = TotalAt(InSection("BALANCE_SHEET", "ASSET"), day, branch)
              - (TotalAt(InSection("BALANCE_SHEET", "LIABILITY"), day, branch)
                   + (TotalAt(InSection("BALANCE_SHEET", "EQUITY"), day, branch)
                        + (TotalAt(Typed("INCOME"), day, branch) - TotalAt(Typed("EXPENSE"), day, branch))))
    BY DEF SheetDifference, EquityTotal, EarningsToDate
  <1>4. /\ Net("CASH", E) \in Int /\ Net("DEPRECIATED", E) \in Int /\ Net("LOAN", E) \in Int
        /\ Net("DRAWINGS", E) \in Int /\ Net("RETAINED", E) \in Int /\ Net("SALES", E) \in Int
        /\ Net("SALES_RETURNS", E) \in Int /\ Net("OWN_EXPENSE", E) \in Int
    BY <1>1, ChartIs
  <1>5. /\ TotalAt(InSection("BALANCE_SHEET", "ASSET"), day, branch)
                    = Net("CASH", E) + Net("DEPRECIATED", E)
        /\ TotalAt(InSection("BALANCE_SHEET", "LIABILITY"), day, branch) = - Net("LOAN", E)
        /\ TotalAt(InSection("BALANCE_SHEET", "EQUITY"), day, branch)
                    = - Net("DRAWINGS", E) - Net("RETAINED", E)
        /\ TotalAt(Typed("INCOME"), day, branch) = - Net("SALES", E) - Net("SALES_RETURNS", E)
        /\ TotalAt(Typed("EXPENSE"), day, branch) = Net("OWN_EXPENSE", E)
    BY TotalsAt
  <1> HIDE DEF E
  <1> QED
    BY <1>2, <1>3, <1>4, <1>5

\* A row the trial balance leaves out is nil in every column.
LEMMA RowsAre ==
    ASSUME IsBook, NEW a \in Accounts, NEW w
    PROVE  LET row == AccountBalance(a, w)
           IN  IsInteresting(row, TRUE) \/ \A column \in DOMAIN row : row[column] = 0
  <1> DEFINE row == AccountBalance(a, w)
             db == Debits(a, CarriedIn(w))
             cb == Credits(a, CarriedIn(w))
             d  == Debits(a, EntriesRead(w))
             c  == Credits(a, EntriesRead(w))
             opening == BalanceSide(db, cb)
             closing == BalanceSide(db + d, cb + c)
  <1>1. db \in Int /\ cb \in Int /\ d \in Int /\ c \in Int
    BY NetIs, ReadIn DEF CarriedIn
  <1>2. row = [openingDebit |-> opening.debit, openingCredit |-> opening.credit,
               periodDebit  |-> d,             periodCredit  |-> c,
               closingDebit |-> closing.debit, closingCredit |-> closing.credit]
    BY DEF AccountBalance, CarriedIn
  <1> HIDE DEF row, db, cb, d, c
  <1>3. /\ opening.debit = 0 /\ opening.credit = 0 <=> db = cb
        /\ closing.debit = 0 /\ closing.credit = 0 <=> db + d = cb + c
    BY <1>1, SideIs
  <1> HIDE DEF opening, closing
  <1>4. CASE ~ IsInteresting(row, TRUE)
    <2>1. closing.debit = 0 /\ closing.credit = 0 /\ d = 0 /\ c = 0
      BY <1>2, <1>4 DEF IsInteresting
    <2>2. opening.debit = 0 /\ opening.credit = 0
      BY <1>1, <1>3, <2>1
    <2>3. \A column \in DOMAIN row : row[column] = 0
      BY <1>2, <2>1, <2>2
    <2> QED
      BY <2>3 DEF row
  <1> QED
    BY <1>4 DEF row

\* The trend's points are the lines of the trading account, sorted by bucket;
\* the trading account has the same lines sorted by account.
LEMMA BucketsFinite == IsFiniteSet(Buckets)
  <1> DEFINE bucket == [day \in Days |-> Bucket(day)]
  <1>1. IsFiniteSet(Days)
    BY FS_Interval, YearsAndDays DEF Days
  <1>2. bucket \in Surjection(Days, Buckets)
    BY DEF Surjection, Buckets
  <1> QED
    BY <1>1, <1>2, FS_Surjection

TrendLines(from, to) ==
    {l \in Entries \X {"SALES", "SALES_RETURNS"} :
        book[l[1]].date \in from .. to /\ book[l[1]].kind \in TrendKinds}

\* The trend reads finitely many lines.
LEMMA TrendLinesAre ==
    ASSUME IsBook, NEW from, NEW to
    PROVE  /\ IsFiniteSet(TrendLines(from, to))
           /\ \A l \in TrendLines(from, to) :
                 /\ l[1] \in Entries /\ l[2] \in Accounts /\ l = <<l[1], l[2]>>
                 /\ book[l[1]].lines[l[2]] \in Int
                 /\ Bucket(book[l[1]].date) \in Buckets
  <1>1. IsFiniteSet(Entries) /\ IsFiniteSet({"SALES", "SALES_RETURNS"})
    BY EntriesAre, AccountsFinite, ChartIs
  <1>2. IsFiniteSet(Entries \X {"SALES", "SALES_RETURNS"})
    BY <1>1, FS_Product
  <1>3. IsFiniteSet(TrendLines(from, to))
    BY <1>2, FS_Subset DEF TrendLines
  <1>4. ASSUME NEW l \in TrendLines(from, to)
        PROVE  l[1] \in Entries /\ l[2] \in Accounts /\ l = <<l[1], l[2]>>
    BY ChartIs DEF TrendLines
  <1>5. ASSUME NEW l \in TrendLines(from, to)
        PROVE  book[l[1]].lines[l[2]] \in Int /\ Bucket(book[l[1]].date) \in Buckets
    BY <1>4, EntriesAre DEF Buckets
  <1> QED
    BY <1>3, <1>4, <1>5

\* The points of the trend add up to all the lines it reads, each in one bucket.
LEMMA TrendByBucket ==
    ASSUME IsBook, NEW from, NEW to
    PROVE  SumFunctionOnSet([b \in Buckets |-> TrendRevenue(from, to, b)], Buckets)
             = SumFunctionOnSet([l \in TrendLines(from, to) |-> - book[l[1]].lines[l[2]]],
                                TrendLines(from, to))
  <1> DEFINE L == TrendLines(from, to)
             f == [l \in L |-> - book[l[1]].lines[l[2]]]
             key == [l \in L |-> Bucket(book[l[1]].date)]
             trend == [b \in Buckets |-> TrendRevenue(from, to, b)]
             part(b) == {l \in L : key[l] = b}
             parts == [b \in Buckets |-> part(b)]
             own(b) == [l \in part(b) |-> - book[l[1]].lines[l[2]]]
  <1>1. IsFiniteSet(L) /\ (\A l \in L : f[l] \in Int) /\ (\A l \in L : key[l] \in Buckets)
    BY TrendLinesAre
  <1>2. ASSUME NEW b \in Buckets PROVE trend[b] = SumFunctionOnSet(f, part(b))
    <2>1. part(b) = {l \in Entries \X InSection("TRADING", "INCOME") :
                     /\ book[l[1]].date \in from .. to
                     /\ Bucket(book[l[1]].date) = b
                     /\ book[l[1]].kind \in TrendKinds}
      BY ChartIs DEF TrendLines
    <2>2. trend[b] = SumFunctionOnSet(own(b), part(b))
      BY <2>1 DEF TrendRevenue
    <2>3. \A l \in part(b) : own(b)[l] = f[l]
      OBVIOUS
    <2>4. IsFiniteSet(part(b))
      BY <1>1, FS_Subset
    <2>5. SumFunctionOnSet(own(b), part(b)) = SumFunctionOnSet(f, part(b))
      <3> HIDE DEF own, f, part
      <3> QED
        BY <2>3, <2>4, SumSame
    <2> QED
      BY <2>2, <2>5
  <1>2a. /\ \A b \in Buckets : \A l : l \in parts[b] <=> l \in L /\ key[l] = b
         /\ \A b \in Buckets : trend[b] = SumFunctionOnSet(f, parts[b])
    <2> HIDE DEF trend, f, key, L
    <2> QED
      BY <1>2
  <1> HIDE DEF trend, f, key, L, parts
  <1>3. SumFunctionOnSet(trend, Buckets) = SumFunctionOnSet(f, L)
    BY <1>1, <1>2a, BucketsFinite, SumGrouped
  <1> QED
    BY <1>3 DEF trend, f, L

\* The trading account's revenue adds up the same lines.
LEMMA TrendByAccount ==
    ASSUME IsBook, NEW from, NEW to
    PROVE  TradingRevenue(from, to, Company)
             = SumFunctionOnSet([l \in TrendLines(from, to) |-> - book[l[1]].lines[l[2]]],
                                TrendLines(from, to))
  <1> DEFINE L == TrendLines(from, to)
             A == {"SALES", "SALES_RETURNS"}
             w == Window(from, to, Company, TRUE)
             E == EntriesRead(w)
             f == [l \in L |-> - book[l[1]].lines[l[2]]]
             key == [l \in L |-> l[2]]
             part(a) == {l \in L : key[l] = a}
             parts == [a \in A |-> part(a)]
             groups == [a \in A |-> SumFunctionOnSet(f, part(a))]
             moved(a) == [i \in Entries |-> book[i].lines[a]]
             turned(a) == [i \in Entries |-> - book[i].lines[a]]
             h(a) == [i \in Entries |-> <<i, a>>]
  <1>1. IsFiniteSet(L) /\ (\A l \in L : f[l] \in Int) /\ (\A l \in L : key[l] \in A)
    <2>1. IsFiniteSet(L) /\ \A l \in L : f[l] \in Int
      <3> HIDE DEF L
      <3> QED
        BY TrendLinesAre DEF L
    <2>2. \A l \in L : l[2] \in A
      BY DEF TrendLines
    <2> QED
      BY <2>1, <2>2
  <1>2. IsFiniteSet(A) /\ A \in SUBSET Accounts
    BY AccountsFinite, ChartIs
  <1>3. E = {i \in Entries : book[i].date \in from .. to /\ book[i].kind \in TrendKinds}
    BY DEF EntriesRead, Window, KindsRead, TrendKinds
  <1>4. E \in SUBSET Entries /\ IsFiniteSet(E)
    BY ReadIn, EntriesAre
  <1> HIDE DEF w, E
  <1>5. ASSUME NEW a \in A PROVE groups[a] = - Net(a, E) /\ Net(a, E) \in Int
    <2>1. \A i \in E : /\ h(a)[i] \in part(a) /\ turned(a)[i] \in Int /\ f[h(a)[i]] = turned(a)[i]
                       /\ moved(a)[i] \in Int /\ turned(a)[i] = - moved(a)[i]
      <3>1. ASSUME NEW i \in E PROVE <<i, a>> \in L /\ book[i].lines[a] \in Int
        BY <1>2, <1>3, <1>4, EntriesAre DEF TrendLines
      <3> QED
        BY <1>4, <3>1
    <2>2. \A i, j \in E : h(a)[i] = h(a)[j] => i = j
      BY <1>4
    <2>3. \A l \in part(a) : \E i \in E : h(a)[i] = l
      <3>1. ASSUME NEW l \in part(a) PROVE l[1] \in E /\ l = <<l[1], a>>
        BY <1>3, TrendLinesAre DEF TrendLines
      <3> QED
        BY <1>4, <3>1
    <2>4. IsFiniteSet(part(a))
      BY <1>1, FS_Subset
    <2>5. groups[a] = SumFunctionOnSet(f, part(a)) /\ Net(a, E) = SumFunctionOnSet(moved(a), E)
      BY DEF Net
    <2> HIDE DEF h, turned, moved, part, f, groups
    <2>6. SumFunctionOnSet(turned(a), E) = SumFunctionOnSet(f, part(a))
      BY <1>4, <2>1, <2>2, <2>3, <2>4, SumMatched
    <2>7. SumFunctionOnSet(turned(a), E) = - SumFunctionOnSet(moved(a), E)
      BY <1>4, <2>1, SumNegated
    <2>8. SumFunctionOnSet(moved(a), E) \in Int
      BY <1>4, <2>1, SumInt
    <2> QED
      BY <2>5, <2>6, <2>7, <2>8
  <1>6. /\ \A a \in A : \A l : l \in parts[a] <=> l \in L /\ key[l] = a
        /\ \A a \in A : groups[a] = SumFunctionOnSet(f, parts[a])
    <2> HIDE DEF f, key, L, A
    <2> QED
      OBVIOUS
  <1>7. SumFunctionOnSet(groups, A) = SumFunctionOnSet(f, L)
    <2> HIDE DEF groups, f, key, L, A, parts
    <2> QED
      BY <1>1, <1>2, <1>6, SumGrouped
  <1>8. /\ groups["SALES"] = - Net("SALES", E) /\ Net("SALES", E) \in Int
        /\ groups["SALES_RETURNS"] = - Net("SALES_RETURNS", E) /\ Net("SALES_RETURNS", E) \in Int
    BY <1>5
  <1>9. SumFunctionOnSet(groups, A) = groups["SALES"] + groups["SALES_RETURNS"]
    <2>1. "SALES" # "SALES_RETURNS"
      OBVIOUS
    <2>2. groups["SALES"] \in Int /\ groups["SALES_RETURNS"] \in Int
      BY <1>8
    <2> HIDE DEF groups
    <2>3. SumFunctionOnSet(groups, {"SALES", "SALES_RETURNS"}) = groups["SALES"] + groups["SALES_RETURNS"]
      BY <2>1, <2>2, SumOfTwo
    <2> QED
      BY <2>3
  <1>10. TradingRevenue(from, to, Company) = - Net("SALES", E) - Net("SALES_RETURNS", E)
    BY TotalsIn DEF TradingRevenue, w, E
  <1>11. TradingRevenue(from, to, Company) = SumFunctionOnSet(f, L)
    <2> HIDE DEF groups, f, L, A
    <2> QED
      BY <1>7, <1>8, <1>9, <1>10
  <1> QED
    BY <1>11

---------------------------------------------------------------------------
(* What is written keeps the books in order. *)

WellBooked ==
    /\ IsBook /\ Balanced
    /\ \A i \in Entries : book[i].reverses < i
    /\ closed \in [Years -> BOOLEAN]
    /\ isActive \in [Accounts -> BOOLEAN]
\* A closing entry moves results into retained earnings and nothing else.
ClosingKept ==
    \A i \in Entries : book[i].kind = "CLOSING_ENTRY" =>
        \A a \in Accounts \ (Results \union {"RETAINED"}) : book[i].lines[a] = 0
ClosedInOrder == \A y, z \in Years : closed[y] /\ z < y => closed[z]
\* At a closed year's end the income and expense accounts stand at nil.
Swept == \A y \in Years : closed[y] =>
             \A a \in Results : Net(a, Through(YearEnd(y), Company)) = 0

BooksInOrder == WellBooked /\ ClosingKept /\ ClosedInOrder /\ Swept

\* A balanced entry appended to the book leaves the book well formed.
LEMMA EntryPosted ==
    ASSUME WellBooked, NEW entry \in EntryRow, entry.reverses \in 0 .. Len(book),
           SumFunctionOnSet(entry.lines, Accounts) = 0, book' = Append(book, entry),
           closed' \in [Years -> BOOLEAN], isActive' \in [Accounts -> BOOLEAN]
    PROVE  /\ WellBooked'
           /\ Entries' = Entries \union {Len(book) + 1} /\ Len(book) + 1 \notin Entries
           /\ \A i \in Entries : book'[i] = book[i]
           /\ book'[Len(book) + 1] = entry
  <1>1. Entries = 1 .. Len(book) /\ Len(book) \in Nat /\ book \in Seq(EntryRow)
    BY EntriesAre DEF WellBooked, IsBook
  <1>2. /\ book' \in Seq(EntryRow) /\ Len(book') = Len(book) + 1
        /\ \A i \in 1 .. Len(book) : book'[i] = book[i]
        /\ book'[Len(book) + 1] = entry
    BY <1>1
  <1>3. Entries' = 1 .. Len(book) + 1
    BY <1>1, <1>2 DEF Entries
  <1>4. /\ Entries' = Entries \union {Len(book) + 1} /\ Len(book) + 1 \notin Entries
        /\ \A i \in Entries : book'[i] = book[i]
    BY <1>1, <1>2, <1>3
  <1>5. IsBook'
    BY <1>2 DEF IsBook
  <1>6. Balanced'
    <2>1. ASSUME NEW i \in Entries' PROVE SumFunctionOnSet(book'[i].lines, Accounts) = 0
      <3>1. CASE i \in Entries
        BY <1>4, <3>1 DEF WellBooked, Balanced
      <3>2. CASE i = Len(book) + 1
        BY <1>2, <3>2
      <3> QED
        BY <1>4, <3>1, <3>2
    <2> QED
      BY <2>1 DEF Balanced
  <1>7. \A i \in Entries' : book'[i].reverses < i
    <2>1. ASSUME NEW i \in Entries' PROVE book'[i].reverses < i
      <3>1. CASE i \in Entries
        BY <1>4, <3>1 DEF WellBooked
      <3>2. CASE i = Len(book) + 1
        BY <1>1, <1>2, <3>2
      <3> QED
        BY <1>4, <3>1, <3>2
    <2> QED
      BY <2>1
  <1> QED
    BY <1>2, <1>4, <1>5, <1>6, <1>7 DEF WellBooked

\* The whole business's entries up to a day are all that are dated so.
LEMMA ThroughIs ==
    ASSUME IsBook, NEW day \in Nat
    PROVE  Through(day, Company) = {i \in Entries : book[i].date <= day}
  <1>1. \A i \in Entries : /\ book[i].date \in 1 .. day <=> book[i].date <= day
                           /\ book[i].kind \in {"MANUAL", "CLOSING_ENTRY"}
    <2>1. ASSUME NEW i \in Entries
          PROVE  book[i].date \in Nat /\ 1 <= book[i].date /\ book[i].kind \in {"MANUAL", "CLOSING_ENTRY"}
      BY EntriesAre, YearsAndDays DEF Days, EntryRow
    <2> QED
      BY <2>1
  <1> QED
    BY <1>1 DEF Through, EntriesRead, Window, KindsRead

\* What an account stands at after an entry is posted: moved by it from its date on.
LEMMA NetPosted ==
    ASSUME WellBooked, WellBooked', NEW entry \in EntryRow,
           Entries' = Entries \union {Len(book) + 1}, Len(book) + 1 \notin Entries,
           \A i \in Entries : book'[i] = book[i], book'[Len(book) + 1] = entry,
           NEW a \in Accounts, NEW day \in Days
    PROVE  /\ Net(a, Through(day, Company)) \in Int
           /\ Net(a, Through(day, Company))'
                = Net(a, Through(day, Company)) + (IF entry.date <= day THEN entry.lines[a] ELSE 0)
  <1> DEFINE n == Len(book) + 1
             E == Through(day, Company)
             F == Through(day, Company)'
             moved == [i \in Entries |-> book[i].lines[a]]
             next == [i \in Entries' |-> book'[i].lines[a]]
  <1>1. day \in Nat
    BY YearsAndDays DEF Days
  <1>2. E = {i \in Entries : book[i].date <= day} /\ IsFiniteSet(E) /\ E \in SUBSET Entries
    <2>1. E = {i \in Entries : book[i].date <= day}
      BY <1>1, ThroughIs DEF WellBooked
    <2> QED
      BY <2>1, EntriesAre DEF WellBooked
  <1>3. F = {i \in Entries' : book'[i].date <= day}
    <2>1. ASSUME NEW i \in Entries'
          PROVE  /\ book'[i].date \in Nat /\ 1 <= book'[i].date
                 /\ book'[i].kind \in {"MANUAL", "CLOSING_ENTRY"}
      <3>1. book'[i] \in EntryRow
        BY DEF WellBooked, IsBook, Entries
      <3>2. book'[i].date \in Days /\ book'[i].kind \in {"MANUAL", "CLOSING_ENTRY"}
        BY <3>1 DEF EntryRow
      <3> QED
        BY <3>2, YearsAndDays DEF Days
    <2> QED
      BY <1>1, <2>1 DEF Through, EntriesRead, Window, KindsRead
  <1>4. F = IF entry.date <= day THEN E \union {n} ELSE E
    BY <1>2, <1>3
  <1>5. /\ Net(a, Through(day, Company)) = SumFunctionOnSet(moved, E)
        /\ Net(a, Through(day, Company))' = SumFunctionOnSet(next, F)
    BY DEF Net
  <1>6. /\ \A i \in E : moved[i] \in Int /\ next[i] = moved[i]
        /\ next[n] = entry.lines[a] /\ next[n] \in Int /\ n \notin E
    BY <1>2, EntriesAre DEF WellBooked, EntryRow
  <1> HIDE DEF n, E, F, moved, next
  <1>7. SumFunctionOnSet(moved, E) \in Int
    BY <1>2, <1>6, SumInt
  <1>8. CASE entry.date <= day
    <2>1. SumFunctionOnSet(next, E \union {n}) = SumFunctionOnSet(moved, E) + next[n]
      <3>1. IsFiniteSet(E) /\ n \notin E /\ next[n] \in Int
        BY <1>2, <1>6
      <3>2. \A i \in E : moved[i] \in Int /\ next[i] = moved[i]
        BY <1>6
      <3> QED
        BY ONLY <3>1, <3>2, SumGrows
    <2>2. F = E \union {n}
      BY <1>4, <1>8
    <2>3. Net(a, Through(day, Company))' = Net(a, Through(day, Company)) + entry.lines[a]
      BY <1>5, <1>6, <2>1, <2>2
    <2> QED
      BY <1>5, <1>7, <1>8, <2>3
  <1>9. CASE ~ (entry.date <= day)
    <2>1. SumFunctionOnSet(next, E) = SumFunctionOnSet(moved, E)
      BY <1>2, <1>6, SumSame
    <2>2. F = E
      BY <1>4, <1>9
    <2> QED
      BY <1>5, <1>7, <1>9, <2>1, <2>2
  <1> QED
    BY <1>8, <1>9

\* An entry dated after every closed year leaves what they swept.
LEMMA PostedInOpen ==
    ASSUME BooksInOrder, WellBooked', NEW entry \in EntryRow,
           Entries' = Entries \union {Len(book) + 1}, Len(book) + 1 \notin Entries,
           \A i \in Entries : book'[i] = book[i], book'[Len(book) + 1] = entry,
           NEW y \in Years, closed[y], ~ (entry.date <= YearEnd(y)), NEW a \in Results
    PROVE  Net(a, Through(YearEnd(y), Company))' = 0
  <1>1. YearEnd(y) \in Days /\ a \in Accounts
    BY YearsAndDays, ChartIs
  <1>2. Net(a, Through(YearEnd(y), Company)) = 0
    BY DEF BooksInOrder, Swept
  <1>3. Net(a, Through(YearEnd(y), Company))'
          = Net(a, Through(YearEnd(y), Company))
              + (IF entry.date <= YearEnd(y) THEN entry.lines[a] ELSE 0)
    BY <1>1, NetPosted DEF BooksInOrder
  <1> QED
    BY <1>2, <1>3

\* A closing entry posted like this keeps to the results and retained earnings.
LEMMA ClosingKeptPosted ==
    ASSUME ClosingKept, NEW entry,
           Entries' = Entries \union {Len(book) + 1},
           \A i \in Entries : book'[i] = book[i], book'[Len(book) + 1] = entry,
           entry.kind = "CLOSING_ENTRY" =>
               \A a \in Accounts \ (Results \union {"RETAINED"}) : entry.lines[a] = 0
    PROVE  ClosingKept'
  <1>1. ASSUME NEW i \in Entries', book'[i].kind = "CLOSING_ENTRY",
               NEW a \in Accounts \ (Results \union {"RETAINED"})
        PROVE  book'[i].lines[a] = 0
    <2>1. CASE i \in Entries
      BY <1>1, <2>1 DEF ClosingKept
    <2>2. CASE i = Len(book) + 1
      BY <1>1, <2>2
    <2> QED
      BY <2>1, <2>2
  <1> QED
    BY <1>1 DEF ClosingKept

\* Turning a sign is taking the figure from nil.
LEMMA MinusIs == \A x \in Int : - x = 0 - x
  OBVIOUS
\* Nil has no sign.
LEMMA NilTurned == ASSUME NEW x \in Int, x = 0 PROVE - x = 0
  <1>1. - x = 0 - x
    BY MinusIs
  <1>2. 0 - x = 0
    OBVIOUS
  <1> QED
    BY ONLY <1>1, <1>2

\* What is nil with its sign turned is nil.
LEMMA TurnedNil == ASSUME NEW x \in Int, - x = 0 PROVE x = 0
  OBVIOUS

\* The two lines of a voucher cancel (createManualEntry).
LEMMA VoucherBalances ==
    ASSUME NEW v \in Vouchers
    PROVE  LET figures == [a \in Accounts |-> CASE a = v.debit  -> v.amount
                                                 [] a = v.credit -> - v.amount
                                                 [] OTHER        -> 0]
           IN  figures \in [Accounts -> Int] /\ SumFunctionOnSet(figures, Accounts) = 0
  <1> DEFINE figures == [a \in Accounts |-> CASE a = v.debit  -> v.amount
                                               [] a = v.credit -> - v.amount
                                               [] OTHER        -> 0]
             d == v.debit
             c == v.credit
             others == (Accounts \ {d}) \ {c}
  <1>1. d \in Accounts /\ c \in Accounts /\ c # d /\ v.amount \in Int
    BY VouchersAssumption
  <1>2. /\ figures \in [Accounts -> Int]
        /\ figures[d] = v.amount /\ figures[c] = - v.amount
        /\ \A a \in others : figures[a] = 0
    BY <1>1
  <1>3. IsFiniteSet(Accounts) /\ IsFiniteSet(Accounts \ {d}) /\ IsFiniteSet(others)
    BY AccountsFinite
  <1> HIDE DEF figures
  <1>4. SumFunctionOnSet(figures, Accounts) = figures[d] + SumFunctionOnSet(figures, Accounts \ {d})
    BY <1>1, <1>2, <1>3, SumWithout
  <1>5. SumFunctionOnSet(figures, Accounts \ {d}) = figures[c] + SumFunctionOnSet(figures, others)
    BY <1>1, <1>2, <1>3, SumWithout
  <1>6. SumFunctionOnSet(figures, others) = 0
    BY <1>2, <1>3, SumOfNils
  <1>7. SumFunctionOnSet(figures, Accounts) = 0
    BY <1>1, <1>2, <1>4, <1>5, <1>6
  <1> QED
    BY <1>2, <1>7 DEF figures

\* A manual entry, which only an open year accepts, keeps the books in order.
LEMMA CreateKeeps ==
    ASSUME BooksInOrder, NEW v \in Vouchers, NEW day \in EntryDays, NEW branch \in Branches,
           CreateManualEntry(v, day, branch)
    PROVE  BooksInOrder'
  <1> DEFINE figures == [a \in Accounts |-> CASE a = v.debit  -> v.amount
                                               [] a = v.credit -> - v.amount
                                               [] OTHER        -> 0]
             entry == Posted(day, "MANUAL", branch, ReversesNone, figures)
  <1>1. book' = Append(book, entry) /\ closed' = closed /\ isActive' = isActive /\ ~ closed[YearOf(day)]
    BY DEF CreateManualEntry, Post
  <1>2. day \in Days
    BY CalendarAssumption DEF Days
  <1>3. figures \in [Accounts -> Int] /\ SumFunctionOnSet(figures, Accounts) = 0
    BY VoucherBalances
  <1> HIDE DEF figures
  <1>4. /\ entry \in EntryRow /\ entry.kind = "MANUAL" /\ entry.date = day
        /\ entry.lines = figures /\ entry.reverses = 0
    BY <1>2, <1>3 DEF Posted, EntryRow, Reports, ReversesNone
  <1>5. Len(book) \in Nat /\ WellBooked /\ ClosingKept
        /\ closed' \in [Years -> BOOLEAN] /\ isActive' \in [Accounts -> BOOLEAN]
    BY <1>1, EntriesAre DEF BooksInOrder, WellBooked
  <1> HIDE DEF entry
  <1>6. /\ WellBooked'
        /\ Entries' = Entries \union {Len(book) + 1} /\ Len(book) + 1 \notin Entries
        /\ \A i \in Entries : book'[i] = book[i]
        /\ book'[Len(book) + 1] = entry
    <2>1. entry.reverses \in 0 .. Len(book) /\ SumFunctionOnSet(entry.lines, Accounts) = 0
      BY <1>3, <1>4, <1>5
    <2> QED
      BY <1>1, <1>4, <1>5, <2>1, EntryPosted
  <1>7. ClosingKept'
    BY <1>4, <1>5, <1>6, ClosingKeptPosted
  <1>8. ClosedInOrder'
    BY <1>1 DEF BooksInOrder, ClosedInOrder
  <1>9. ASSUME NEW y \in Years, closed'[y], NEW a \in Results
        PROVE  Net(a, Through(YearEnd(y), Company))' = 0
    <2>1. closed[y]
      BY <1>1, <1>9
    <2>2. ~ (entry.date <= YearEnd(y))
      <3>1. ASSUME day <= YearEnd(y) PROVE FALSE
        <4>1. YearOf(day) \in Years /\ YearOf(day) <= y /\ y \in Nat
          BY <1>2, <3>1, YearsAndDays DEF Years
        <4>2. closed[YearOf(day)]
          <5>1. CASE YearOf(day) = y
            BY <2>1, <5>1
          <5>2. CASE YearOf(day) < y
            BY <2>1, <4>1, <5>2 DEF BooksInOrder, ClosedInOrder
          <5> QED
            BY <4>1, <5>1, <5>2 DEF Years
        <4> QED
          BY <1>1, <4>2
      <3> QED
        BY <1>4, <3>1
    <2> QED
      BY <1>4, <1>6, <2>1, <2>2, PostedInOpen
  <1> QED
    BY <1>6, <1>7, <1>8, <1>9 DEF BooksInOrder, Swept

\* The mirror of an entry balances as the entry does.
LEMMA MirrorIs ==
    ASSUME WellBooked, NEW i \in Entries
    PROVE  LET mirror == [book[i] EXCEPT !.reverses = i, !.lines = Mirrored(book[i].lines)]
           IN  /\ mirror \in EntryRow /\ mirror.reverses \in 0 .. Len(book)
               /\ mirror.kind = book[i].kind /\ mirror.date = book[i].date
               /\ mirror.lines = Mirrored(book[i].lines)
               /\ \A a \in Accounts : /\ book[i].lines[a] \in Int
                                      /\ mirror.lines[a] = - book[i].lines[a]
               /\ SumFunctionOnSet(mirror.lines, Accounts) = 0
  <1> DEFINE entry == book[i]
             figures == book[i].lines
             turned == Mirrored(figures)
             mirror == [entry EXCEPT !.reverses = i, !.lines = turned]
  <1>1. /\ entry \in EntryRow /\ figures \in [Accounts -> Int] /\ i \in Nat /\ i \in 0 .. Len(book)
        /\ SumFunctionOnSet(figures, Accounts) = 0
    BY EntriesAre DEF WellBooked, EntryRow, Balanced
  <1>2. turned \in [Accounts -> Int] /\ \A a \in Accounts : turned[a] = - figures[a]
    BY <1>1 DEF Mirrored
  <1>3. SumFunctionOnSet(turned, Accounts) = - SumFunctionOnSet(figures, Accounts)
    <2>1. \A a \in Accounts : figures[a] \in Int /\ turned[a] = - figures[a]
      BY <1>1, <1>2
    <2> HIDE DEF figures, turned
    <2> QED
      BY <2>1, AccountsFinite, SumNegated
  <1>4. \A a \in Accounts : figures[a] \in Int
    BY <1>1
  <1>5. /\ mirror \in EntryRow /\ mirror.reverses = i
        /\ mirror.kind = entry.kind /\ mirror.date = entry.date /\ mirror.lines = turned
    <2> HIDE DEF entry, turned
    <2> QED
      BY <1>1, <1>2 DEF EntryRow
  <1>6. SumFunctionOnSet(turned, Accounts) = 0
    <2> HIDE DEF figures, turned
    <2>1. - SumFunctionOnSet(figures, Accounts) = 0
      <3>1. SumFunctionOnSet(figures, Accounts) = 0 /\ SumFunctionOnSet(figures, Accounts) \in Int
        BY <1>1
      <3> QED
        BY ONLY <3>1, NilTurned
    <2> QED
      BY <1>3, <2>1
  <1> HIDE DEF mirror, turned
  <1>7. /\ mirror.reverses \in 0 .. Len(book) /\ SumFunctionOnSet(mirror.lines, Accounts) = 0
        /\ \A a \in Accounts : figures[a] \in Int /\ mirror.lines[a] = - figures[a]
    BY <1>1, <1>2, <1>4, <1>5, <1>6
  <1> QED
    BY <1>5, <1>7 DEF mirror, turned

\* What is posted in a year that is open, or is just being reopened, and after
\* every year that stays closed keeps the books in order.
LEMMA MirrorPosted ==
    ASSUME BooksInOrder, NEW i \in Entries,
           book' = Append(book, [book[i] EXCEPT !.reverses = i, !.lines = Mirrored(book[i].lines)]),
           closed' \in [Years -> BOOLEAN], isActive' \in [Accounts -> BOOLEAN],
           ClosedInOrder',
           \A y \in Years : closed'[y] => closed[y] /\ ~ (book[i].date <= YearEnd(y))
    PROVE  BooksInOrder'
  <1> DEFINE entry == [book[i] EXCEPT !.reverses = i, !.lines = Mirrored(book[i].lines)]
  <1>1. /\ entry \in EntryRow /\ entry.reverses \in 0 .. Len(book)
        /\ entry.kind = book[i].kind /\ entry.date = book[i].date
        /\ \A a \in Accounts : book[i].lines[a] \in Int /\ entry.lines[a] = - book[i].lines[a]
        /\ SumFunctionOnSet(entry.lines, Accounts) = 0
    BY MirrorIs DEF BooksInOrder
  <1>2. book' = Append(book, entry)
    OBVIOUS
  <1>3. WellBooked /\ ClosingKept
    BY DEF BooksInOrder
  <1> HIDE DEF entry
  <1>4. /\ WellBooked'
        /\ Entries' = Entries \union {Len(book) + 1} /\ Len(book) + 1 \notin Entries
        /\ \A j \in Entries : book'[j] = book[j]
        /\ book'[Len(book) + 1] = entry
    BY <1>1, <1>2, <1>3, EntryPosted
  <1>5. ClosingKept'
    <2>1. ASSUME entry.kind = "CLOSING_ENTRY", NEW a \in Accounts \ (Results \union {"RETAINED"})
          PROVE  entry.lines[a] = 0
      <3>1. book[i].lines[a] = 0 /\ entry.lines[a] = - book[i].lines[a]
        BY <1>1, <1>3, <2>1 DEF ClosingKept
      <3>2. - book[i].lines[a] = 0
        BY <1>1, <3>1, NilTurned
      <3> QED
        BY <3>1, <3>2
    <2> QED
      BY <1>3, <1>4, <2>1, ClosingKeptPosted
  <1>6. ASSUME NEW y \in Years, closed'[y], NEW a \in Results
        PROVE  Net(a, Through(YearEnd(y), Company))' = 0
    <2>1. closed[y] /\ ~ (entry.date <= YearEnd(y))
      BY <1>1, <1>6
    <2> QED
      BY <1>1, <1>4, <2>1, PostedInOpen
  <1> QED
    BY <1>4, <1>5, <1>6 DEF BooksInOrder, Swept

\* So does reversing one: the mirror is dated in the same, open year.
LEMMA ReverseKeeps ==
    ASSUME BooksInOrder, NEW i \in Entries, ReverseManualEntry(i)
    PROVE  BooksInOrder'
  <1>1. /\ book' = Append(book, [book[i] EXCEPT !.reverses = i, !.lines = Mirrored(book[i].lines)])
        /\ closed' = closed /\ isActive' = isActive /\ ~ closed[YearOf(book[i].date)]
    BY DEF ReverseManualEntry, Post
  <1>2. closed' \in [Years -> BOOLEAN] /\ isActive' \in [Accounts -> BOOLEAN] /\ ClosedInOrder'
    BY <1>1 DEF BooksInOrder, WellBooked, ClosedInOrder
  <1>3. ASSUME NEW y \in Years, closed'[y] PROVE closed[y] /\ ~ (book[i].date <= YearEnd(y))
    <2> DEFINE day == book[i].date
    <2>1. closed[y] /\ day \in Days
      BY <1>1, <1>3, EntriesAre DEF BooksInOrder, WellBooked
    <2>2. ASSUME day <= YearEnd(y) PROVE FALSE
      <3>1. YearOf(day) \in Years /\ YearOf(day) <= y /\ y \in Nat
        BY <2>1, <2>2, YearsAndDays DEF Years
      <3>2. closed[YearOf(day)]
        <4>1. CASE YearOf(day) = y
          BY <2>1, <4>1
        <4>2. CASE YearOf(day) < y
          BY <2>1, <3>1, <4>2 DEF BooksInOrder, ClosedInOrder
        <4> QED
          BY <3>1, <4>1, <4>2 DEF Years
      <3> QED
        BY <1>1, <3>2
    <2> QED
      BY <2>1, <2>2
  <1> QED
    BY <1>1, <1>2, <1>3, MirrorPosted

\* Closing a year brings every result account to nil, and what that leaves is
\* the figure put to retained earnings.
LEMMA ClosingLinesAre ==
    ASSUME WellBooked, NEW y \in Years
    PROVE  /\ ClosingLines(y) \in [Accounts -> Int]
           /\ \A a \in Results : /\ Net(a, Through(YearEnd(y), Company)) \in Int
                                 /\ ClosingLines(y)[a] = - Net(a, Through(YearEnd(y), Company))
           /\ \A a \in Accounts \ (Results \union {"RETAINED"}) : ClosingLines(y)[a] = 0
           /\ SumFunctionOnSet(ClosingLines(y), Accounts) = 0
  <1> DEFINE E == Through(YearEnd(y), Company)
             figures == ClosingLines(y)
             swept == [a \in ClosedAccounts(y) |-> - NetAtEnd(a, y)]
             result == YearResult(y)
  <1>1. ASSUME NEW a \in Results
        PROVE  NetAtEnd(a, y) = Net(a, E) /\ Net(a, E) \in Int
    <2>1. a \in Accounts
      BY ChartIs
    <2> QED
      BY <2>1, PositionIs, NetIs, ReadIn DEF WellBooked, NetAtEnd, Through
  <1> HIDE DEF E
  <1>2. \A a \in Results : swept[a] = - Net(a, E) /\ swept[a] \in Int
    BY <1>1 DEF ClosedAccounts
  <1>3. result = SumFunctionOnSet(swept, Results)
    BY DEF YearResult, ClosedAccounts
  <1> HIDE DEF swept, result
  <1>4. result = OfResults(swept)
    BY <1>2, <1>3, SumOfResults
  <1>5. result \in Int
    BY <1>2, <1>4, ChartIs DEF OfResults
  <1>6. figures = [a \in Accounts |-> CASE a \in Results   -> - NetAtEnd(a, y)
                                         [] a = "RETAINED"  -> - result
                                         [] OTHER           -> 0]
    BY DEF ClosingLines, ClosedAccounts, BalanceLine, result
  <1> HIDE DEF figures
  <1>7. /\ \A a \in Results : figures[a] = - Net(a, E) /\ figures[a] \in Int /\ figures[a] = swept[a]
        /\ figures["RETAINED"] = - result /\ - result \in Int
        /\ \A a \in Accounts \ (Results \union {"RETAINED"}) : figures[a] = 0
    <2>1. "RETAINED" \in Accounts /\ "RETAINED" \notin Results /\ Results \in SUBSET Accounts
      BY ChartIs
    <2>2. \A a \in Results : figures[a] = - NetAtEnd(a, y)
      BY <1>6, <2>1
    <2>3. \A a \in Results : figures[a] = - Net(a, E) /\ figures[a] \in Int /\ figures[a] = swept[a]
      BY <1>1, <1>2, <2>2
    <2>4. figures["RETAINED"] = - result
      BY <1>6, <2>1
    <2>5. \A a \in Accounts \ (Results \union {"RETAINED"}) : figures[a] = 0
      BY <1>6
    <2> QED
      BY <1>5, <2>3, <2>4, <2>5
  <1>8. figures \in [Accounts -> Int]
    <2>1. DOMAIN figures = Accounts /\ figures = [a \in Accounts |-> figures[a]]
      BY <1>6
    <2>2. \A a \in Accounts : figures[a] \in Int
      BY <1>7
    <2> QED
      BY <2>1, <2>2
  <1>9. SumFunctionOnSet(figures, Accounts) = 0
    <2>1. SumFunctionOnSet(figures, Accounts)
            = figures["CASH"] + figures["DEPRECIATED"] + figures["LOAN"] + figures["DRAWINGS"]
                + figures["RETAINED"] + OfResults(figures)
      BY <1>8, SumOfAccounts
    <2>2. /\ figures["CASH"] = 0 /\ figures["DEPRECIATED"] = 0 /\ figures["LOAN"] = 0
          /\ figures["DRAWINGS"] = 0
      BY <1>7, ChartIs
    <2>3. OfResults(figures) = result
      BY <1>4, <1>7, ChartIs DEF OfResults
    <2> QED
      BY <1>5, <1>7, <2>1, <2>2, <2>3
  <1> QED
    BY <1>1, <1>7, <1>8, <1>9 DEF E, figures

\* Closing a year keeps the books in order: the entry leaves the results at nil, and
\* no earlier year is open to have left anything out.
LEMMA CloseKeeps ==
    ASSUME BooksInOrder, NEW y \in Years, CloseFiscalYear(y)
    PROVE  BooksInOrder'
  <1> DEFINE figures == ClosingLines(y)
             end == YearEnd(y)
             entry == Posted(end, "CLOSING_ENTRY", Company, ReversesNone, figures)
  <1>1. /\ ~ closed[y] /\ EarlierYearsClosed(y)
        /\ IF \A a \in Results : figures[a] = 0 THEN UNCHANGED book ELSE book' = Append(book, entry)
        /\ closed' = [closed EXCEPT ![y] = TRUE] /\ isActive' = isActive
    BY DEF CloseFiscalYear, Post
  <1>2. WellBooked /\ ClosingKept
    BY DEF BooksInOrder
  <1>3. /\ figures \in [Accounts -> Int]
        /\ \A a \in Results : /\ Net(a, Through(YearEnd(y), Company)) \in Int
                              /\ figures[a] = - Net(a, Through(YearEnd(y), Company))
        /\ \A a \in Accounts \ (Results \union {"RETAINED"}) : figures[a] = 0
        /\ SumFunctionOnSet(figures, Accounts) = 0
    BY <1>2, ClosingLinesAre
  <1> HIDE DEF figures
  <1>4. closed' \in [Years -> BOOLEAN] /\ isActive' \in [Accounts -> BOOLEAN]
    BY <1>1, <1>2 DEF WellBooked
  <1>5. /\ closed'[y] /\ \A z \in Years : closed'[z] => z = y \/ (closed[z] /\ z # y)
    BY <1>1, <1>2 DEF WellBooked
  <1>6. ClosedInOrder'
    <2>1. ASSUME NEW x \in Years, NEW z \in Years, closed'[x], z < x PROVE closed'[z]
      <3>1. closed[z]
        BY <1>1, <1>5, <2>1 DEF BooksInOrder, ClosedInOrder, EarlierYearsClosed
      <3> QED
        BY <1>1, <1>2, <3>1 DEF WellBooked
    <2> QED
      BY <2>1 DEF ClosedInOrder
  <1>7. \A z \in Years : closed[z] => z < y
    <2>1. ASSUME NEW z \in Years, closed[z] PROVE z < y
      <3>1. z \in Int /\ y \in Int /\ z # y /\ ~ (y < z)
        BY <1>1, <2>1 DEF BooksInOrder, ClosedInOrder, Years
      <3> QED
        BY <3>1
    <2> QED
      BY <2>1
  <1>8. CASE \A a \in Results : figures[a] = 0
    <2>1. book' = book /\ Entries' = Entries
      BY <1>1, <1>8 DEF Entries
    <2>2. WellBooked' /\ ClosingKept'
      BY <1>2, <1>4, <2>1 DEF WellBooked, ClosingKept, IsBook, Balanced
    <2>3. ASSUME NEW z \in Years, closed'[z], NEW a \in Results
          PROVE  Net(a, Through(YearEnd(z), Company))' = 0
      <3>1. Net(a, Through(YearEnd(z), Company))' = Net(a, Through(YearEnd(z), Company))
        BY <2>1 DEF Net, Through, EntriesRead
      <3>2. CASE closed[z]
        BY <3>1, <3>2 DEF BooksInOrder, Swept
      <3>3. CASE z = y
        <4>1. Net(a, Through(YearEnd(y), Company)) \in Int /\ - Net(a, Through(YearEnd(y), Company)) = 0
          BY <1>3, <1>8
        <4>2. Net(a, Through(YearEnd(y), Company)) = 0
          BY <4>1, TurnedNil
        <4> QED
          BY <3>1, <3>3, <4>2
      <3> QED
        BY <1>5, <2>3, <3>2, <3>3
    <2> QED
      BY <1>6, <2>2, <2>3 DEF BooksInOrder, Swept
  <1>9. CASE ~ \A a \in Results : figures[a] = 0
    <2>1. book' = Append(book, entry)
      BY <1>1, <1>9
    <2>2. end \in Days /\ Len(book) \in Nat
      BY <1>2, YearsAndDays, EntriesAre DEF WellBooked
    <2>3. /\ entry \in EntryRow /\ entry.kind = "CLOSING_ENTRY" /\ entry.date = end
          /\ entry.lines = figures /\ entry.reverses = 0
      BY <1>3, <2>2 DEF Posted, EntryRow, Reports, ReversesNone
    <2> HIDE DEF entry
    <2>4. /\ WellBooked'
          /\ Entries' = Entries \union {Len(book) + 1} /\ Len(book) + 1 \notin Entries
          /\ \A i \in Entries : book'[i] = book[i]
          /\ book'[Len(book) + 1] = entry
      <3>1. entry.reverses \in 0 .. Len(book) /\ SumFunctionOnSet(entry.lines, Accounts) = 0
        BY <1>3, <2>2, <2>3
      <3> QED
        BY <1>2, <1>4, <2>1, <2>3, <3>1, EntryPosted
    <2>5. ClosingKept'
      BY <1>2, <1>3, <2>3, <2>4, ClosingKeptPosted
    <2>6. ASSUME NEW z \in Years, closed'[z], NEW a \in Results
          PROVE  Net(a, Through(YearEnd(z), Company))' = 0
      <3>1. CASE closed[z]
        <4>1. ~ (end <= YearEnd(z))
          <5>1. z < y /\ z \in Nat /\ y \in Nat
            BY <1>7, <3>1, YearsAndDays DEF Years
          <5> QED
            BY <5>1, LaterYearEnd
        <4> QED
          BY <2>3, <2>4, <3>1, <4>1, PostedInOpen
      <3>2. CASE z = y
        <4>1. a \in Accounts
          BY ChartIs
        <4>2. Net(a, Through(end, Company))'
                = Net(a, Through(end, Company)) + (IF entry.date <= end THEN entry.lines[a] ELSE 0)
          BY <1>2, <2>2, <2>3, <2>4, <4>1, NetPosted
        <4>3. entry.date <= end
          BY <2>2, <2>3 DEF Days
        <4> DEFINE net == Net(a, Through(end, Company))
        <4>4. Net(a, Through(end, Company))' = net + entry.lines[a] /\ net \in Int
              /\ entry.lines[a] = - net
          BY <1>3, <2>3, <4>2, <4>3
        <4> HIDE DEF net
        <4>5. net + - net = 0
          BY <4>4
        <4> QED
          BY <3>2, <4>4, <4>5
      <3> QED
        BY <1>5, <2>6, <3>1, <3>2
    <2> QED
      BY <1>6, <2>4, <2>5, <2>6 DEF BooksInOrder, Swept
  <1> QED
    BY <1>8, <1>9

\* Reopening the last closed year keeps them: years closed before it end earlier and
\* are not moved.
LEMMA ReopenKeeps ==
    ASSUME BooksInOrder, NEW y \in Years, ReopenFiscalYear(y)
    PROVE  BooksInOrder'
  <1>1. /\ closed[y] /\ NoLaterYearClosed(y)
        /\ closed' = [closed EXCEPT ![y] = FALSE] /\ isActive' = isActive
    BY DEF ReopenFiscalYear
  <1>2. closed' \in [Years -> BOOLEAN] /\ isActive' \in [Accounts -> BOOLEAN]
    BY <1>1 DEF BooksInOrder, WellBooked
  <1>3. ASSUME NEW z \in Years, closed'[z] PROVE closed[z] /\ z < y
    <2>1. closed[z] /\ z # y
      BY <1>1, <1>2, <1>3 DEF BooksInOrder, WellBooked
    <2>2. ~ (z > y) /\ z \in Int /\ y \in Int
      BY <1>1, <2>1 DEF NoLaterYearClosed, Years
    <2> QED
      BY <2>1, <2>2
  <1>4. ClosedInOrder'
    <2>1. ASSUME NEW x \in Years, NEW z \in Years, closed'[x], z < x PROVE closed'[z]
      <3>1. closed[x] /\ x < y /\ closed[z] /\ z \in Int /\ x \in Int /\ y \in Int
        BY <1>3, <2>1 DEF BooksInOrder, ClosedInOrder, Years
      <3>2. z # y
        BY <2>1, <3>1
      <3> QED
        BY <1>1, <3>1, <3>2 DEF BooksInOrder, WellBooked
    <2> QED
      BY <2>1 DEF ClosedInOrder
  <1>5. CASE UNCHANGED book
    <2>1. book' = book /\ Entries' = Entries
      BY <1>5 DEF Entries
    <2>2. WellBooked' /\ ClosingKept'
      BY <1>2, <2>1 DEF BooksInOrder, WellBooked, ClosingKept, IsBook, Balanced
    <2>3. ASSUME NEW z \in Years, closed'[z], NEW a \in Results
          PROVE  Net(a, Through(YearEnd(z), Company))' = 0
      <3>1. Net(a, Through(YearEnd(z), Company))' = Net(a, Through(YearEnd(z), Company))
        BY <2>1 DEF Net, Through, EntriesRead
      <3> QED
        BY <1>3, <2>3, <3>1 DEF BooksInOrder, Swept
    <2> QED
      BY <1>4, <2>2, <2>3 DEF BooksInOrder, Swept
  <1>6. ASSUME NEW i \in ClosingEntries(y),
               book' = Append(book, [book[i] EXCEPT !.reverses = i, !.lines = Mirrored(book[i].lines)])
        PROVE  BooksInOrder'
    <2>1. i \in Entries /\ YearOf(book[i].date) = y /\ book[i].date \in Days
      BY EntriesAre DEF ClosingEntries, BooksInOrder, WellBooked
    <2>2. ASSUME NEW z \in Years, closed'[z] PROVE closed[z] /\ ~ (book[i].date <= YearEnd(z))
      <3>1. closed[z] /\ z < y /\ z \in Int /\ y \in Int
        BY <1>3, <2>2 DEF Years
      <3>2. book[i].date <= YearEnd(z) => y <= z
        BY <2>1, YearsAndDays
      <3> QED
        BY <3>1, <3>2
    <2> QED
      BY <1>2, <1>4, <1>6, <2>1, <2>2, MirrorPosted
  <1> QED
    BY <1>5, <1>6 DEF ReopenFiscalYear, Post

\* Retiring an account writes no entry.
LEMMA RetireKeeps ==
    ASSUME BooksInOrder, NEW a \in Accounts, SetAccountActive(a)
    PROVE  BooksInOrder'
  <1>1. book' = book /\ closed' = closed /\ Entries' = Entries /\ isActive' \in [Accounts -> BOOLEAN]
    BY DEF SetAccountActive, BooksInOrder, WellBooked, Entries
  <1>2. WellBooked' /\ ClosingKept' /\ ClosedInOrder'
    BY <1>1 DEF BooksInOrder, WellBooked, ClosingKept, ClosedInOrder, IsBook, Balanced
  <1>3. \A y \in Years : \A b \in Results :
            Net(b, Through(YearEnd(y), Company))' = Net(b, Through(YearEnd(y), Company))
    BY <1>1 DEF Net, Through, EntriesRead
  <1> QED
    BY <1>1, <1>2, <1>3 DEF BooksInOrder, Swept

\* Empty books are in order.
LEMMA BooksStart == ReportsInit => BooksInOrder
  <1> SUFFICES ASSUME ReportsInit PROVE BooksInOrder
    OBVIOUS
  <1>1. book = << >> /\ Entries = {} /\ book \in Seq(EntryRow)
    BY DEF ReportsInit, Entries
  <1>2. closed \in [Years -> BOOLEAN] /\ isActive \in [Accounts -> BOOLEAN]
        /\ \A y \in Years : ~ closed[y]
    BY DEF ReportsInit
  <1>3. WellBooked
    BY <1>1, <1>2 DEF WellBooked, IsBook, Balanced
  <1> QED
    BY <1>1, <1>2, <1>3 DEF BooksInOrder, ClosingKept, ClosedInOrder, Swept

\* Every operation keeps the books in order.
LEMMA BooksKeep == BooksInOrder /\ [ReportsNext]_reportVars => BooksInOrder'
  <1> SUFFICES ASSUME BooksInOrder, [ReportsNext]_reportVars PROVE BooksInOrder'
    OBVIOUS
  <1>1. ASSUME NEW v \in Vouchers, NEW day \in EntryDays, NEW branch \in Branches,
               CreateManualEntry(v, day, branch)
        PROVE  BooksInOrder'
    BY <1>1, CreateKeeps
  <1>2. ASSUME NEW i \in Entries, ReverseManualEntry(i) PROVE BooksInOrder'
    BY <1>2, ReverseKeeps
  <1>3. ASSUME NEW a \in Accounts, SetAccountActive(a) PROVE BooksInOrder'
    BY <1>3, RetireKeeps
  <1>4. ASSUME NEW y \in Years, CloseFiscalYear(y) PROVE BooksInOrder'
    BY <1>4, CloseKeeps
  <1>5. ASSUME NEW y \in Years, ReopenFiscalYear(y) PROVE BooksInOrder'
    BY <1>5, ReopenKeeps
  <1>6. CASE UNCHANGED reportVars
    <2>1. book' = book /\ closed' = closed /\ isActive' = isActive /\ Entries' = Entries
      BY <1>6 DEF reportVars, Entries
    <2>2. WellBooked' /\ ClosingKept' /\ ClosedInOrder'
      BY <2>1 DEF BooksInOrder, WellBooked, ClosingKept, ClosedInOrder, IsBook, Balanced
    <2>3. \A y \in Years : \A b \in Results :
              Net(b, Through(YearEnd(y), Company))' = Net(b, Through(YearEnd(y), Company))
      BY <2>1 DEF Net, Through, EntriesRead
    <2> QED
      BY <2>1, <2>2, <2>3 DEF BooksInOrder, Swept
  <1> QED
    BY <1>1, <1>2, <1>3, <1>4, <1>5, <1>6 DEF ReportsNext

\* The inductive invariant of the books the reports read.
LEMMA BooksStayInOrder == ReportsSpec => []BooksInOrder
  BY BooksStart, BooksKeep, PTL DEF ReportsSpec

\* Books in order make reports that agree: sheet, trend and trial balance.
LEMMA BalanceFollows == BooksInOrder => ReportsBalance
  <1> SUFFICES ASSUME BooksInOrder PROVE ReportsBalance
    OBVIOUS
  <1>1. WellBooked /\ IsBook /\ Balanced
    BY DEF BooksInOrder, WellBooked
  <1>2. ReportsTypeOK
    <2>1. ASSUME NEW i \in Entries
          PROVE  /\ book[i] \in [date : Days, kind : {"MANUAL", "CLOSING_ENTRY"}, branch : Reports,
                                 reverses : 0 .. i - 1, lines : [Accounts -> Int]]
                 /\ SumFunctionOnSet(book[i].lines, Accounts) = 0
      <3>1. book[i] \in EntryRow /\ i \in Nat /\ book[i].reverses < i
        BY <1>1, EntriesAre DEF WellBooked
      <3>2. book[i].reverses \in 0 .. i - 1
        BY <3>1 DEF EntryRow
      <3>3. book[i] \in [date : Days, kind : {"MANUAL", "CLOSING_ENTRY"}, branch : Reports,
                         reverses : 0 .. i - 1, lines : [Accounts -> Int]]
        BY <3>1, <3>2 DEF EntryRow
      <3> QED
        BY <1>1, <3>3 DEF Balanced
    <2> QED
      BY <1>1, <2>1 DEF ReportsTypeOK, WellBooked
  <1>3. SheetBalances
    BY <1>1, SheetIs DEF SheetBalances
  <1>4. PrintedRowsAddUp
    BY <1>1, RowsAre DEF PrintedRowsAddUp
  <1>5. TrendAddsUp
    <2>1. ASSUME NEW w \in Windows
          PROVE  SumFunctionOnSet([b \in Buckets |-> TrendRevenue(w[1], w[2], b)], Buckets)
                   = TradingRevenue(w[1], w[2], Company)
      BY <1>1, TrendByBucket, TrendByAccount
    <2> QED
      BY <2>1 DEF TrendAddsUp
  <1> QED
    BY <1>2, <1>3, <1>4, <1>5 DEF ReportsBalance

\* Whatever is posted, reversed, closed, reopened or retired, on a calendar and with
\* branches of any size: assets are liabilities plus capital on every day for every
\* branch, the points of the revenue trend are the trading account's revenue, and the
\* rows a trial balance prints add up to all the accounts (getFinancialStatements,
\* getTrialBalance, revenueTrend).
THEOREM ReportsAddUp == ReportsSpec => []ReportsBalance
  BY BooksStayInOrder, BalanceFollows, PTL

---------------------------------------------------------------------------
(* The profits, and what becomes of them. *)

\* Vouchers leave retained earnings to the closing of the years.
RetainedUntouched == \A v \in Vouchers : v.debit # "RETAINED" /\ v.credit # "RETAINED"
ManualKeepsOff == \A i \in Entries : book[i].kind = "MANUAL" => book[i].lines["RETAINED"] = 0

\* A posted entry keeps off retained earnings when it does so itself.
LEMMA AppendedKeepsOff ==
    ASSUME BooksInOrder, ManualKeepsOff, NEW entry, book' = Append(book, entry),
           entry.kind = "MANUAL" => entry.lines["RETAINED"] = 0
    PROVE  ManualKeepsOff'
  <1>1. book \in Seq(EntryRow) /\ Entries = 1 .. Len(book) /\ Len(book) \in Nat
    BY EntriesAre DEF BooksInOrder, WellBooked, IsBook
  <1>2. /\ Entries' = 1 .. Len(book) + 1 /\ book'[Len(book) + 1] = entry
        /\ \A i \in 1 .. Len(book) : book'[i] = book[i]
    BY <1>1 DEF Entries
  <1>3. ASSUME NEW i \in Entries', book'[i].kind = "MANUAL" PROVE book'[i].lines["RETAINED"] = 0
    <2>1. CASE i \in Entries
      BY <1>1, <1>2, <1>3, <2>1 DEF ManualKeepsOff
    <2>2. CASE i = Len(book) + 1
      BY <1>2, <1>3, <2>2
    <2> QED
      BY <1>1, <1>2, <2>1, <2>2
  <1> QED
    BY <1>3 DEF ManualKeepsOff

\* The mirror of an entry that keeps off retained earnings does too.
LEMMA MirrorKeepsOff ==
    ASSUME BooksInOrder, ManualKeepsOff, NEW i \in Entries,
           book' = Append(book, [book[i] EXCEPT !.reverses = i, !.lines = Mirrored(book[i].lines)])
    PROVE  ManualKeepsOff'
  <1> DEFINE entry == [book[i] EXCEPT !.reverses = i, !.lines = Mirrored(book[i].lines)]
             retained == book[i].lines["RETAINED"]
  <1>1. "RETAINED" \in Accounts
    BY ChartIs
  <1>2. entry.kind = book[i].kind /\ retained \in Int /\ entry.lines["RETAINED"] = - retained
    BY <1>1, MirrorIs DEF BooksInOrder
  <1>3. entry.kind = "MANUAL" => retained = 0
    BY <1>2 DEF ManualKeepsOff
  <1>4. book' = Append(book, entry)
    OBVIOUS
  <1> HIDE DEF entry, retained
  <1>5. entry.kind = "MANUAL" => entry.lines["RETAINED"] = 0
    BY <1>2, <1>3, NilTurned
  <1> QED
    BY <1>4, <1>5, AppendedKeepsOff

\* Vouchers that leave retained earnings alone make manual entries that do.
LEMMA KeepsOff ==
    ASSUME RetainedUntouched
    PROVE  BooksInOrder /\ ManualKeepsOff /\ [ReportsNext]_reportVars => ManualKeepsOff'
  <1> SUFFICES ASSUME BooksInOrder, ManualKeepsOff, [ReportsNext]_reportVars
               PROVE  ManualKeepsOff'
    OBVIOUS
  <1>1. ASSUME NEW v \in Vouchers, NEW day \in EntryDays, NEW branch \in Branches,
               CreateManualEntry(v, day, branch)
        PROVE  ManualKeepsOff'
    <2> DEFINE figures == [a \in Accounts |-> CASE a = v.debit  -> v.amount
                                                 [] a = v.credit -> - v.amount
                                                 [] OTHER        -> 0]
               entry == Posted(day, "MANUAL", branch, ReversesNone, figures)
    <2>1. book' = Append(book, entry)
      BY <1>1 DEF CreateManualEntry, Post
    <2>2. figures["RETAINED"] = 0
      BY ChartIs DEF RetainedUntouched
    <2> HIDE DEF figures
    <2>3. entry.lines["RETAINED"] = 0
      BY <2>2 DEF Posted
    <2> HIDE DEF entry
    <2> QED
      BY <2>1, <2>3, AppendedKeepsOff
  <1>2. ASSUME NEW i \in Entries, ReverseManualEntry(i) PROVE ManualKeepsOff'
    BY <1>2, MirrorKeepsOff DEF ReverseManualEntry, Post
  <1>3. CASE UNCHANGED book
    BY <1>3 DEF ManualKeepsOff, Entries
  <1>4. ASSUME NEW y \in Years, CloseFiscalYear(y) PROVE ManualKeepsOff'
    <2> DEFINE entry == Posted(YearEnd(y), "CLOSING_ENTRY", Company, ReversesNone, ClosingLines(y))
    <2>1. UNCHANGED book \/ book' = Append(book, entry)
      BY <1>4 DEF CloseFiscalYear, Post
    <2>2. entry.kind # "MANUAL"
      BY DEF Posted
    <2> HIDE DEF entry
    <2> QED
      BY <1>3, <2>1, <2>2, AppendedKeepsOff
  <1>5. ASSUME NEW y \in Years, ReopenFiscalYear(y) PROVE ManualKeepsOff'
    <2>1. ASSUME NEW i \in ClosingEntries(y),
                 book' = Append(book, [book[i] EXCEPT !.reverses = i, !.lines = Mirrored(book[i].lines)])
          PROVE  ManualKeepsOff'
      BY <2>1, MirrorKeepsOff DEF ClosingEntries
    <2> QED
      BY <1>3, <1>5, <2>1 DEF ReopenFiscalYear, Post
  <1> QED
    BY <1>1, <1>2, <1>3, <1>4, <1>5 DEF ReportsNext, SetAccountActive, reportVars

\* Both invariants together, always.
LEMMA BooksAndManual ==
    ASSUME RetainedUntouched
    PROVE  ReportsSpec => [](BooksInOrder /\ ManualKeepsOff)
  <1>1. ReportsInit => BooksInOrder /\ ManualKeepsOff
    BY BooksStart DEF ReportsInit, ManualKeepsOff, Entries
  <1>2. (BooksInOrder /\ ManualKeepsOff) /\ [ReportsNext]_reportVars
          => (BooksInOrder /\ ManualKeepsOff)'
    BY BooksKeep, KeepsOff
  <1> QED
    BY <1>1, <1>2, PTL DEF ReportsSpec

\* Entries none of which moves an account leave it at nil.
LEMMA NetNil ==
    ASSUME IsBook, NEW E \in SUBSET Entries, NEW a, \A i \in E : book[i].lines[a] = 0
    PROVE  Net(a, E) = 0
  <1> DEFINE moved == [i \in Entries |-> book[i].lines[a]]
  <1>1. IsFiniteSet(E) /\ \A i \in E : moved[i] = 0
    BY EntriesAre
  <1> HIDE DEF moved
  <1>2. SumFunctionOnSet(moved, E) = 0
    BY <1>1, SumOfNils
  <1> QED
    BY <1>2 DEF Net, moved

\* In the entries a window counts, the closing entries among them carry to
\* retained earnings what they take from the results.
LEMMA ClosingCarries ==
    ASSUME BooksInOrder, ManualKeepsOff, NEW from \in Int, NEW to \in Int, NEW branch
    PROVE  LET D == EntriesRead(Window(from, to, branch, FALSE))
               M == EntriesRead(Window(from, to, branch, TRUE))
           IN  Net("RETAINED", D) + (Net("SALES", D) + Net("SALES_RETURNS", D) + Net("OWN_EXPENSE", D))
                 = Net("SALES", M) + Net("SALES_RETURNS", M) + Net("OWN_EXPENSE", M)
  <1> DEFINE D == EntriesRead(Window(from, to, branch, FALSE))
             M == EntriesRead(Window(from, to, branch, TRUE))
             C == D \ M
  <1>1. IsBook /\ Balanced /\ ClosingKept
    BY DEF BooksInOrder, WellBooked
  <1>2. D \in SUBSET Entries /\ M \in SUBSET D /\ C \in SUBSET Entries /\ M \in SUBSET Entries
    BY DEF EntriesRead, Window, KindsRead
  <1>3. (\A i \in M : book[i].kind = "MANUAL") /\ (\A i \in C : book[i].kind = "CLOSING_ENTRY")
    BY DEF EntriesRead, Window, KindsRead
  <1> HIDE DEF D, M, C
  <1>4. \A a \in Accounts : /\ Net(a, D) \in Int /\ Net(a, M) \in Int /\ Net(a, C) \in Int
                            /\ Net(a, D) = Net(a, M) + Net(a, C)
    BY <1>1, <1>2, NetIs, NetOfBoth DEF C
  <1>5. Net("RETAINED", M) = 0
    BY <1>1, <1>2, <1>3, NetNil DEF ManualKeepsOff
  <1>6. Net("CASH", C) = 0 /\ Net("DEPRECIATED", C) = 0 /\ Net("LOAN", C) = 0 /\ Net("DRAWINGS", C) = 0
    <2>1. ASSUME NEW a \in {"CASH", "DEPRECIATED", "LOAN", "DRAWINGS"} PROVE Net(a, C) = 0
      <3>1. a \in Accounts \ (Results \union {"RETAINED"})
        BY ChartIs
      <3> QED
        BY <1>1, <1>2, <1>3, <3>1, NetNil DEF ClosingKept
    <2> QED
      BY <2>1
  <1>7. Net("CASH", C) + Net("DEPRECIATED", C) + Net("LOAN", C) + Net("DRAWINGS", C)
             + Net("RETAINED", C)
             + (Net("SALES", C) + Net("SALES_RETURNS", C) + Net("OWN_EXPENSE", C)) = 0
    BY <1>1, <1>2, NetsCancel
  <1>8. \A a \in {"RETAINED", "SALES", "SALES_RETURNS", "OWN_EXPENSE"} :
            /\ Net(a, D) \in Int /\ Net(a, M) \in Int /\ Net(a, C) \in Int
            /\ Net(a, D) = Net(a, M) + Net(a, C)
    BY <1>4, ChartIs
  <1>9. Net("RETAINED", D) + (Net("SALES", D) + Net("SALES_RETURNS", D) + Net("OWN_EXPENSE", D))
                 = Net("SALES", M) + Net("SALES_RETURNS", M) + Net("OWN_EXPENSE", M)
    <2>1. /\ Net("RETAINED", D) = Net("RETAINED", M) + Net("RETAINED", C)
          /\ Net("SALES", D) = Net("SALES", M) + Net("SALES", C)
          /\ Net("SALES_RETURNS", D) = Net("SALES_RETURNS", M) + Net("SALES_RETURNS", C)
          /\ Net("OWN_EXPENSE", D) = Net("OWN_EXPENSE", M) + Net("OWN_EXPENSE", C)
      BY <1>8
    <2>2. /\ Net("RETAINED", C) \in Int /\ Net("SALES", M) \in Int /\ Net("SALES", C) \in Int
          /\ Net("SALES_RETURNS", M) \in Int /\ Net("SALES_RETURNS", C) \in Int
          /\ Net("OWN_EXPENSE", M) \in Int /\ Net("OWN_EXPENSE", C) \in Int
      BY <1>8
    <2> QED
      BY <1>5, <1>6, <1>7, <2>1, <2>2
  <1> QED
    BY <1>9 DEF D, M

\* The profit reported is the net of the results, closing entries left out.
LEMMA ProfitIs ==
    ASSUME IsBook, NEW from, NEW to, NEW branch
    PROVE  LET M == EntriesRead(Window(from, to, branch, TRUE))
           IN  NetProfit(from, to, branch)
                 = ((- Net("SALES", M) - Net("SALES_RETURNS", M)) - 0) + 0 - Net("OWN_EXPENSE", M)
  BY TotalsIn DEF NetProfit, GrossProfit, TradingRevenue

\* At a closed year's end the results are nil with the closing entries and the profit
\* without: the difference is in retained earnings.
LEMMA RetainedFollows ==
    ASSUME BooksInOrder, ManualKeepsOff
    PROVE  RetainedEarningsAreTheProfits
  <1> SUFFICES ASSUME NEW y \in Years, closed[y]
               PROVE  PositionOf("RETAINED", YearEnd(y), Company) = NetProfit(1, YearEnd(y), Company)
    BY DEF RetainedEarningsAreTheProfits
  <1> DEFINE end == YearEnd(y)
             D == EntriesRead(Window(1, end, Company, FALSE))
             M == EntriesRead(Window(1, end, Company, TRUE))
  <1>1. IsBook /\ end \in Int
    BY YearsAndDays DEF BooksInOrder, WellBooked, Days
  <1>2. Net("SALES", D) = 0 /\ Net("SALES_RETURNS", D) = 0 /\ Net("OWN_EXPENSE", D) = 0
    BY ChartIs DEF BooksInOrder, Swept, Through
  <1>3. PositionOf("RETAINED", end, Company) = - Net("RETAINED", D)
    <2>1. "RETAINED" \in Accounts
      BY ChartIs
    <2>2. PositionOf("RETAINED", end, Company) = Natural("RETAINED", Net("RETAINED", D))
      BY <1>1, <2>1, PositionIs DEF Through
    <2> QED
      BY <2>2, NaturalByAccount
  <1>4. NetProfit(1, end, Company)
          = ((- Net("SALES", M) - Net("SALES_RETURNS", M)) - 0) + 0 - Net("OWN_EXPENSE", M)
    BY <1>1, ProfitIs
  <1>5. Net("RETAINED", D) + (Net("SALES", D) + Net("SALES_RETURNS", D) + Net("OWN_EXPENSE", D))
                 = Net("SALES", M) + Net("SALES_RETURNS", M) + Net("OWN_EXPENSE", M)
    <2> HIDE DEF end
    <2>1. 1 \in Int
      OBVIOUS
    <2> QED
      BY <1>1, <2>1, ClosingCarries
  <1>6. /\ Net("RETAINED", D) \in Int /\ Net("SALES", M) \in Int
        /\ Net("SALES_RETURNS", M) \in Int /\ Net("OWN_EXPENSE", M) \in Int
    BY <1>1, ChartIs, NetIs, ReadIn
  <1> HIDE DEF D, M, end
  <1>7. PositionOf("RETAINED", end, Company) = NetProfit(1, end, Company)
    BY <1>2, <1>3, <1>4, <1>5, <1>6
  <1> QED
    BY <1>7 DEF end

\* Capital moves by drawings, retained earnings and the results not yet closed; a
\* closing entry moves between the last two.
LEMMA NetWorthFollows ==
    ASSUME BooksInOrder, ManualKeepsOff
    PROVE  ProfitExplainsNetWorth
  <1> SUFFICES ASSUME NEW branch \in Reports, NEW w \in Windows
               PROVE  EquityTotal(w[2], branch) - EquityTotal(w[1] - 1, branch)
                        = NetProfit(w[1], w[2], branch) + Drawn(w[1], w[2], branch)
    BY DEF ProfitExplainsNetWorth
  <1> DEFINE from == w[1]
             to == w[2]
             A == Through(to, branch)
             B == Through(from - 1, branch)
             D == EntriesRead(Window(from, to, branch, FALSE))
             M == EntriesRead(Window(from, to, branch, TRUE))
  <1>1. IsBook /\ from \in Int /\ to \in Int /\ 1 <= from /\ from <= to
    BY CalendarAssumption, YearsAndDays DEF BooksInOrder, WellBooked
  <1>2. B \in SUBSET A /\ A \ B = D /\ A \in SUBSET Entries /\ B \in SUBSET Entries
        /\ D \in SUBSET Entries /\ M \in SUBSET Entries
    <2>1. \A i \in Entries : book[i].date \in Int
      BY <1>1, EntriesAre, YearsAndDays DEF Days
    <2>2. \A i \in Entries : /\ book[i].date \in 1 .. from - 1 => book[i].date \in 1 .. to
                             /\ book[i].date \in 1 .. to /\ book[i].date \notin 1 .. from - 1
                                  <=> book[i].date \in from .. to
      BY <1>1, <2>1
    <2> HIDE DEF from, to
    <2> QED
      BY <2>2 DEF Through, EntriesRead, Window, KindsRead
  <1> HIDE DEF from, to
  <1>3. /\ EquityTotal(to, branch) = (- Net("DRAWINGS", A) - Net("RETAINED", A))
              + ((- Net("SALES", A) - Net("SALES_RETURNS", A)) - Net("OWN_EXPENSE", A))
        /\ EquityTotal(from - 1, branch) = (- Net("DRAWINGS", B) - Net("RETAINED", B))
              + ((- Net("SALES", B) - Net("SALES_RETURNS", B)) - Net("OWN_EXPENSE", B))
    BY <1>1, TotalsAt DEF EquityTotal, EarningsToDate
  <1>4. Drawn(from, to, branch) = - Net("DRAWINGS", D)
    BY <1>1, TotalsIn DEF Drawn
  <1>5. NetProfit(from, to, branch)
          = ((- Net("SALES", M) - Net("SALES_RETURNS", M)) - 0) + 0 - Net("OWN_EXPENSE", M)
    BY <1>1, ProfitIs
  <1>6. Net("RETAINED", D) + (Net("SALES", D) + Net("SALES_RETURNS", D) + Net("OWN_EXPENSE", D))
                 = Net("SALES", M) + Net("SALES_RETURNS", M) + Net("OWN_EXPENSE", M)
    BY <1>1, ClosingCarries
  <1> HIDE DEF A, B, D, M
  <1>7. \A a \in {"DRAWINGS", "RETAINED", "SALES", "SALES_RETURNS", "OWN_EXPENSE"} :
            /\ Net(a, A) \in Int /\ Net(a, B) \in Int /\ Net(a, D) \in Int /\ Net(a, M) \in Int
            /\ Net(a, A) = Net(a, B) + Net(a, D)
    <2>1. ASSUME NEW a \in Accounts
          PROVE  /\ Net(a, A) \in Int /\ Net(a, B) \in Int /\ Net(a, D) \in Int /\ Net(a, M) \in Int
                 /\ Net(a, A) = Net(a, B) + Net(a, D)
      <3>1. Net(a, A) = Net(a, B) + Net(a, A \ B)
        BY <1>1, <1>2, NetOfBoth
      <3> QED
        BY <1>1, <1>2, <3>1, NetIs
    <2> QED
      BY <2>1, ChartIs
  <1>8. EquityTotal(to, branch) - EquityTotal(from - 1, branch)
          = NetProfit(from, to, branch) + Drawn(from, to, branch)
    BY <1>3, <1>4, <1>5, <1>6, <1>7
  <1> QED
    BY <1>8 DEF from, to

\* If no manual entry touches retained earnings: at the end of every closed year it
\* holds the profits reported since the books began, each once, whatever was reversed,
\* closed and reopened on the way (postClosingEntry, reopenFiscalYear).
THEOREM RetainedIsProfits ==
    ASSUME RetainedUntouched
    PROVE  ReportsSpec => []RetainedEarningsAreTheProfits
  <1>1. BooksInOrder /\ ManualKeepsOff => RetainedEarningsAreTheProfits
    BY RetainedFollows
  <1> QED
    BY <1>1, BooksAndManual, PTL

\* If no manual entry touches retained earnings: between any two balance sheets, for
\* the business and for each branch, capital grows by the profit the profit and loss
\* account of the days between reports, less drawings (loadBalances).
THEOREM NetWorthExplained ==
    ASSUME RetainedUntouched
    PROVE  ReportsSpec => []ProfitExplainsNetWorth
  <1>1. BooksInOrder /\ ManualKeepsOff => ProfitExplainsNetWorth
    BY NetWorthFollows
  <1> QED
    BY <1>1, BooksAndManual, PTL

---------------------------------------------------------------------------
(* An account's ledger, page by page. *)

\* A function on 1 .. K is a sequence of length K.
LEMMA CountOf ==
    ASSUME NEW K \in Nat, NEW S, NEW s \in [1 .. K -> S]
    PROVE  s \in Seq(S) /\ Len(s) = K
  OBVIOUS

\* The lesser of two.
LEMMA MinOfTwo == \A a, b \in Int : Min({a, b}) = IF a <= b THEN a ELSE b
  <1> SUFFICES ASSUME NEW a \in Int, NEW b \in Int
               PROVE  Min({a, b}) = IF a <= b THEN a ELSE b
    OBVIOUS
  <1>1. Min({a, b}) = CHOOSE x \in {a, b} : \A y \in {a, b} : x <= y
    BY DEF Min
  <1> QED
    BY <1>1
\* The greater of two.
LEMMA MaxOfTwo == \A a, b \in Int : Max({a, b}) = IF a >= b THEN a ELSE b
  <1> SUFFICES ASSUME NEW a \in Int, NEW b \in Int
               PROVE  Max({a, b}) = IF a >= b THEN a ELSE b
    OBVIOUS
  <1>1. Max({a, b}) = CHOOSE x \in {a, b} : \A y \in {a, b} : x >= y
    BY DEF Max
  <1> QED
    BY <1>1

\* In a finite set in which of any two one comes before the other, the number of
\* those before an element tells it from the others, and every number is some
\* element's.
LEMMA Ranked ==
    ASSUME NEW S, IsFiniteSet(S), NEW below \in [S -> SUBSET S],
           \A x \in S : x \in below[x],
           \A x, y \in S : x # y => \/ below[x] \subseteq below[y] /\ y \notin below[x]
                                    \/ below[y] \subseteq below[x] /\ x \notin below[y]
    PROVE  /\ Cardinality(S) \in Nat
           /\ \A x, y \in S : Cardinality(below[x]) = Cardinality(below[y]) => x = y
           /\ \A n \in 1 .. Cardinality(S) : \E x \in S : Cardinality(below[x]) = n
           /\ \A x \in S : Cardinality(below[x]) \in 1 .. Cardinality(S)
  <1> DEFINE N == Cardinality(S)
             rank == [x \in S |-> Cardinality(below[x])]
  <1>1. N \in Nat
    BY FS_CardinalityType
  <1>2. ASSUME NEW x \in S PROVE IsFiniteSet(below[x]) /\ Cardinality(below[x]) \in 1 .. N
    <2>1. IsFiniteSet(below[x]) /\ Cardinality(below[x]) <= N
      BY FS_Subset
    <2>2. Cardinality(below[x]) \in Nat /\ Cardinality(below[x]) # 0
      BY <2>1, FS_CardinalityType, FS_EmptySet
    <2> QED
      BY <1>1, <2>1, <2>2
  <1>3. ASSUME NEW x \in S, NEW y \in S, below[x] \subseteq below[y], y \notin below[x]
        PROVE  Cardinality(below[x]) # Cardinality(below[y])
    <2>1. Cardinality(below[y]) = Cardinality(below[x]) => below[y] = below[x]
      BY <1>2, <1>3, FS_Subset
    <2> QED
      BY <1>3, <2>1
  <1>4. \A x, y \in S : Cardinality(below[x]) = Cardinality(below[y]) => x = y
    BY <1>3
  <1>5. rank \in Injection(S, 1 .. N)
    <2>1. rank \in [S -> 1 .. N]
      BY <1>2
    <2>2. \A x, y \in S : rank[x] = rank[y] => x = y
      BY <1>4
    <2> QED
      BY <2>1, <2>2 DEF Injection, IsInjective
  <1>6. IsFiniteSet(1 .. N) /\ Cardinality(1 .. N) = N
    <2>1. IsFiniteSet(1 .. N) /\ Cardinality(1 .. N) = IF 1 > N THEN 0 ELSE N - 1 + 1
      BY <1>1, FS_Interval
    <2> QED
      BY <1>1, <2>1
  <1>7. rank \in Surjection(S, 1 .. N)
    BY <1>5, <1>6, FS_Injection
  <1>8. \A n \in 1 .. N : \E x \in S : rank[x] = n
    BY <1>7 DEF Surjection
  <1> QED
    BY <1>1, <1>2, <1>4, <1>8

RowsRead(a, from, to) ==
    {i \in EntriesRead(Window(from, to, Company, FALSE)) : book[i].lines[a] # 0}

\* The rows are the account's lines of the window, each once.
LEMMA RowsOnce ==
    ASSUME IsBook, NEW a \in Accounts, NEW from, NEW to
    PROVE  LET rows == LinesOf(a, from, to)
               read == RowsRead(a, from, to)
           IN  /\ Len(rows) \in Nat /\ rows \in [1 .. Len(rows) -> read]
               /\ \A m, n \in 1 .. Len(rows) : rows[m] = rows[n] => m = n
               /\ \A i \in read : \E n \in 1 .. Len(rows) : rows[n] = i
  <1> DEFINE rows == LinesOf(a, from, to)
             read == RowsRead(a, from, to)
             before(i, j) == \/ book[i].date < book[j].date
                             \/ book[i].date = book[j].date /\ i <= j
             upTo(i) == {j \in read : before(j, i)}
             below == [i \in read |-> upTo(i)]
             N == Cardinality(read)
  <1>1. read \in SUBSET Entries /\ IsFiniteSet(read)
    <2>1. read \in SUBSET Entries
      BY DEF RowsRead, EntriesRead
    <2> QED
      BY <2>1, EntriesAre
  <1>2. \A i \in read : i \in Nat /\ book[i].date \in Nat
    BY <1>1, EntriesAre, YearsAndDays DEF Days
  <1>3. rows = [n \in 1 .. N |-> CHOOSE i \in read : Cardinality(upTo(i)) = n]
    BY DEF LinesOf, RowsRead
  <1> HIDE DEF read
  <1>4. below \in [read -> SUBSET read] /\ \A i \in read : i \in below[i]
    BY <1>2
  <1>5. ASSUME NEW i \in read, NEW j \in read, i # j
        PROVE  \/ below[i] \subseteq below[j] /\ j \notin below[i]
               \/ below[j] \subseteq below[i] /\ i \notin below[j]
    <2>1. ASSUME NEW x \in read, NEW y \in read, x # y, before(x, y)
          PROVE  below[x] \subseteq below[y] /\ y \notin below[x]
      <3>1. ASSUME NEW z \in read, before(z, x) PROVE before(z, y)
        BY <1>2, <2>1, <3>1
      <3>2. ~ before(y, x)
        BY <1>2, <2>1
      <3> QED
        BY <3>1, <3>2
    <2>2. before(i, j) \/ before(j, i)
      BY <1>2, <1>5
    <2> HIDE DEF before, below
    <2> QED
      BY <1>5, <2>1, <2>2
  <1>5a. \A i \in read : below[i] = upTo(i)
    OBVIOUS
  <1> HIDE DEF rows, below, upTo
  <1>6. /\ N \in Nat
        /\ \A i, j \in read : Cardinality(below[i]) = Cardinality(below[j]) => i = j
        /\ \A n \in 1 .. N : \E i \in read : Cardinality(below[i]) = n
        /\ \A i \in read : Cardinality(below[i]) \in 1 .. N
    BY <1>1, <1>4, <1>5, Ranked
  <1>7. ASSUME NEW n \in 1 .. N PROVE rows[n] \in read /\ Cardinality(below[rows[n]]) = n
    <2>1. \E i \in read : Cardinality(upTo(i)) = n
      BY <1>5a, <1>6
    <2>2. rows[n] = CHOOSE i \in read : Cardinality(upTo(i)) = n
      BY <1>3
    <2>3. rows[n] \in read /\ Cardinality(upTo(rows[n])) = n
      BY <2>1, <2>2
    <2> QED
      BY <1>5a, <2>3
  <1>8. rows \in [1 .. N -> read] /\ Len(rows) = N
    <2>1. rows \in [1 .. N -> read]
      BY <1>3, <1>7
    <2> QED
      BY <1>6, <2>1, CountOf
  <1>9. \A m, n \in 1 .. N : rows[m] = rows[n] => m = n
    BY <1>7
  <1>10. ASSUME NEW i \in read PROVE \E n \in 1 .. N : rows[n] = i
    <2>1. Cardinality(below[i]) \in 1 .. N
      BY <1>6
    <2>2. rows[Cardinality(below[i])] = i
      BY <1>6, <1>7, <2>1
    <2> QED
      BY <2>1, <2>2
  <1> QED
    BY <1>6, <1>8, <1>9, <1>10 DEF rows, read

\* A balance on its account's own side.
OnSide(a, amount) == IF Chart[a].nature = "DEBIT" THEN amount ELSE - amount

\* The side a ledger page signs a line by (signedBalance).
LEMMA SignedIs ==
    ASSUME IsBook, NEW a \in Accounts
    PROVE  /\ \A i \in Entries : Signed(a, i) = OnSide(a, book[i].lines[a]) /\ Signed(a, i) \in Int
           /\ \A dr, cr \in Int :
                 SignedBalance(Chart[a].nature, dr, cr) = OnSide(a, dr - cr)
  <1>1. \A dr, cr \in Int :
            SignedBalance(Chart[a].nature, dr, cr) = OnSide(a, dr - cr)
    BY DEF SignedBalance, OnSide
  <1>2. ASSUME NEW i \in Entries
        PROVE  Signed(a, i) = OnSide(a, book[i].lines[a]) /\ Signed(a, i) \in Int
    <2>1. book[i].lines[a] \in Int
      BY EntriesAre
    <2> QED
      BY <2>1 DEF Signed, SignedBalance, OnSide, DebitOf, CreditOf
  <1> QED
    BY <1>1, <1>2

\* Lines signed by the nature of their account add up to its net, so signed.
LEMMA SumOfSigned ==
    ASSUME IsBook, NEW a \in Accounts, NEW E \in SUBSET Entries, NEW f,
           \A i \in E : f[i] = Signed(a, i)
    PROVE  SumFunctionOnSet(f, E) = OnSide(a, Net(a, E)) /\ SumFunctionOnSet(f, E) \in Int
  <1> DEFINE moved == [i \in Entries |-> book[i].lines[a]]
  <1>1. IsFiniteSet(E)
    BY EntriesAre
  <1>2. \A i \in E : moved[i] \in Int /\ f[i] = OnSide(a, moved[i]) /\ f[i] \in Int
    BY SignedIs, EntriesAre
  <1>3. Net(a, E) = SumFunctionOnSet(moved, E)
    BY DEF Net
  <1> HIDE DEF moved
  <1>3a. SumFunctionOnSet(f, E) \in Int
    BY <1>1, <1>2, SumInt
  <1>4. CASE Chart[a].nature = "DEBIT"
    <2>1. \A i \in E : f[i] = moved[i]
      BY <1>2, <1>4 DEF OnSide
    <2>2. SumFunctionOnSet(f, E) = SumFunctionOnSet(moved, E)
      BY <1>1, <2>1, SumSame
    <2> QED
      BY <1>3, <1>3a, <1>4, <2>2 DEF OnSide
  <1>5. CASE Chart[a].nature # "DEBIT"
    <2>1. \A i \in E : moved[i] \in Int /\ f[i] = - moved[i]
      BY <1>2, <1>5 DEF OnSide
    <2>2. SumFunctionOnSet(f, E) = - SumFunctionOnSet(moved, E)
      BY <1>1, <2>1, SumNegated
    <2> QED
      BY <1>3, <1>3a, <1>5, <2>2 DEF OnSide
  <1> QED
    BY <1>4, <1>5

\* What a running balance should be: the opening balance, and the rows so far.
RowsSigned(a, rows, n) == [m \in 1 .. n |-> Signed(a, rows[m])]
RunningAt(a, from, to, n) ==
    OpeningBalance(a, from)
      + SumFunctionOnSet(RowsSigned(a, LinesOf(a, from, to), n), 1 .. n)

\* What a ledger opens with is the net of the entries before its first day.
LEMMA OpeningIs ==
    ASSUME IsBook, NEW a \in Accounts, NEW from
    PROVE  /\ OpeningBalance(a, from)
                = OnSide(a, Net(a, EntriesRead(Window(1, from - 1, Company, FALSE))))
           /\ OpeningBalance(a, from) \in Int
  <1> DEFINE before == EntriesRead(Window(1, from - 1, Company, FALSE))
             f == [i \in before |-> Signed(a, i)]
  <1>1. OpeningBalance(a, from) = SumFunctionOnSet(f, before)
    BY DEF OpeningBalance
  <1>2. before \in SUBSET Entries /\ \A i \in before : f[i] = Signed(a, i)
    BY ReadIn
  <1> HIDE DEF before, f
  <1>3. SumFunctionOnSet(f, before) = OnSide(a, Net(a, before)) /\ SumFunctionOnSet(f, before) \in Int
    BY <1>2, SumOfSigned
  <1> QED
    BY <1>1, <1>3 DEF before

\* The running balance opens with the opening balance and moves by one line a row.
LEMMA RunningGrows ==
    ASSUME IsBook, NEW a \in Accounts, NEW from, NEW to,
           NEW n \in 1 .. Len(LinesOf(a, from, to))
    PROVE  /\ RunningAt(a, from, to, n)
                = Signed(a, LinesOf(a, from, to)[n]) + RunningAt(a, from, to, n - 1)
           /\ RunningAt(a, from, to, 0) = OpeningBalance(a, from)
  <1> DEFINE rows == LinesOf(a, from, to)
             f == RowsSigned(a, rows, n - 1)
             g == RowsSigned(a, rows, n)
             open == OpeningBalance(a, from)
  <1>1. Len(rows) \in Nat /\ \A m \in 1 .. Len(rows) : Signed(a, rows[m]) \in Int
    <2>1. Len(rows) \in Nat /\ \A m \in 1 .. Len(rows) : rows[m] \in RowsRead(a, from, to)
      BY RowsOnce
    <2>2. RowsRead(a, from, to) \in SUBSET Entries
      BY DEF RowsRead, EntriesRead
    <2> QED
      BY <2>1, <2>2, SignedIs
  <1> HIDE DEF rows
  <1>2. n \in Nat /\ 1 <= n /\ n <= Len(rows) /\ n - 1 \in Nat
    BY <1>1 DEF rows
  <1>3. /\ \A m \in 1 .. n - 1 : f[m] \in Int /\ g[m] = f[m]
        /\ g[n] = Signed(a, rows[n]) /\ g[n] \in Int
    BY <1>1, <1>2 DEF RowsSigned
  <1>4. IsFiniteSet(1 .. n - 1) /\ n \notin 1 .. n - 1 /\ 1 .. n = (1 .. n - 1) \union {n}
    <2>1. IsFiniteSet(1 .. n - 1)
      BY <1>2, FS_Interval
    <2>2. n \notin 1 .. n - 1 /\ 1 .. n = (1 .. n - 1) \union {n}
      BY <1>2
    <2> QED
      BY <2>1, <2>2
  <1> HIDE DEF f, g
  <1>5. SumFunctionOnSet(g, 1 .. n) = SumFunctionOnSet(f, 1 .. n - 1) + g[n]
    <2> DEFINE S == 1 .. n - 1
    <2>1. /\ IsFiniteSet(S) /\ n \notin S /\ g[n] \in Int
          /\ \A m \in S : f[m] \in Int /\ g[m] = f[m]
      BY <1>3, <1>4
    <2>2. 1 .. n = S \union {n}
      BY <1>4
    <2> HIDE DEF S
    <2>3. SumFunctionOnSet(g, S \union {n}) = SumFunctionOnSet(f, S) + g[n]
      BY ONLY <2>1, SumGrows
    <2> QED
      BY <2>2, <2>3 DEF S
  <1>6. SumFunctionOnSet(f, 1 .. n - 1) \in Int /\ open \in Int
    BY <1>3, <1>4, SumInt, OpeningIs
  <1>7. /\ RunningAt(a, from, to, n) = open + SumFunctionOnSet(g, 1 .. n)
        /\ RunningAt(a, from, to, n - 1) = open + SumFunctionOnSet(f, 1 .. n - 1)
    BY DEF RunningAt, rows, f, g
  <1>8. RunningAt(a, from, to, 0) = open
    <2>1. 1 .. 0 = {}
      OBVIOUS
    <2>2. RunningAt(a, from, to, 0) = open + 0
      BY <2>1, SumNone DEF RunningAt
    <2> HIDE DEF open
    <2> QED
      BY <1>6, <2>2
  <1> HIDE DEF open
  <1>9. RunningAt(a, from, to, n) = Signed(a, rows[n]) + RunningAt(a, from, to, n - 1)
    BY <1>3, <1>5, <1>6, <1>7
  <1> QED
    BY <1>8, <1>9 DEF rows, open

\* The last running balance is the balance the trial balance reports.
LEMMA RunningEnds ==
    ASSUME IsBook, NEW a \in Accounts, NEW from, NEW to
    PROVE  LET closing == AccountBalance(a, Window(from, to, Company, FALSE))
           IN  RunningAt(a, from, to, Len(LinesOf(a, from, to)))
                 = SignedBalance(Chart[a].nature, closing.closingDebit, closing.closingCredit)
  <1> DEFINE rows == LinesOf(a, from, to)
             N == Len(rows)
             w == Window(from, to, Company, FALSE)
             closing == AccountBalance(a, w)
             during == EntriesRead(w)
             before == CarriedIn(w)
             read == RowsRead(a, from, to)
             f == RowsSigned(a, rows, N)
             g == [i \in Entries |-> Signed(a, i)]
  <1>1. /\ N \in Nat /\ rows \in [1 .. N -> read]
        /\ \A m, n \in 1 .. N : rows[m] = rows[n] => m = n
        /\ \A i \in read : \E n \in 1 .. N : rows[n] = i
    BY RowsOnce
  <1>2. /\ read \in SUBSET during /\ during \in SUBSET Entries /\ read \in SUBSET Entries
        /\ \A i \in during \ read : book[i].lines[a] = 0
    BY DEF RowsRead, EntriesRead
  <1>3. OpeningBalance(a, from) = OnSide(a, Net(a, before)) /\ Net(a, before) \in Int
    <2>1. before = EntriesRead(Window(1, from - 1, Company, FALSE))
      BY DEF CarriedIn, Window
    <2> QED
      BY <2>1, OpeningIs, NetIs, ReadIn
  <1>4. /\ closing.closingDebit \in Int /\ closing.closingCredit \in Int
        /\ closing.closingDebit - closing.closingCredit = Net(a, before) + Net(a, during)
    BY BalanceIs
  <1>5. Net(a, during) = Net(a, read) /\ Net(a, read) \in Int
    <2> HIDE DEF during, read
    <2>1. Net(a, during) = Net(a, read) + Net(a, during \ read)
      BY <1>2, NetOfBoth
    <2>2. Net(a, during \ read) = 0
      BY <1>2, NetNil
    <2>3. Net(a, read) \in Int
      BY <1>2, NetIs
    <2> QED
      BY <2>1, <2>2, <2>3
  <1>6. RunningAt(a, from, to, N) = OpeningBalance(a, from) + SumFunctionOnSet(f, 1 .. N)
    BY DEF RunningAt
  <1> HIDE DEF rows, N, w, during, before, read, closing
  <1>7. SumFunctionOnSet(g, read) = OnSide(a, Net(a, read))
    <2>1. \A i \in read : g[i] = Signed(a, i)
      BY <1>2
    <2> HIDE DEF g
    <2> QED
      BY <1>2, <2>1, SumOfSigned
  <1>8. SumFunctionOnSet(f, 1 .. N) = SumFunctionOnSet(g, read)
    <2>1. \A n \in 1 .. N : rows[n] \in read /\ f[n] \in Int /\ g[rows[n]] = f[n]
      BY <1>1, <1>2, SignedIs DEF RowsSigned
    <2>2. IsFiniteSet(1 .. N) /\ IsFiniteSet(read)
      BY <1>1, <1>2, EntriesAre, FS_Interval
    <2> HIDE DEF f, g
    <2> QED
      BY <1>1, <2>1, <2>2, SumMatched
  <1>9. RunningAt(a, from, to, N) = OnSide(a, Net(a, before)) + OnSide(a, Net(a, during))
    BY <1>3, <1>5, <1>6, <1>7, <1>8
  <1>10. OnSide(a, Net(a, before)) + OnSide(a, Net(a, during)) = OnSide(a, Net(a, before) + Net(a, during))
    BY <1>3, <1>5 DEF OnSide
  <1>11. SignedBalance(Chart[a].nature, closing.closingDebit, closing.closingCredit)
           = OnSide(a, closing.closingDebit - closing.closingCredit)
    BY <1>4, SignedIs
  <1>12. RunningAt(a, from, to, N)
           = SignedBalance(Chart[a].nature, closing.closingDebit, closing.closingCredit)
    BY <1>4, <1>9, <1>10, <1>11
  <1> QED
    BY <1>12 DEF N, rows, closing, w

\* The page of a row, and its place on it.
LEMMA Quotient ==
    ASSUME NEW n \in Nat
    PROVE  LET q == n \div PageSize
               r == n % PageSize
           IN  /\ q \in Nat /\ r \in 0 .. PageSize - 1 /\ n = q * PageSize + r
               /\ q * PageSize \in Nat
               /\ (n + PageSize) \div PageSize = q + 1
  <1>1. PageSize \in Nat \ {0}
    BY CalendarAssumption
  <1> DEFINE q == n \div PageSize
             r == n % PageSize
             m == (n + PageSize) \div PageSize
             s == (n + PageSize) % PageSize
  <1>2. q \in Nat /\ r \in 0 .. PageSize - 1 /\ n = PageSize * q + r
    BY <1>1
  <1>3. m \in Nat /\ s \in 0 .. PageSize - 1 /\ n + PageSize = PageSize * m + s
    <2>1. n + PageSize \in Nat
      BY <1>1
    <2> QED
      BY <1>1, <2>1
  <1> HIDE DEF q, r, m, s
  <1>4. PageSize * q = q * PageSize /\ q * PageSize \in Nat
    BY <1>1, <1>2
  <1>5. PageSize * m = m * PageSize /\ m * PageSize \in Nat
    BY <1>1, <1>3
  <1>6. (q + 1) * PageSize = q * PageSize + PageSize
    BY <1>1, <1>2
  <1>7. ~ (m > q + 1)
    <2>1. ASSUME m > q + 1 PROVE FALSE
      <3>1. (q + 2) * PageSize <= m * PageSize
        BY <1>1, <1>2, <1>3, <2>1
      <3>2. (q + 2) * PageSize = q * PageSize + PageSize + PageSize
        BY <1>1, <1>2
      <3> QED
        BY <1>1, <1>2, <1>3, <1>4, <1>5, <3>1, <3>2
    <2> QED
      BY <2>1
  <1>8. ~ (m < q + 1)
    <2>1. ASSUME m < q + 1 PROVE FALSE
      <3>1. m * PageSize <= q * PageSize
        BY <1>1, <1>2, <1>3, <2>1
      <3> QED
        BY <1>1, <1>2, <1>3, <1>4, <1>5, <3>1
    <2> QED
      BY <2>1
  <1>9. m = q + 1
    BY <1>2, <1>3, <1>7, <1>8
  <1> QED
    BY <1>2, <1>4, <1>9 DEF q, r, m

\* The page a row is on shows it with its running balance.
LEMMA PageShowsAt ==
    ASSUME IsBook, NEW a \in Accounts, NEW from, NEW to,
           NEW n \in 1 .. Len(LinesOf(a, from, to)), NEW p, p = (n - 1) \div PageSize + 1
    PROVE  LET page == LedgerPage(a, from, to, p)
           IN  /\ page[((n - 1) % PageSize) + 1].running = RunningAt(a, from, to, n)
               /\ n = Len(LinesOf(a, from, to)) => Len(page) = ((n - 1) % PageSize) + 1
  <1> DEFINE rows == LinesOf(a, from, to)
             q == (n - 1) \div PageSize
             r == (n - 1) % PageSize
             running(m) == OpeningBalance(a, from)
                        + SumFunctionOnSet([k \in RowsBefore(p, m) |-> Signed(a, rows[k])],
                                           RowsBefore(p, m))
             first == (p - 1) * PageSize
             last == Min({first + PageSize, Len(rows)})
             page == LedgerPage(a, from, to, p)
  <1>1. Len(rows) \in Nat /\ n \in Nat /\ 1 <= n /\ n <= Len(rows) /\ n - 1 \in Nat
    <2>1. Len(rows) \in Nat
      BY RowsOnce
    <2> QED
      BY <2>1
  <1>2. PageSize \in Nat \ {0}
    BY CalendarAssumption
  <1>3. q \in Nat /\ r \in 0 .. PageSize - 1 /\ n - 1 = q * PageSize + r /\ q * PageSize \in Nat
    BY <1>1, Quotient
  <1>4. page = [m \in 1 .. last - first |-> [line |-> rows[first + m], running |-> running(first + m)]]
    BY DEF LedgerPage
  <1>5. running(n) = RunningAt(a, from, to, n)
    BY DEF RowsBefore, RunningAt, RowsSigned
  <1>p. p = q + 1
    OBVIOUS
  <1> HIDE DEF rows, q, r, running, page
  <1>6. first = q * PageSize /\ first \in Nat
    <2>1. p - 1 = q
      BY <1>3, <1>p
    <2> QED
      BY <1>3, <2>1
  <1> HIDE DEF first
  <1>7. last = IF first + PageSize <= Len(rows) THEN first + PageSize ELSE Len(rows)
    BY <1>1, <1>2, <1>6, MinOfTwo
  <1> HIDE DEF last
  <1>8. /\ r + 1 \in 1 .. last - first /\ first + (r + 1) = n /\ last - first \in Nat
        /\ n = Len(rows) => last - first = r + 1
    BY <1>1, <1>2, <1>3, <1>6, <1>7
  <1>9. page[r + 1].running = running(n)
    BY <1>4, <1>8
  <1>10. Len(page) = last - first
    <2>1. page \in [1 .. last - first -> {page[m] : m \in 1 .. last - first}]
      BY <1>4
    <2> QED
      BY <1>8, <2>1, CountOf
  <1>11. /\ page[r + 1].running = RunningAt(a, from, to, n)
         /\ n = Len(rows) => Len(page) = r + 1
    BY <1>5, <1>8, <1>9, <1>10
  <1> QED
    BY <1>11 DEF page, r, rows

\* The same of the page asked for by its number.
LEMMA PageShows ==
    ASSUME IsBook, NEW a \in Accounts, NEW from, NEW to,
           NEW n \in 1 .. Len(LinesOf(a, from, to))
    PROVE  LET page == LedgerPage(a, from, to, (n - 1) \div PageSize + 1)
           IN  /\ page[((n - 1) % PageSize) + 1].running = RunningAt(a, from, to, n)
               /\ n = Len(LinesOf(a, from, to)) => Len(page) = ((n - 1) % PageSize) + 1
  BY PageShowsAt

\* Books in order make ledgers whose pages continue one another.
LEMMA LedgerFollows == BooksInOrder => LedgerContinues
  <1> SUFFICES ASSUME BooksInOrder, NEW a \in Accounts, NEW w \in Windows
               PROVE  LET rows == LinesOf(a, w[1], w[2])
                          shown(n) == LedgerPage(a, w[1], w[2], (n - 1) \div PageSize + 1)
                                          [((n - 1) % PageSize) + 1].running
                          lastPage == LedgerPage(a, w[1], w[2], PageCount(rows))
                          closing == AccountBalance(a, Window(w[1], w[2], Company, FALSE))
                      IN  /\ \A n \in DOMAIN rows :
                                shown(n) = Signed(a, rows[n])
                                             + (IF n = 1 THEN OpeningBalance(a, w[1]) ELSE shown(n - 1))
                          /\ rows # << >> =>
                                lastPage[Len(lastPage)].running =
                                   SignedBalance(Chart[a].nature, closing.closingDebit, closing.closingCredit)
    BY DEF LedgerContinues
  <1> DEFINE from == w[1]
             to == w[2]
             rows == LinesOf(a, from, to)
             N == Len(rows)
             page(n) == LedgerPage(a, from, to, (n - 1) \div PageSize + 1)
             shown(n) == page(n)[((n - 1) % PageSize) + 1].running
             lastPage == LedgerPage(a, from, to, PageCount(rows))
             closing == AccountBalance(a, Window(from, to, Company, FALSE))
             running(n) == RunningAt(a, from, to, n)
  <1>1. IsBook
    BY DEF BooksInOrder, WellBooked
  <1>2. N \in Nat /\ DOMAIN rows = 1 .. N /\ (rows # << >> => N \in 1 .. N)
    <2>1. N \in Nat /\ DOMAIN rows = 1 .. N
      BY <1>1, RowsOnce
    <2>2. rows \in [1 .. N -> RowsRead(a, from, to)]
      BY <1>1, RowsOnce
    <2>3. rows \in Seq(RowsRead(a, from, to))
      BY <2>1, <2>2, CountOf
    <2>4. N = 0 => rows = << >>
      <3> HIDE DEF rows
      <3> QED
        BY <2>3 DEF N
    <2> QED
      BY <2>1, <2>4
  <1>3. ASSUME NEW n \in 1 .. N
        PROVE  /\ shown(n) = running(n)
               /\ n = N => Len(page(n)) = ((n - 1) % PageSize) + 1
               /\ running(n) = Signed(a, rows[n]) + running(n - 1)
               /\ running(0) = OpeningBalance(a, from)
    BY <1>1, PageShows, RunningGrows
  <1>4. running(N) = SignedBalance(Chart[a].nature, closing.closingDebit, closing.closingCredit)
    BY <1>1, RunningEnds
  <1>5. ASSUME N \in 1 .. N PROVE lastPage = page(N)
    <2>1. PageSize \in Nat \ {0} /\ N - 1 \in Nat /\ N + PageSize - 1 = (N - 1) + PageSize
      BY <1>2, <1>5, CalendarAssumption
    <2> DEFINE q == (N - 1) \div PageSize
    <2>2. q \in Nat /\ (N + PageSize - 1) \div PageSize = q + 1
      BY <2>1, Quotient
    <2>3. PageCount(rows) = Max({1, (N + PageSize - 1) \div PageSize})
      BY DEF PageCount
    <2> HIDE DEF q, rows, N
    <2>4. PageCount(rows) = q + 1
      BY <2>2, <2>3, MaxOfTwo
    <2> QED
      BY <2>4 DEF q
  <1> HIDE DEF running, page, rows, N, lastPage, closing, from, to
  <1>6. ASSUME NEW n \in DOMAIN rows
        PROVE  shown(n) = Signed(a, rows[n])
                            + (IF n = 1 THEN OpeningBalance(a, from) ELSE shown(n - 1))
    <2>1. n \in 1 .. N /\ N \in Nat
      BY <1>2, <1>6
    <2>2. CASE n = 1
      <3>1. n - 1 = 0 /\ shown(n) = running(n) /\ running(n) = Signed(a, rows[n]) + running(n - 1)
            /\ running(0) = OpeningBalance(a, from)
        BY <1>3, <2>1, <2>2
      <3> HIDE DEF shown
      <3> QED
        BY <2>2, <3>1
    <2>3. CASE n # 1
      <3>1. n - 1 \in 1 .. N
        BY <2>1, <2>3
      <3>2. shown(n) = running(n) /\ running(n) = Signed(a, rows[n]) + running(n - 1)
            /\ shown(n - 1) = running(n - 1)
        BY <1>3, <2>1, <3>1
      <3> HIDE DEF shown
      <3> QED
        BY <2>3, <3>2
    <2> QED
      BY <2>2, <2>3
  <1>7. ASSUME rows # << >>
        PROVE  lastPage[Len(lastPage)].running
                 = SignedBalance(Chart[a].nature, closing.closingDebit, closing.closingCredit)
    <2>1. N \in 1 .. N
      BY <1>2, <1>7
    <2>2. lastPage = page(N) /\ Len(page(N)) = ((N - 1) % PageSize) + 1 /\ shown(N) = running(N)
      BY <1>3, <1>5, <2>1
    <2>3. lastPage[Len(lastPage)].running = shown(N)
      BY <2>2
    <2> QED
      BY <1>4, <2>2, <2>3
  <1> QED
    BY <1>6, <1>7 DEF page, rows, lastPage, closing, from, to

\* For pages of any size: every running balance an account's ledger shows continues
\* the one of the row before, across pages, and the last row of the last page stands
\* at the balance the trial balance prints for the account (getAccountLedger).
THEOREM LedgersContinue == ReportsSpec => []LedgerContinues
  BY BooksStayInOrder, LedgerFollows, PTL

----------------------------------------------------------------------------
\* Matching: the suggestions for a statement's lines.

\* A candidate pair, and the order suggestMatches takes them in.
Pair == [line : Nat, entry : Nat, confidence : {"exact", "likely", "possible"}, gap : Nat]

Ahead(c, d) ==
    \/ RANK[c.confidence] < RANK[d.confidence]
    \/ /\ RANK[c.confidence] = RANK[d.confidence]
       /\ \/ c.gap < d.gap
          \/ c.gap = d.gap /\ c.line < d.line
          \/ c.gap = d.gap /\ c.line = d.line /\ c.entry < d.entry

LEMMA RankIsNat ==
    ASSUME NEW c \in Pair
    PROVE  RANK[c.confidence] \in 0 .. 2 /\ c.gap \in Nat /\ c.line \in Nat /\ c.entry \in Nat
  BY DEF Pair, RANK

LEMMA BeforeIsAhead ==
    ASSUME NEW c \in Pair, NEW d \in Pair
    PROVE  Before(c, d) <=> Ahead(c, d)
  <1> DEFINE p == SortKey(c)
             q == SortKey(d)
  <1>1. /\ p[1] = RANK[c.confidence] /\ p[2] = c.gap /\ p[3] = c.line /\ p[4] = c.entry
        /\ q[1] = RANK[d.confidence] /\ q[2] = d.gap /\ q[3] = d.line /\ q[4] = d.entry
    BY DEF SortKey
  <1>2. Before(c, d) <=> \E i \in 1 .. 4 : p[i] < q[i] /\ \A j \in 1 .. (i - 1) : p[j] = q[j]
    BY DEF Before
  <1> HIDE DEF p, q
  <1>3. (\E i \in 1 .. 4 : p[i] < q[i] /\ \A j \in 1 .. (i - 1) : p[j] = q[j])
        <=> \/ p[1] < q[1]
            \/ p[1] = q[1] /\ p[2] < q[2]
            \/ p[1] = q[1] /\ p[2] = q[2] /\ p[3] < q[3]
            \/ p[1] = q[1] /\ p[2] = q[2] /\ p[3] = q[3] /\ p[4] < q[4]
    <2> DEFINE P(i) == p[i] < q[i] /\ \A j \in 1 .. (i - 1) : p[j] = q[j]
    <2>1. (\E i \in 1 .. 4 : P(i)) <=> (P(1) \/ P(2) \/ P(3) \/ P(4))
      <3> HIDE DEF P
      <3> QED
        BY \A i \in 1 .. 4 : i = 1 \/ i = 2 \/ i = 3 \/ i = 4
    <2>2. P(1) <=> p[1] < q[1]
      OBVIOUS
    <2>3. P(2) <=> p[1] = q[1] /\ p[2] < q[2]
      BY \A j \in 1 .. 1 : j = 1
    <2>4. P(3) <=> p[1] = q[1] /\ p[2] = q[2] /\ p[3] < q[3]
      BY \A j \in 1 .. 2 : j = 1 \/ j = 2
    <2>5. P(4) <=> p[1] = q[1] /\ p[2] = q[2] /\ p[3] = q[3] /\ p[4] < q[4]
      BY \A j \in 1 .. 3 : j = 1 \/ j = 2 \/ j = 3
    <2> QED
      BY <2>1, <2>2, <2>3, <2>4, <2>5
  <1> QED
    BY <1>1, <1>2, <1>3, RankIsNat DEF Ahead

LEMMA AheadOrders ==
    ASSUME NEW c \in Pair, NEW d \in Pair, NEW e \in Pair
    PROVE  /\ ~ (Ahead(c, d) /\ Ahead(d, c))
           /\ Ahead(c, d) /\ Ahead(d, e) => Ahead(c, e)
           /\ (c.line = d.line /\ c.entry = d.entry) \/ Ahead(c, d) \/ Ahead(d, c)
  BY RankIsNat DEF Ahead

\* What a set of naturals has: a least one.
LEMMA LeastOf ==
    ASSUME NEW Q \in SUBSET Nat, Q # {}
    PROVE  \E n \in Q : \A m \in Q : n <= m
  <1>1. PICK k \in Q : TRUE
    OBVIOUS
  <1> DEFINE R == {n \in Q : n <= k}
  <1>2. k \in R /\ k \in Nat
    BY <1>1
  <1>2a. ASSUME NEW n \in R PROVE n \in 0 .. k
    <2>1. n \in Nat /\ n <= k
      OBVIOUS
    <2> QED
      BY <1>2, <2>1
  <1>2b. R \in SUBSET (0 .. k)
    BY <1>2a
  <1>3. PICK n \in R : \A m \in R : n <= m
    BY <1>2, <1>2b, Least
  <1>4. ASSUME NEW m \in Q PROVE n <= m
    <2>1. n \in Nat /\ n <= k /\ m \in Nat /\ k \in Nat
      BY <1>2
    <2> QED
      BY <1>3, <2>1
  <1> QED
    BY <1>4

\* The first of a set of pairs that are told apart by their sides.
LEMMA FirstExists ==
    ASSUME NEW S \in SUBSET Pair, S # {},
           \A c, d \in S : c.line = d.line /\ c.entry = d.entry => c = d
    PROVE  \E c \in S : \A d \in S \ {c} : Ahead(c, d)
  <1> DEFINE S1 == {c \in S : \A d \in S : RANK[c.confidence] <= RANK[d.confidence]}
             S2 == {c \in S1 : \A d \in S1 : c.gap <= d.gap}
             S3 == {c \in S2 : \A d \in S2 : c.line <= d.line}
             S4 == {c \in S3 : \A d \in S3 : c.entry <= d.entry}
  <1>1. S1 # {}
    <2> DEFINE Q == {RANK[c.confidence] : c \in S}
    <2>1. Q \in SUBSET Nat /\ Q # {}
      BY RankIsNat
    <2>2. PICK n \in Q : \A m \in Q : n <= m
      BY <2>1, LeastOf
    <2> QED
      BY <2>2
  <1>2. S2 # {}
    <2> HIDE DEF S1
    <2> DEFINE Q == {c.gap : c \in S1}
    <2>1. Q \in SUBSET Nat /\ Q # {}
      BY <1>1, RankIsNat DEF S1
    <2>2. PICK n \in Q : \A m \in Q : n <= m
      BY <2>1, LeastOf
    <2> QED
      BY <2>2
  <1>3. S3 # {}
    <2>0. S2 \subseteq S
      OBVIOUS
    <2> HIDE DEF S2
    <2> DEFINE Q == {c.line : c \in S2}
    <2>1. Q \in SUBSET Nat /\ Q # {}
      BY <1>2, <2>0, RankIsNat
    <2>2. PICK n \in Q : \A m \in Q : n <= m
      BY <2>1, LeastOf
    <2> QED
      BY <2>2
  <1>4. S4 # {}
    <2>0. S3 \subseteq S
      OBVIOUS
    <2> HIDE DEF S3
    <2> DEFINE Q == {c.entry : c \in S3}
    <2>1. Q \in SUBSET Nat /\ Q # {}
      BY <1>3, <2>0, RankIsNat
    <2>2. PICK n \in Q : \A m \in Q : n <= m
      BY <2>1, LeastOf
    <2> QED
      BY <2>2
  <1>5. PICK c \in S4 : TRUE
    BY <1>4
  <1>6. ASSUME NEW d \in S \ {c} PROVE Ahead(c, d)
    <2>1. c \in S /\ c \in S1 /\ c \in S2 /\ c \in S3 /\ c \in Pair /\ d \in Pair
      BY <1>5
    <2>2. RANK[c.confidence] <= RANK[d.confidence]
      BY <2>1
    <2>3. CASE RANK[c.confidence] # RANK[d.confidence]
      BY <2>1, <2>2, <2>3, RankIsNat DEF Ahead
    <2>4. CASE RANK[c.confidence] = RANK[d.confidence]
      <3>1. d \in S1
        BY <2>1, <2>4
      <3>2. c.gap <= d.gap
        BY <2>1, <3>1
      <3>3. c.gap = d.gap => d \in S2
        BY <2>1, <3>1 
      <3>4. d \in S2 => c.line <= d.line
        BY <2>1
      <3>5. c.line = d.line /\ d \in S2 => d \in S3
        BY <2>1
      <3>6. d \in S3 => c.entry <= d.entry
        BY <1>5
      <3>7. ~ (c.line = d.line /\ c.entry = d.entry)
        BY <2>1
      <3> HIDE DEF S1, S2, S3, S4
      <3> QED
        BY <2>1, <2>4, <3>2, <3>3, <3>4, <3>5, <3>6, <3>7, RankIsNat DEF Ahead
    <2> QED
      BY <2>3, <2>4
  <1> QED
    BY <1>5, <1>6

LEMMA FirstIs ==
    ASSUME NEW S \in SUBSET Pair, S # {},
           \A c, d \in S : c.line = d.line /\ c.entry = d.entry => c = d
    PROVE  First(S) \in S /\ \A d \in S : d = First(S) \/ Ahead(First(S), d)
  <1>1. PICK c \in S : \A d \in S \ {c} : Ahead(c, d)
    BY FirstExists
  <1>2. \A d \in S \ {c} : Before(c, d)
    BY <1>1, BeforeIsAhead
  <1>3. First(S) \in S /\ \A d \in S \ {First(S)} : Before(First(S), d)
    BY <1>2 DEF First
  <1> QED
    BY <1>3, BeforeIsAhead

\* What a candidate is.
LEMMA DaysApartIsNat ==
    ASSUME NEW one \in Side, NEW entry \in Side
    PROVE  DaysApart(one, entry) \in Nat
  <1>1. one.day \in Nat /\ entry.day \in Nat
    BY MatchingAssumption DEF Side
  <1> QED
    BY <1>1 DEF DaysApart

LEMMA ConfidenceIs ==
    ASSUME NEW one, NEW entry
    PROVE  Confidence(one, entry) \in {"exact", "likely", "possible", "none"}
  BY DEF Confidence

LEMMA CandidateIs ==
    ASSUME NEW stated \in Seq(Side), NEW entries \in Seq(Side), NEW c \in Candidates(stated, entries)
    PROVE  /\ c \in Pair
           /\ c.line \in 1 .. Len(stated) /\ c.entry \in 1 .. Len(entries)
           /\ c.confidence = Confidence(stated[c.line], entries[c.entry])
           /\ c.gap = DaysApart(stated[c.line], entries[c.entry])
           /\ c = [line |-> c.line, entry |-> c.entry, confidence |-> c.confidence, gap |-> c.gap]
  <1>1. /\ c.line \in DOMAIN stated /\ c.entry \in DOMAIN entries
        /\ c.confidence = Confidence(stated[c.line], entries[c.entry]) /\ c.confidence # "none"
        /\ c.gap = DaysApart(stated[c.line], entries[c.entry])
        /\ c = [line |-> c.line, entry |-> c.entry, confidence |-> c.confidence, gap |-> c.gap]
    BY DEF Candidates
  <1>2. stated[c.line] \in Side /\ entries[c.entry] \in Side
    BY <1>1
  <1>3. c.confidence \in {"exact", "likely", "possible"}
    BY <1>1, ConfidenceIs
  <1>4. c.gap \in Nat
    BY <1>1, <1>2, DaysApartIsNat
  <1>5. c.line \in 1 .. Len(stated) /\ c.entry \in 1 .. Len(entries)
    BY <1>1
  <1>6. c.line \in Nat /\ c.entry \in Nat
    BY <1>5
  <1>7. c \in Pair
    BY <1>1, <1>3, <1>4, <1>6 DEF Pair
  <1> QED
    BY <1>1, <1>5, <1>7

LEMMA CandidatesApart ==
    ASSUME NEW stated \in Seq(Side), NEW entries \in Seq(Side)
    PROVE  /\ Candidates(stated, entries) \in SUBSET Pair
           /\ \A c, d \in Candidates(stated, entries) : c.line = d.line /\ c.entry = d.entry => c = d
  <1>1. Candidates(stated, entries) \in SUBSET Pair
    BY CandidateIs
  <1>2. ASSUME NEW c \in Candidates(stated, entries), NEW d \in Candidates(stated, entries),
               c.line = d.line, c.entry = d.entry
        PROVE  c = d
    <2>1. c.confidence = d.confidence /\ c.gap = d.gap
      BY <1>2, CandidateIs
    <2>2. /\ c = [line |-> c.line, entry |-> c.entry, confidence |-> c.confidence, gap |-> c.gap]
          /\ d = [line |-> d.line, entry |-> d.entry, confidence |-> d.confidence, gap |-> d.gap]
      BY CandidateIs
    <2> QED
      BY <1>2, <2>1, <2>2
  <1> QED
    BY <1>1, <1>2

\* The greedy pairing: what it may still take, and what is true of it at every step.
Shares(m, c) == m.line = c.line \/ m.entry = c.entry
Free(T, C) == {c \in C : \A m \in T : m.line # c.line /\ m.entry # c.entry}
Greedily(T, C) ==
    /\ T \in SUBSET C
    /\ \A m, n \in T : Shares(m, n) => m = n
    /\ \A c \in C : c \in Free(T, C) \/ \E m \in T : Shares(m, c) /\ (m = c \/ Ahead(m, c))
LinesIn(T) == {m.line : m \in T}
Apart(C) == \A c, d \in C : c.line = d.line /\ c.entry = d.entry => c = d
Take(T, C) == IF Free(T, C) = {} THEN T ELSE T \cup {First(Free(T, C))}

LEMMA TakeGreedily ==
    ASSUME NEW C \in SUBSET Pair, Apart(C), NEW T, Greedily(T, C), Free(T, C) # {}
    PROVE  /\ Greedily(T \cup {First(Free(T, C))}, C)
           /\ First(Free(T, C)) \in Free(T, C)
  <1> DEFINE F == Free(T, C)
             f == First(F)
             U == T \cup {f}
  <1>1. F \in SUBSET Pair /\ F \in SUBSET C /\ T \in SUBSET C
    BY DEF Free, Greedily
  <1>2. \A c, d \in F : c.line = d.line /\ c.entry = d.entry => c = d
    BY <1>1 DEF Apart
  <1>3. F # {}
    OBVIOUS
  <1>4. f \in F /\ \A d \in F : d = f \/ Ahead(f, d)
    <2> HIDE DEF F
    <2> QED
      BY <1>1, <1>2, <1>3, FirstIs
  <1> HIDE DEF f
  <1>5. \A m \in T : ~ Shares(m, f) /\ ~ Shares(f, m)
    BY <1>4 DEF Free, Shares
  <1>6. U \in SUBSET C
    BY <1>1, <1>4
  <1>7. \A m, n \in U : Shares(m, n) => m = n
    BY <1>5 DEF Greedily
  <1>8. ASSUME NEW c \in C
        PROVE  c \in Free(U, C) \/ \E m \in U : Shares(m, c) /\ (m = c \/ Ahead(m, c))
    <2>1. CASE \E m \in T : Shares(m, c) /\ (m = c \/ Ahead(m, c))
      BY <2>1
    <2>2. CASE c \in F /\ Shares(f, c)
      BY <1>4, <2>2
    <2>3. CASE c \in F /\ ~ Shares(f, c)
      <3>1. \A m \in U : m.line # c.line /\ m.entry # c.entry
        BY <2>3 DEF Free, Shares
      <3> QED
        BY <3>1 DEF Free
    <2> QED
      BY <2>1, <2>2, <2>3 DEF Greedily
  <1>9. Greedily(U, C)
    <2> HIDE DEF U, F
    <2> QED
      BY <1>6, <1>7, <1>8 DEF Greedily
  <1> QED
    BY <1>4, <1>9 DEF f

\* A step uses one line more, or nothing is left to take.
InStep(T, C, k) == Greedily(T, C) /\ (Free(T, C) = {} \/ Cardinality(LinesIn(T)) = k)

LEMMA TakeInStep ==
    ASSUME NEW C \in SUBSET Pair, Apart(C), NEW L \in Nat, \A c \in C : c.line \in 1 .. L,
           NEW k \in 1 .. L, NEW T, InStep(T, C, k - 1)
    PROVE  InStep(Take(T, C), C, k)
  <1>1. CASE Free(T, C) = {}
    BY <1>1 DEF InStep, Take
  <1>2. CASE Free(T, C) # {}
    <2> DEFINE f == First(Free(T, C))
               U == T \cup {f}
    <2>1. Greedily(U, C) /\ f \in Free(T, C)
      BY <1>2, TakeGreedily DEF InStep
    <2>2. Take(T, C) = U
      BY <1>2 DEF Take
    <2> HIDE DEF f
    <2>3. LinesIn(U) = LinesIn(T) \cup {f.line} /\ f.line \notin LinesIn(T)
      BY <2>1 DEF LinesIn, Free
    <2>4. IsFiniteSet(LinesIn(T))
      <3>1. LinesIn(T) \subseteq 1 .. L
        BY DEF LinesIn, InStep, Greedily
      <3>2. IsFiniteSet(1 .. L)
        BY FS_Interval
      <3> QED
        BY <3>1, <3>2, FS_Subset
    <2>5. Cardinality(LinesIn(T)) = k - 1
      BY <1>2 DEF InStep
    <2>6. Cardinality(LinesIn(U)) = k
      <3>1. Cardinality(LinesIn(T) \cup {f.line}) = Cardinality(LinesIn(T)) + 1
        BY <2>3, <2>4, FS_AddElement
      <3> HIDE DEF U
      <3> QED
        BY <2>3, <2>5, <3>1
    <2> QED
      BY <2>1, <2>2, <2>6 DEF InStep
  <1> QED
    BY <1>1, <1>2

LEMMA AllLinesUsed ==
    ASSUME NEW C \in SUBSET Pair, NEW L \in Nat, \A c \in C : c.line \in 1 .. L,
           NEW T, InStep(T, C, L)
    PROVE  Free(T, C) = {}
  <1>1. SUFFICES ASSUME Cardinality(LinesIn(T)) = L, T \in SUBSET C PROVE Free(T, C) = {}
    BY DEF InStep, Greedily
  <1> DEFINE all == 1 .. L
  <1>2. LinesIn(T) \subseteq all
    BY <1>1 DEF LinesIn
  <1>3. IsFiniteSet(all) /\ Cardinality(all) = L
    BY FS_Interval
  <1>4. LinesIn(T) = all
    <2> HIDE DEF all
    <2> QED
      BY <1>1, <1>2, <1>3, FS_Subset
  <1> QED
    BY <1>4 DEF LinesIn, Free

\* A run of the greedy pairing ends with nothing left to take.
LEMMA TakenByGreed ==
    ASSUME NEW C \in SUBSET Pair, Apart(C), NEW L \in Nat, \A c \in C : c.line \in 1 .. L,
           NEW g, g[0] = {}, \A n \in 1 .. L : g[n] = Take(g[n - 1], C)
    PROVE  Greedily(g[L], C) /\ Free(g[L], C) = {}
  <1> DEFINE Q == {n \in 0 .. L : ~ InStep(g[n], C, n)}
  <1>1. InStep(g[0], C, 0)
    <2>1. LinesIn({}) = {}
      BY DEF LinesIn
    <2>2. Cardinality(LinesIn({})) = 0
      BY <2>1, FS_EmptySet
    <2>3. Greedily({}, C)
      BY DEF Greedily, Free
    <2> QED
      BY <2>2, <2>3 DEF InStep
  <1>2. ASSUME Q # {} PROVE FALSE
    <2>1. PICK n \in Q : \A m \in Q : n <= m
      BY <1>2, Least
    <2>2. n \in 1 .. L /\ n - 1 \in 0 .. L
      <3>1. n \in 0 .. L /\ ~ InStep(g[n], C, n)
        BY <2>1
      <3>2. n # 0
        BY <1>1, <3>1
      <3> QED
        BY <3>1, <3>2
    <2>3. InStep(g[n - 1], C, n - 1)
      <3>1. n - 1 \notin Q
        <4> HIDE DEF Q
        <4> QED
          BY <2>1, <2>2
      <3> QED
        BY <2>2, <3>1
    <2>4. InStep(Take(g[n - 1], C), C, n)
      BY <2>2, <2>3, TakeInStep
    <2> QED
      BY <2>1, <2>2, <2>4
  <1>4. InStep(g[L], C, L)
    <2>1. L \in 0 .. L
      OBVIOUS
    <2>2. L \notin Q
      BY <1>2
    <2> QED
      BY <2>1, <2>2
  <1> QED
    BY <1>4, AllLinesUsed DEF InStep

LEMMA SuggestedByGreed ==
    ASSUME NEW stated \in Seq(Side), NEW entries \in Seq(Side)
    PROVE  /\ Greedily(SuggestMatches(stated, entries), Candidates(stated, entries))
           /\ Free(SuggestMatches(stated, entries), Candidates(stated, entries)) = {}
  <1> DEFINE C == Candidates(stated, entries)
             L == Len(stated)
             Works(g) == g = [k \in 0 .. L |-> IF k = 0 THEN {} ELSE Take(g[k - 1], C)]
             step  == [n \in 1 .. L |-> [T \in SUBSET C |-> Take(T, C)]]
             picked == CHOOSE g : Works(g)
  <1>1. C \in SUBSET Pair /\ Apart(C) /\ L \in Nat /\ \A c \in C : c.line \in 1 .. L
    BY CandidateIs, CandidatesApart DEF Apart
  <1>2. ASSUME NEW T \in SUBSET C PROVE Take(T, C) \in SUBSET C
    <2> HIDE DEF C
    <2>1. CASE Free(T, C) # {}
      <3> DEFINE F == Free(T, C)
      <3>1. F \in SUBSET Pair /\ F \in SUBSET C /\ F # {}
        BY <1>1, <2>1 DEF Free
      <3>2. \A c, d \in F : c.line = d.line /\ c.entry = d.entry => c = d
        BY <1>1, <3>1 DEF Apart
      <3> HIDE DEF F
      <3>3. First(F) \in F
        BY <3>1, <3>2, FirstIs
      <3> QED
        BY <2>1, <3>1, <3>3 DEF Take, F
    <2>2. CASE Free(T, C) = {}
      BY <2>2 DEF Take
    <2> QED
      BY <2>1, <2>2
  <1>3. SuggestMatches(stated, entries) = picked[L]
    BY DEF SuggestMatches, Take, Free
  <1> HIDE DEF C, L
  <1>4. step \in [1 .. L -> [SUBSET C -> SUBSET C]]
    BY <1>2
  <1>5. PICK g : Runs(g, L, SUBSET C, {}, step)
    <2> HIDE DEF step
    <2> QED
      BY <1>1, <1>4, StepsExist
  <1>6. g \in [0 .. L -> SUBSET C] /\ g[0] = {}
    BY <1>5 DEF Runs
  <1>7. ASSUME NEW n \in 1 .. L PROVE g[n] = Take(g[n - 1], C)
    <2>1. n - 1 \in 0 .. L
      BY <1>1
    <2>2. g[n - 1] \in SUBSET C
      BY <1>6, <2>1
    <2>3. g[n] = step[n][g[n - 1]]
      BY <1>5 DEF Runs
    <2> QED
      BY <2>2, <2>3
  <1>8. Works(picked)
    <2>1. Works(g)
      BY <1>1, <1>6, <1>7
    <2> QED
      BY <2>1
  <1> HIDE DEF picked
  <1>9a. picked[0] = {}
    <2> DEFINE f == [k \in 0 .. L |-> IF k = 0 THEN {} ELSE Take(picked[k - 1], C)]
    <2>1. 0 \in 0 .. L
      BY <1>1
    <2>2. f[0] = {}
      BY <2>1
    <2> HIDE DEF f
    <2>3. picked = f
      BY <1>8 DEF f
    <2> QED
      BY <2>2, <2>3
  <1>9. ASSUME NEW n \in 1 .. L PROVE picked[n] = Take(picked[n - 1], C)
    <2> DEFINE f == [k \in 0 .. L |-> IF k = 0 THEN {} ELSE Take(picked[k - 1], C)]
    <2>1. n \in 0 .. L /\ n # 0
      BY <1>1
    <2>2. f[n] = Take(picked[n - 1], C)
      BY <2>1
    <2> HIDE DEF f
    <2>3. picked = f
      BY <1>8 DEF f
    <2> QED
      BY <2>2, <2>3
  <1>10. Greedily(picked[L], C) /\ Free(picked[L], C) = {}
    BY <1>1, <1>9, <1>9a, TakenByGreed
  <1> QED
    BY <1>3, <1>10 DEF C

\* What the suggestions are, as a reader may cite it.
LEMMA SuggestionsCover ==
    ASSUME NEW stated \in Seq(Side), NEW entries \in Seq(Side)
    PROVE  LET M == SuggestMatches(stated, entries)
               C == Candidates(stated, entries)
           IN  /\ M \in SUBSET C
               /\ \A m, n \in M : Shares(m, n) => m = n
               /\ \A c \in C : \E m \in M : Shares(m, c) /\ (m = c \/ Ahead(m, c))
  <1> DEFINE M == SuggestMatches(stated, entries)
             C == Candidates(stated, entries)
  <1>1. Greedily(M, C) /\ Free(M, C) = {}
    BY SuggestedByGreed
  <1> HIDE DEF M, C
  <1>2. /\ M \in SUBSET C
        /\ \A m, n \in M : Shares(m, n) => m = n
        /\ \A c \in C : \E m \in M : Shares(m, c) /\ (m = c \/ Ahead(m, c))
    BY <1>1 DEF Greedily
  <1> QED
    BY <1>2 DEF M, C

LEMMA AheadIsStronger ==
    ASSUME NEW m \in Pair, NEW c \in Pair, m = c \/ Ahead(m, c)
    PROVE  AtLeastAsStrong(m, c)
  BY RankIsNat DEF Ahead, AtLeastAsStrong, Strength

LEMMA NothingStrongerLeft ==
    ASSUME statement \in Seq(Side), booked \in Seq(Side)
    PROVE  NoStrongerPairLeft
  <1> DEFINE M == SuggestMatches(statement, booked)
             C == Candidates(statement, booked)
  <1>1. /\ M \in SUBSET C /\ C \in SUBSET Pair
        /\ \A c \in C : \E m \in M : Shares(m, c) /\ (m = c \/ Ahead(m, c))
    BY SuggestionsCover, CandidatesApart
  <1> HIDE DEF M, C
  <1>2. \A c \in C : \E m \in M : (m.line = c.line \/ m.entry = c.entry) /\ AtLeastAsStrong(m, c)
    BY <1>1, AheadIsStronger DEF Shares
  <1> QED
    BY <1>2 DEF NoStrongerPairLeft, M, C

\* A book that grows by an entry keeps its candidates and gains only the entry's own.
LEMMA CandidatesBefore ==
    ASSUME NEW stated \in Seq(Side), NEW entries \in Seq(Side), entries # << >>
    PROVE  LET last == Len(entries)
               old  == SubSeq(entries, 1, last - 1)
           IN  /\ old \in Seq(Side)
               /\ \A c : c \in Candidates(stated, old) <=> c \in Candidates(stated, entries) /\ c.entry # last
  <1> DEFINE last == Len(entries)
             old  == SubSeq(entries, 1, last - 1)
  <1>1. last \in Nat \ {0}
    BY EmptySeq, LenProperties
  <1>2. /\ old \in Seq(Side) /\ Len(old) = last - 1
        /\ \A j \in 1 .. (last - 1) : old[j] = entries[j]
    <2>1. 1 \in Int /\ last - 1 \in Int /\ \A i \in 1 .. (last - 1) : entries[i] \in Side
      BY <1>1
    <2>2. /\ SubSeq(entries, 1, last - 1) \in Seq(Side)
          /\ Len(SubSeq(entries, 1, last - 1)) = IF 1 <= last - 1 THEN last - 1 - 1 + 1 ELSE 0
          /\ \A i \in 1 .. last - 1 - 1 + 1 : SubSeq(entries, 1, last - 1)[i] = entries[1 + i - 1]
      <3> HIDE DEF last
      <3> QED
        BY <2>1, SubSeqProperties
    <2> HIDE DEF old
    <2>3. /\ old \in Seq(Side)
          /\ Len(old) = IF 1 <= last - 1 THEN last - 1 - 1 + 1 ELSE 0
          /\ \A i \in 1 .. last - 1 - 1 + 1 : old[i] = entries[1 + i - 1]
      BY <2>2 DEF old
    <2> HIDE DEF last
    <2>4. Len(old) = last - 1 /\ last - 1 - 1 + 1 = last - 1
      BY <1>1, <2>3
    <2>5. ASSUME NEW j \in 1 .. (last - 1) PROVE old[j] = entries[j]
      <3>1. 1 + j - 1 = j
        OBVIOUS
      <3> QED
        BY <2>3, <2>4, <3>1
    <2> QED
      BY <2>3, <2>4, <2>5
  <1> HIDE DEF old
  <1>3. ASSUME NEW c \in Candidates(stated, old)
        PROVE  c \in Candidates(stated, entries) /\ c.entry # last
    <2>1. /\ c \in Pair
          /\ c.line \in 1 .. Len(stated) /\ c.entry \in 1 .. Len(old)
          /\ c.confidence = Confidence(stated[c.line], old[c.entry])
          /\ c.gap = DaysApart(stated[c.line], old[c.entry])
          /\ c = [line |-> c.line, entry |-> c.entry, confidence |-> c.confidence, gap |-> c.gap]
      BY <1>2, CandidateIs
    <2>2. c.entry \in 1 .. last /\ c.entry # last /\ old[c.entry] = entries[c.entry]
      BY <1>1, <1>2, <2>1
    <2>3. c.confidence # "none"
      BY <2>1 DEF Pair
    <2>4. c.line \in DOMAIN stated /\ c.entry \in DOMAIN entries
      BY <2>1, <2>2, LenProperties
    <2> QED
      BY <2>1, <2>2, <2>3, <2>4 DEF Candidates
  <1>4. ASSUME NEW c \in Candidates(stated, entries), c.entry # last
        PROVE  c \in Candidates(stated, old)
    <2>1. /\ c \in Pair
          /\ c.line \in 1 .. Len(stated) /\ c.entry \in 1 .. Len(entries)
          /\ c.confidence = Confidence(stated[c.line], entries[c.entry])
          /\ c.gap = DaysApart(stated[c.line], entries[c.entry])
          /\ c = [line |-> c.line, entry |-> c.entry, confidence |-> c.confidence, gap |-> c.gap]
      BY CandidateIs
    <2>2. c.entry \in 1 .. Len(old) /\ old[c.entry] = entries[c.entry]
      BY <1>1, <1>2, <1>4, <2>1
    <2>3. c.confidence # "none"
      BY <2>1 DEF Pair
    <2>4. c.line \in DOMAIN stated /\ c.entry \in DOMAIN old
      BY <1>2, <2>1, <2>2, LenProperties
    <2> QED
      BY <2>1, <2>2, <2>3, <2>4 DEF Candidates
  <1>5. \A c : c \in Candidates(stated, old) <=> c \in Candidates(stated, entries) /\ c.entry # last
    BY <1>3, <1>4
  <1> QED
    BY <1>2, <1>5 DEF old

\* What covers a set of pairs: one of each conflict, the stronger one.
Covers(M, C) ==
    /\ M \in SUBSET C
    /\ \A m, n \in M : Shares(m, n) => m = n
    /\ \A c \in C : \E m \in M : Shares(m, c) /\ (m = c \/ Ahead(m, c))

\* Pairs that use one entry more leave no line worse off. The first line of the
\* old pairing that were worse off lost its entry to a stronger pair, whose line
\* had been given something stronger still, and so was not worse off.
LEMMA CoverHelps ==
    ASSUME NEW C \in SUBSET Pair, Apart(C), NEW last, NEW D, \A c : c \in D <=> c \in C /\ c.entry # last,
           NEW G, Covers(G, C), NEW H, Covers(H, D)
    PROVE  \A m \in H : \E n \in G : n.line = m.line /\ (n = m \/ Ahead(n, m))
  <1> DEFINE Kept(m) == \E n \in G : n.line = m.line /\ (n = m \/ Ahead(n, m))
             S == {m \in H : ~ Kept(m)}
  <1>1. SUFFICES ASSUME S # {} PROVE FALSE
    OBVIOUS
  <1>2. H \subseteq D /\ D \subseteq C /\ G \subseteq C
    BY DEF Covers
  <1>3. S \in SUBSET Pair /\ \A c, d \in S : c.line = d.line /\ c.entry = d.entry => c = d
    BY <1>2 DEF Apart
  <1>4. PICK m \in S : \A d \in S \ {m} : Ahead(m, d)
    <2> HIDE DEF S
    <2> QED
      BY <1>1, <1>3, FirstExists
  <1>5. m \in H /\ ~ Kept(m) /\ m \in D /\ m \in C /\ m \in Pair /\ m.entry # last
    BY <1>2, <1>4
  <1>6. PICK n \in G : Shares(n, m) /\ (n = m \/ Ahead(n, m))
    BY <1>5 DEF Covers
  <1>7. n # m /\ Ahead(n, m) /\ n.entry = m.entry /\ n.line # m.line /\ n \in Pair /\ n \in D
    BY <1>2, <1>5, <1>6 DEF Shares
  <1>8. PICK p \in H : Shares(p, n) /\ (p = n \/ Ahead(p, n))
    BY <1>7 DEF Covers
  <1>9. p \in Pair
    BY <1>2
  <1>10. p.line = n.line
    <2>1. ASSUME p.entry = n.entry PROVE FALSE
      <3>1. p = m
        BY <1>5, <1>7, <2>1 DEF Covers, Shares
      <3> QED
        BY <1>5, <1>7, <1>8, <3>1, AheadOrders
    <2> QED
      BY <1>8, <2>1 DEF Shares
  <1>11. Ahead(p, m)
    BY <1>5, <1>7, <1>8, <1>9, AheadOrders
  <1>12. p \notin S
    <2> HIDE DEF S
    <2> QED
      BY <1>4, <1>5, <1>7, <1>9, <1>10, <1>11, AheadOrders
  <1>13. PICK q \in G : q.line = p.line /\ (q = p \/ Ahead(q, p))
    BY <1>12
  <1>14. q = n
    BY <1>10, <1>13 DEF Covers, Shares
  <1>15. p = n
    BY <1>7, <1>8, <1>9, <1>13, <1>14, AheadOrders
  <1> QED
    BY <1>5, <1>7, <1>15 DEF Covers, Shares

LEMMA MoreEvidenceHelps ==
    ASSUME statement \in Seq(Side), booked \in Seq(Side)
    PROVE  EvidenceOnlyHelps
  <1> SUFFICES ASSUME booked # << >>
               PROVE  LET before == SuggestMatches(statement, SubSeq(booked, 1, Len(booked) - 1))
                          now == SuggestMatches(statement, booked)
                      IN  \A m \in before : \E n \in now : n.line = m.line /\ AtLeastAsStrong(n, m)
    BY DEF EvidenceOnlyHelps
  <1> DEFINE last == Len(booked)
             old == SubSeq(booked, 1, Len(booked) - 1)
             C == Candidates(statement, booked)
             D == Candidates(statement, old)
             G == SuggestMatches(statement, booked)
             H == SuggestMatches(statement, old)
  <1>1. old \in Seq(Side) /\ \A c : c \in D <=> c \in C /\ c.entry # last
    BY CandidatesBefore
  <1> HIDE DEF old, last
  <1>2. Covers(G, C) /\ Covers(H, D)
    BY <1>1, SuggestionsCover DEF Covers
  <1>3. C \in SUBSET Pair /\ Apart(C)
    BY CandidatesApart DEF Apart
  <1> HIDE DEF C, D, G, H
  <1>4. \A m \in H : \E n \in G : n.line = m.line /\ (n = m \/ Ahead(n, m))
    BY <1>1, <1>2, <1>3, CoverHelps
  <1>5. G \subseteq Pair /\ H \subseteq Pair
    BY <1>1, <1>2, <1>3 DEF Covers
  <1>6. \A m \in H : \E n \in G : n.line = m.line /\ AtLeastAsStrong(n, m)
    BY <1>4, <1>5, AheadIsStronger
  <1> QED
    BY <1>6 DEF G, H, old

SidesOK == statement \in Seq(Side) /\ booked \in Seq(Side)

LEMMA SidesOKHolds == MatchingSpec => []SidesOK
  <1>1. MatchingInit => SidesOK
    BY DEF MatchingInit, SidesOK
  <1>2. SidesOK /\ [MatchingNext]_matchingVars => SidesOK'
    <2> SUFFICES ASSUME SidesOK, [MatchingNext]_matchingVars PROVE SidesOK'
      OBVIOUS
    <2> USE DEF SidesOK
    <2>1. ASSUME NEW side \in Side, StatementLine(side) PROVE SidesOK'
      BY <2>1, AppendProperties DEF StatementLine
    <2>2. ASSUME NEW side \in Side, BookEntry(side) PROVE SidesOK'
      BY <2>2, AppendProperties DEF BookEntry
    <2>3. CASE UNCHANGED matchingVars
      BY <2>3 DEF matchingVars
    <2> QED
      BY <2>1, <2>2, <2>3 DEF MatchingNext
  <1> QED
    BY <1>1, <1>2, PTL DEF MatchingSpec

\* Whatever stands on the statement and in the books, and as entries are booked one
\* by one: of every candidate a side is in a suggestion at least as strong, and an
\* entry more leaves no line with a weaker suggestion than it had (suggestMatches,
\* matching.ts).
THEOREM SuggestionsStrongest == MatchingSpec => []SuggestionsAreTheStrongest
  <1>1. SidesOK => SuggestionsAreTheStrongest
    BY NothingStrongerLeft, MoreEvidenceHelps DEF SidesOK, SuggestionsAreTheStrongest
  <1> QED
    BY <1>1, SidesOKHolds, PTL

----------------------------------------------------------------------------
\* Depreciation: a block of assets over the years.

\* What a year's schedule says of a block.
Schedule == [opening : Nat, disposals : Nat, live : Int, exhausted : BOOLEAN,
             depreciation : Nat, closing : Nat]

\* The inductive invariant's first part: what the register and the years are.
BlockOK ==
    /\ register \in Seq(Asset)
    /\ fiscalYear \in 1 .. LastYear
    /\ \A a \in Owned : /\ register[a].boughtIn <= fiscalYear
                        /\ register[a].sale = NoSale \/ register[a].sale.year \in 1 .. fiscalYear

LEMMA AssetIs ==
    ASSUME register \in Seq(Asset)
    PROVE  /\ Owned = 1 .. Len(register) /\ Len(register) \in Nat
           /\ \A a \in Owned : /\ register[a] \in Asset /\ Cost[a] \in Nat /\ SaleValue[a] \in Nat
                               /\ Cost[a] = register[a].cost /\ SaleValue[a] = register[a].sale.value
                               /\ register[a].boughtIn \in Nat /\ register[a].sale.year \in Nat
  <1>1. Owned = 1 .. Len(register) /\ Len(register) \in Nat
    BY DEF Owned
  <1>2. ASSUME NEW a \in Owned
        PROVE  /\ register[a] \in Asset /\ Cost[a] \in Nat /\ SaleValue[a] \in Nat
               /\ Cost[a] = register[a].cost /\ SaleValue[a] = register[a].sale.value
               /\ register[a].boughtIn \in Nat /\ register[a].sale.year \in Nat
    <2>1. register[a] \in Asset
      BY <1>1
    <2>2. register[a].cost \in Nat /\ register[a].boughtIn \in Nat /\ register[a].sale.year \in Nat
      <3>1. /\ register[a].cost \in Costs /\ register[a].boughtIn \in 1 .. LastYear
            /\ register[a].sale.year \in 0 .. LastYear
        BY <2>1 DEF Asset
      <3>2. register[a].cost \in Nat
        BY <3>1, DepreciationAssumption
      <3>3. register[a].boughtIn \in Nat /\ register[a].sale.year \in Nat
        BY <3>1
      <3> QED
        BY <3>2, <3>3
    <2>3. register[a].sale.value \in Nat
      <3>1. register[a].sale.value \in Proceeds \cup {0}
        BY <2>1 DEF Asset
      <3> QED
        BY <3>1, DepreciationAssumption
    <2>4. Cost[a] = register[a].cost /\ SaleValue[a] = register[a].sale.value
      BY DEF Cost, SaleValue
    <2> QED
      BY <2>1, <2>2, <2>3, <2>4
  <1> QED
    BY <1>1, <1>2

LEMMA OwnedFinite ==
    ASSUME register \in Seq(Asset), NEW S \in SUBSET Owned
    PROVE  IsFiniteSet(S) /\ Cardinality(S) \in Nat
  <1>1. IsFiniteSet(Owned)
    BY AssetIs, FS_Interval
  <1> QED
    BY <1>1, FS_Subset, FS_CardinalityType

LEMMA TotalIsNat ==
    ASSUME register \in Seq(Asset), NEW S \in SUBSET Owned
    PROVE  Total(S, Cost) \in Nat /\ Total(S, SaleValue) \in Nat
  BY AssetIs, OwnedFinite, SumOfNaturals DEF Total

\* What proceeds leave of the two sides of a block is what they leave of both
\* together, and no more than nothing.
LEMMA BasesIs ==
    ASSUME NEW f \in Int, NEW h \in Nat
    PROVE  LET b == Bases(f, h) IN /\ b.full \in Nat /\ b.half \in Nat
                                   /\ b.full + b.half = IF f + h >= 0 THEN f + h ELSE 0
  BY DEF Bases, Bigger

\* A share of a base, at no more than the whole, lies between nothing and the base.
LEMMA ShareIs ==
    ASSUME NEW n \in Nat, NEW r \in 0 .. 200
    PROVE  HalfPercentsOf(n, r) \in Nat /\ HalfPercentsOf(n, r) <= n
  <1> DEFINE x == n * r
  <1>1. x \in Nat /\ x <= n * 200
    OBVIOUS
  <1> HIDE DEF x
  <1>2. (x + 100) \div 200 \in Nat /\ (x + 100) \div 200 <= n
    BY <1>1
  <1> QED
    BY <1>2 DEF HalfPercentsOf, x

LEMMA DepreciationIs ==
    ASSUME NEW f \in Nat, NEW h \in Nat
    PROVE  LET d == HalfPercentsOf(f, 2 * RatePercent) + HalfPercentsOf(h, RatePercent)
           IN  d \in Nat /\ d <= f + h
  <1> DEFINE whole == 2 * RatePercent
  <1>1. RatePercent \in 0 .. 200 /\ whole \in 0 .. 200
    BY DepreciationAssumption
  <1> HIDE DEF whole
  <1>2. /\ HalfPercentsOf(f, whole) \in Nat /\ HalfPercentsOf(f, whole) <= f
        /\ HalfPercentsOf(h, RatePercent) \in Nat /\ HalfPercentsOf(h, RatePercent) <= h
    BY <1>1, ShareIs
  <1> DEFINE a == HalfPercentsOf(f, whole)
             b == HalfPercentsOf(h, RatePercent)
  <1>3. a \in Nat /\ b \in Nat /\ a <= f /\ b <= h
    BY <1>2
  <1> HIDE DEF a, b
  <1>4. a + b \in Nat /\ a + b <= f + h
    BY <1>3
  <1> QED
    BY <1>4 DEF a, b, whole

\* A year of the roll-forward: what is claimed and what is left come to what there
\* was and came in less what was sold, or to nothing.
LEMMA RollYearIs ==
    ASSUME register \in Seq(Asset), NEW s \in Schedule, NEW y \in Nat
    PROVE  LET r == RollYear(s, y)
               rest == s.closing + Total(BoughtIn(y), Cost) - Total(SoldIn(y), SaleValue)
           IN  /\ r \in Schedule
               /\ r.disposals = Total(SoldIn(y), SaleValue)
               /\ r.closing + r.depreciation = IF rest >= 0 THEN rest ELSE 0
  <1> DEFINE early == { a \in BoughtIn(y) : ~HalfRate(register[a]) }
             late == BoughtIn(y) \ early
             disposals == Total(SoldIn(y), SaleValue)
             te == Total(early, Cost)
             tl == Total(late, Cost)
             base == Bases(s.closing + te - disposals, tl)
             live == s.live + Cardinality(BoughtIn(y)) - Cardinality(SoldIn(y))
             exhausted == live <= 0 \/ base.full + base.half <= 0
             claim == HalfPercentsOf(base.full, 2 * RatePercent) + HalfPercentsOf(base.half, RatePercent)
             depreciation == IF exhausted THEN 0 ELSE claim
             r == RollYear(s, y)
  <1>1. /\ BoughtIn(y) \in SUBSET Owned /\ SoldIn(y) \in SUBSET Owned
        /\ early \in SUBSET Owned /\ late \in SUBSET Owned /\ early \in SUBSET BoughtIn(y)
    BY DEF BoughtIn, SoldIn
  <1>2. r = [opening |-> s.closing, disposals |-> disposals, live |-> live,
             exhausted |-> exhausted, depreciation |-> depreciation,
             closing |-> base.full + base.half - depreciation]
    BY DEF RollYear
  <1>3. Total(BoughtIn(y), Cost) = te + tl
    <2> HIDE DEF early
    <2>1. \A a \in BoughtIn(y) : Cost[a] \in Int
      BY <1>1, AssetIs
    <2>2. IsFiniteSet(BoughtIn(y))
      BY <1>1, OwnedFinite
    <2> QED
      BY <1>1, <2>1, <2>2, SumParts DEF Total
  <1>4. disposals \in Nat /\ te \in Nat /\ tl \in Nat
    BY <1>1, TotalIsNat
  <1>5. live \in Int /\ s.closing \in Nat
    BY <1>1, OwnedFinite DEF Schedule
  <1> HIDE DEF early, late, disposals, te, tl, live
  <1>6. /\ base.full \in Nat /\ base.half \in Nat
        /\ base.full + base.half = IF s.closing + te - disposals + tl >= 0
                                   THEN s.closing + te - disposals + tl ELSE 0
    <2> DEFINE f == s.closing + te - disposals
    <2>1. f \in Int /\ tl \in Nat
      BY <1>4, <1>5
    <2> HIDE DEF f
    <2>2. LET b == Bases(f, tl) IN /\ b.full \in Nat /\ b.half \in Nat
                                   /\ b.full + b.half = IF f + tl >= 0 THEN f + tl ELSE 0
      BY <2>1, BasesIs
    <2> QED
      BY <2>2 DEF f
  <1> HIDE DEF base
  <1>7. claim \in Nat /\ claim <= base.full + base.half
    BY <1>6, DepreciationIs
  <1> HIDE DEF claim
  <1>8. depreciation \in Nat /\ depreciation <= base.full + base.half
    BY <1>6, <1>7
  <1>9. exhausted \in BOOLEAN
    OBVIOUS
  <1> HIDE DEF depreciation, exhausted, r
  <1>10. /\ r.opening = s.closing /\ r.disposals = disposals /\ r.live = live
         /\ r.exhausted = exhausted /\ r.depreciation = depreciation
         /\ r.closing = base.full + base.half - depreciation
    BY <1>2
  <1>11. base.full + base.half - depreciation \in Nat
    BY <1>6, <1>8
  <1>12. r \in Schedule
    BY <1>2, <1>4, <1>5, <1>8, <1>9, <1>11 DEF Schedule
  <1>13. r.closing + r.depreciation = base.full + base.half
    BY <1>6, <1>8, <1>10
  <1>14. r.closing + r.depreciation = IF s.closing + Total(BoughtIn(y), Cost) - disposals >= 0
                                      THEN s.closing + Total(BoughtIn(y), Cost) - disposals ELSE 0
    BY <1>3, <1>4, <1>5, <1>6, <1>13
  <1> QED
    BY <1>10, <1>12, <1>14 DEF r, disposals

LEMMA SchedulesAre ==
    ASSUME register \in Seq(Asset), NEW N \in Nat
    PROVE  /\ Schedules(N) \in [0 .. N -> Schedule]
           /\ Schedules(N)[0] = EmptyBlock
           /\ \A y \in 1 .. N : Schedules(N)[y] = RollYear(Schedules(N)[y - 1], y)
  <1> DEFINE Works(g) == g = [y \in 0 .. N |-> IF y = 0 THEN EmptyBlock ELSE RollYear(g[y - 1], y)]
             step == [y \in 1 .. N |-> [s \in Schedule |-> RollYear(s, y)]]
             rolled == CHOOSE g : Works(g)
  <1>1. EmptyBlock \in Schedule
    BY DEF EmptyBlock, Schedule
  <1>2. \A y \in 1 .. N, s \in Schedule : RollYear(s, y) \in Schedule
    BY RollYearIs
  <1>3. Schedules(N) = rolled
    BY DEF Schedules
  <1>4. step \in [1 .. N -> [Schedule -> Schedule]]
    BY <1>2
  <1>5. PICK g : Runs(g, N, Schedule, EmptyBlock, step)
    <2> HIDE DEF step
    <2> QED
      BY <1>1, <1>4, StepsExist
  <1>6. g \in [0 .. N -> Schedule] /\ g[0] = EmptyBlock
    BY <1>5 DEF Runs
  <1>7. ASSUME NEW y \in 1 .. N PROVE g[y] = RollYear(g[y - 1], y)
    <2>1. g[y - 1] \in Schedule
      BY <1>6
    <2>2. g[y] = step[y][g[y - 1]]
      BY <1>5 DEF Runs
    <2> QED
      BY <2>1, <2>2
  <1>8. Works(rolled)
    <2>1. Works(g)
      BY <1>6, <1>7
    <2> QED
      BY <2>1
  <1> DEFINE f == [y \in 0 .. N |-> IF y = 0 THEN EmptyBlock ELSE RollYear(rolled[y - 1], y)]
  <1>9. f[0] = EmptyBlock /\ \A y \in 1 .. N : f[y] = RollYear(rolled[y - 1], y)
    OBVIOUS
  <1>10. rolled = f
    BY <1>8
  <1>11. rolled[0] = EmptyBlock /\ \A y \in 1 .. N : rolled[y] = RollYear(rolled[y - 1], y)
    <2> HIDE DEF f, rolled
    <2> QED
      BY <1>9, <1>10
  <1>12. DOMAIN rolled = 0 .. N /\ rolled = [y \in 0 .. N |-> rolled[y]]
    <2>1. DOMAIN f = 0 .. N /\ f = [y \in 0 .. N |-> f[y]]
      <3> HIDE DEF rolled
      <3> QED
        OBVIOUS
    <2> HIDE DEF f, rolled
    <2> QED
      BY <1>10, <2>1
  <1> HIDE DEF rolled
  <1>13. \A y \in 0 .. N : rolled[y] \in Schedule
    <2>1. \A y \in 1 .. N : rolled[y - 1] \in Schedule => rolled[y] \in Schedule
      BY <1>2, <1>11
    <2> QED
      BY <1>1, <1>11, <2>1, StepsStay
  <1> QED
    BY <1>3, <1>11, <1>12, <1>13

\* What had been bought, and what had been sold, by the end of a year.
BoughtBy(y) == {a \in Owned : register[a].boughtIn <= y}
SoldBy(y) == {a \in Owned : register[a].sale # NoSale /\ register[a].sale.year <= y}

LEMMA ByYear ==
    ASSUME BlockOK, NEW y \in 1 .. fiscalYear
    PROVE  /\ Total(BoughtBy(y), Cost) = Total(BoughtBy(y - 1), Cost) + Total(BoughtIn(y), Cost)
           /\ Total(SoldBy(y), SaleValue) = Total(SoldBy(y - 1), SaleValue) + Total(SoldIn(y), SaleValue)
  <1>1. register \in Seq(Asset) /\ y \in Nat
    BY DepreciationAssumption DEF BlockOK
  <1>2. \A a \in Owned : /\ register[a].boughtIn \in Nat /\ register[a].sale.year \in Nat
                         /\ Cost[a] \in Int /\ SaleValue[a] \in Int
    BY <1>1, AssetIs
  <1>3. /\ BoughtBy(y) \in SUBSET Owned /\ BoughtBy(y - 1) \in SUBSET BoughtBy(y)
        /\ BoughtBy(y) \ BoughtBy(y - 1) = BoughtIn(y)
    BY <1>1, <1>2 DEF BoughtBy, BoughtIn
  <1>4. /\ SoldBy(y) \in SUBSET Owned /\ SoldBy(y - 1) \in SUBSET SoldBy(y)
        /\ SoldBy(y) \ SoldBy(y - 1) = SoldIn(y)
    BY <1>1, <1>2 DEF SoldBy, SoldIn
  <1>5. IsFiniteSet(BoughtBy(y)) /\ IsFiniteSet(SoldBy(y))
    BY <1>1, <1>3, <1>4, OwnedFinite
  <1>6. Total(BoughtBy(y), Cost) = Total(BoughtBy(y - 1), Cost) + Total(BoughtIn(y), Cost)
    BY <1>2, <1>3, <1>5, SumParts DEF Total
  <1>7. Total(SoldBy(y), SaleValue) = Total(SoldBy(y - 1), SaleValue) + Total(SoldIn(y), SaleValue)
    BY <1>2, <1>4, <1>5, SumParts DEF Total
  <1> QED
    BY <1>6, <1>7

LEMMA ByNow ==
    ASSUME BlockOK
    PROVE  /\ Total(BoughtBy(fiscalYear), Cost) = Total(Owned, Cost)
           /\ Total(SoldBy(fiscalYear), SaleValue) = Total(Owned, SaleValue)
           /\ Total(BoughtBy(0), Cost) = 0 /\ Total(SoldBy(0), SaleValue) = 0
  <1>1. register \in Seq(Asset)
    BY DEF BlockOK
  <1>2. \A a \in Owned : /\ register[a].boughtIn \in 1 .. LastYear /\ register[a].sale.year \in Nat
                         /\ Cost[a] \in Int /\ SaleValue[a] \in Int
                         /\ SaleValue[a] = register[a].sale.value
    BY <1>1, AssetIs DEF Asset
  <1>3. BoughtBy(fiscalYear) = Owned
    BY DEF BoughtBy, BlockOK
  <1>4. BoughtBy(0) = {}
    BY <1>2 DEF BoughtBy
  <1>5. SoldBy(0) = {}
    BY <1>2 DEF SoldBy, BlockOK
  <1>6. /\ SoldBy(fiscalYear) \in SUBSET Owned
        /\ \A a \in Owned \ SoldBy(fiscalYear) : register[a].sale = NoSale
    BY DEF SoldBy, BlockOK
  <1>7. \A a \in Owned \ SoldBy(fiscalYear) : SaleValue[a] = 0
    BY <1>2, <1>6 DEF NoSale
  <1> DEFINE rest == Owned \ SoldBy(fiscalYear)
  <1>8. Total(rest, SaleValue) = 0
    <2>1. IsFiniteSet(rest)
      BY <1>1, OwnedFinite
    <2> HIDE DEF rest
    <2>2. \A a \in rest : SaleValue[a] = 0
      BY <1>7 DEF rest
    <2> QED
      BY <2>1, <2>2, SumOfNils DEF Total
  <1>9. Total(Owned, SaleValue) = Total(SoldBy(fiscalYear), SaleValue) + Total(rest, SaleValue)
    <2>1. IsFiniteSet(Owned)
      BY <1>1, OwnedFinite
    <2> QED
      BY <1>2, <1>6, <2>1, SumParts DEF Total
  <1>10. Total(SoldBy(fiscalYear), SaleValue) \in Nat
    BY <1>1, <1>6, TotalIsNat
  <1>11. Total(Owned, SaleValue) = Total(SoldBy(fiscalYear), SaleValue)
    BY <1>8, <1>9, <1>10
  <1>12. Total({}, Cost) = 0 /\ Total({}, SaleValue) = 0
    BY SumNone DEF Total
  <1> QED
    BY <1>3, <1>4, <1>5, <1>11, <1>12

\* One year's step of that account.
LEMMA YearAccounted ==
    ASSUME NEW claimed \in Int, NEW paid \in Int, NEW received \in Int, NEW before \in Nat,
           NEW bought \in Nat, NEW sold \in Nat, NEW closing \in Nat, NEW claim \in Nat,
           claimed + before >= paid - received, claimed + before <= paid,
           closing + claim = IF before + bought - sold >= 0 THEN before + bought - sold ELSE 0
    PROVE  LET accounted == claimed + claim + closing
               left == (paid + bought) - (received + sold)
           IN  /\ accounted >= left /\ accounted <= paid + bought
               /\ accounted = left \/ (sold > 0 /\ closing = 0) \/ claimed + before # paid - received
  OBVIOUS

\* Functions that add the claims, the purchases and the proceeds up, year by year.
AddedUp(N, rolled, bought, sold, paid, received, claimed) ==
    /\ rolled \in [0 .. N -> Schedule] /\ rolled[0].closing = 0
    /\ claimed[0] = 0 /\ \A y \in 1 .. N : claimed[y] = claimed[y - 1] + rolled[y].depreciation
    /\ paid[0] = 0 /\ \A y \in 1 .. N : bought[y] \in Nat /\ paid[y] = paid[y - 1] + bought[y]
    /\ received[0] = 0 /\ \A y \in 1 .. N : sold[y] \in Nat /\ received[y] = received[y - 1] + sold[y]
    /\ \A y \in 1 .. N :
          LET rest == rolled[y - 1].closing + bought[y] - sold[y]
          IN  /\ rolled[y].disposals = sold[y]
              /\ rolled[y].closing + rolled[y].depreciation = IF rest >= 0 THEN rest ELSE 0

LEMMA NothingClaimedTwiceOver ==
    ASSUME NEW N \in Nat, NEW rolled, NEW bought, NEW sold, NEW paid, NEW received, NEW claimed,
           AddedUp(N, rolled, bought, sold, paid, received, claimed)
    PROVE  LET accounted == claimed[N] + rolled[N].closing
           IN  /\ accounted >= paid[N] - received[N] /\ accounted <= paid[N]
               /\ accounted # paid[N] - received[N] =>
                     \E z \in 1 .. N : rolled[z].disposals > 0 /\ rolled[z].closing = 0
  <1> USE DEF AddedUp
  <1> DEFINE acc(y) == claimed[y] + rolled[y].closing
             dry(y) == \E z \in 1 .. y : rolled[z].disposals > 0 /\ rolled[z].closing = 0
             P(y) == /\ claimed[y] \in Int /\ paid[y] \in Int /\ received[y] \in Int
                     /\ acc(y) >= paid[y] - received[y] /\ acc(y) <= paid[y]
                     /\ acc(y) # paid[y] - received[y] => dry(y)
             Q == {y \in 0 .. N : ~ P(y)}
  <1>1. \A y \in 0 .. N : rolled[y].closing \in Nat /\ rolled[y].depreciation \in Nat
    BY DEF Schedule
  <1>2. P(0)
    OBVIOUS
  <1>3. ASSUME NEW y \in 1 .. N, P(y - 1) PROVE P(y)
    <2> DEFINE c == rolled[y - 1].closing
               rest == c + bought[y] - sold[y]
    <2>1. y - 1 \in 0 .. N /\ y \in 0 .. N
      OBVIOUS
    <2>2. /\ c \in Nat /\ bought[y] \in Nat /\ sold[y] \in Nat
          /\ rolled[y].closing \in Nat /\ rolled[y].depreciation \in Nat
          /\ rolled[y].disposals = sold[y]
          /\ rolled[y].closing + rolled[y].depreciation = IF rest >= 0 THEN rest ELSE 0
      BY <1>1, <2>1
    <2>3. /\ claimed[y] = claimed[y - 1] + rolled[y].depreciation
          /\ paid[y] = paid[y - 1] + bought[y]
          /\ received[y] = received[y - 1] + sold[y]
      OBVIOUS
    <2>4. /\ claimed[y - 1] \in Int /\ paid[y - 1] \in Int /\ received[y - 1] \in Int
          /\ claimed[y - 1] + c >= paid[y - 1] - received[y - 1] /\ claimed[y - 1] + c <= paid[y - 1]
          /\ claimed[y - 1] + c # paid[y - 1] - received[y - 1] => dry(y - 1)
      BY <1>3
    <2>5. dry(y - 1) => dry(y)
      OBVIOUS
    <2>6. /\ acc(y) = claimed[y - 1] + rolled[y].depreciation + rolled[y].closing
          /\ acc(y) >= paid[y] - received[y] /\ acc(y) <= paid[y]
          /\ \/ acc(y) = paid[y] - received[y]
             \/ rolled[y].disposals > 0 /\ rolled[y].closing = 0
             \/ claimed[y - 1] + c # paid[y - 1] - received[y - 1]
      <3> DEFINE cl == claimed[y - 1]
                 pd == paid[y - 1]
                 rc == received[y - 1]
                 b == bought[y]
                 s == sold[y]
                 left == rolled[y].closing
                 d == rolled[y].depreciation
      <3>1. /\ cl \in Int /\ pd \in Int /\ rc \in Int /\ c \in Nat /\ b \in Nat /\ s \in Nat
            /\ left \in Nat /\ d \in Nat /\ cl + c >= pd - rc /\ cl + c <= pd
            /\ left + d = IF c + b - s >= 0 THEN c + b - s ELSE 0
        BY <2>2, <2>4
      <3>2. /\ claimed[y] = cl + d /\ paid[y] = pd + b /\ received[y] = rc + s
            /\ rolled[y].disposals = s /\ acc(y) = claimed[y] + left
        BY <2>2, <2>3
      <3> HIDE DEF cl, pd, rc, b, s, left, d, c, acc
      <3>3. /\ cl + d + left >= (pd + b) - (rc + s) /\ cl + d + left <= pd + b
            /\ cl + d + left = (pd + b) - (rc + s) \/ (s > 0 /\ left = 0) \/ cl + c # pd - rc
        BY <3>1, YearAccounted
      <3>4. /\ acc(y) = cl + d + left
            /\ acc(y) >= paid[y] - received[y] /\ acc(y) <= paid[y]
            /\ acc(y) = paid[y] - received[y] \/ (rolled[y].disposals > 0 /\ left = 0) \/ cl + c # pd - rc
        BY <3>2, <3>3
      <3> QED
        BY <3>4 DEF cl, pd, rc, left, d
    <2>7. acc(y) # paid[y] - received[y] => dry(y)
      <3>1. rolled[y].disposals > 0 /\ rolled[y].closing = 0 => dry(y)
        OBVIOUS
      <3> HIDE DEF acc, dry, c
      <3> QED
        BY <2>4, <2>5, <2>6, <3>1
    <2>8. claimed[y] \in Int /\ paid[y] \in Int /\ received[y] \in Int
      <3>1. /\ claimed[y - 1] \in Int /\ paid[y - 1] \in Int /\ received[y - 1] \in Int
            /\ bought[y] \in Int /\ sold[y] \in Int /\ rolled[y].depreciation \in Int
        BY <2>2, <2>4
      <3> QED
        BY ONLY <2>3, <3>1
    <2> HIDE DEF acc, dry
    <2> QED
      BY <2>6, <2>7, <2>8
  <1> HIDE DEF P
  <1>4. ASSUME Q # {} PROVE FALSE
    <2>1. PICK y \in Q : \A z \in Q : y <= z
      BY <1>4, Least
    <2>2. y \in 1 .. N /\ y - 1 \in 0 .. N
      BY <1>2, <2>1
    <2>3. y - 1 \notin Q
      <3> HIDE DEF Q
      <3> QED
        BY <2>1, <2>2
    <2> QED
      BY <1>3, <2>1, <2>2, <2>3
  <1>5. P(N)
    BY <1>4
  <1> QED
    BY <1>5 DEF P

LEMMA NothingTwice == ASSUME BlockOK PROVE NothingClaimedTwice
  <1> DEFINE N == fiscalYear
             rolled == Schedules(N)
             Works(g) == g = [y \in 0 .. N |-> IF y = 0 THEN 0 ELSE g[y - 1] + rolled[y].depreciation]
             claimed == CHOOSE g : Works(g)
             step == [y \in 1 .. N |-> [c \in Int |-> c + rolled[y].depreciation]]
             bought == [y \in 1 .. N |-> Total(BoughtIn(y), Cost)]
             sold == [y \in 1 .. N |-> Total(SoldIn(y), SaleValue)]
             paid == [y \in 0 .. N |-> Total(BoughtBy(y), Cost)]
             received == [y \in 0 .. N |-> Total(SoldBy(y), SaleValue)]
  <1>1. N \in Nat \ {0} /\ register \in Seq(Asset)
    BY DepreciationAssumption DEF BlockOK
  <1>2. /\ rolled \in [0 .. N -> Schedule] /\ rolled[0] = EmptyBlock
        /\ \A y \in 1 .. N : rolled[y] = RollYear(rolled[y - 1], y)
    BY <1>1, SchedulesAre
  <1>3. rolled[0].closing = 0
    BY <1>2 DEF EmptyBlock
  <1>4. ASSUME NEW y \in 1 .. N
        PROVE  LET rest == rolled[y - 1].closing + bought[y] - sold[y]
               IN  /\ rolled[y].disposals = sold[y]
                   /\ rolled[y].closing + rolled[y].depreciation = IF rest >= 0 THEN rest ELSE 0
    <2> DEFINE s == rolled[y - 1]
    <2>1. s \in Schedule /\ y \in Nat
      BY <1>1, <1>2
    <2>2. rolled[y] = RollYear(s, y)
      BY <1>2
    <2>3. bought[y] = Total(BoughtIn(y), Cost) /\ sold[y] = Total(SoldIn(y), SaleValue)
      OBVIOUS
    <2> HIDE DEF s, rolled, bought, sold
    <2>4. /\ rolled[y].disposals = Total(SoldIn(y), SaleValue)
          /\ rolled[y].closing + rolled[y].depreciation
             = IF s.closing + Total(BoughtIn(y), Cost) - Total(SoldIn(y), SaleValue) >= 0
               THEN s.closing + Total(BoughtIn(y), Cost) - Total(SoldIn(y), SaleValue) ELSE 0
      BY <1>1, <2>1, <2>2, RollYearIs
    <2> QED
      BY <2>3, <2>4 DEF s
  <1>5. ASSUME NEW y \in 1 .. N
        PROVE  /\ bought[y] \in Nat /\ paid[y] = paid[y - 1] + bought[y]
               /\ sold[y] \in Nat /\ received[y] = received[y - 1] + sold[y]
    <2>1. y \in 0 .. N /\ y - 1 \in 0 .. N /\ BoughtIn(y) \in SUBSET Owned /\ SoldIn(y) \in SUBSET Owned
      BY <1>1 DEF BoughtIn, SoldIn
    <2>2. Total(BoughtIn(y), Cost) \in Nat /\ Total(SoldIn(y), SaleValue) \in Nat
      BY <1>1, <2>1, TotalIsNat
    <2>3. /\ bought[y] = Total(BoughtIn(y), Cost) /\ sold[y] = Total(SoldIn(y), SaleValue)
          /\ paid[y] = Total(BoughtBy(y), Cost) /\ received[y] = Total(SoldBy(y), SaleValue)
          /\ paid[y - 1] = Total(BoughtBy(y - 1), Cost)
          /\ received[y - 1] = Total(SoldBy(y - 1), SaleValue)
      BY <2>1
    <2>4. /\ Total(BoughtBy(y), Cost) = Total(BoughtBy(y - 1), Cost) + Total(BoughtIn(y), Cost)
          /\ Total(SoldBy(y), SaleValue) = Total(SoldBy(y - 1), SaleValue) + Total(SoldIn(y), SaleValue)
      BY ByYear
    <2> HIDE DEF bought, sold, paid, received
    <2> QED
      BY <2>2, <2>3, <2>4
  <1>6. /\ paid[0] = 0 /\ received[0] = 0
        /\ paid[N] = Total(Owned, Cost) /\ received[N] = Total(Owned, SaleValue)
    <2>1. 0 \in 0 .. N /\ N \in 0 .. N
      BY <1>1
    <2> QED
      BY <2>1, ByNow
  <1> HIDE DEF rolled, bought, sold, paid, received
  <1>7. claimed[0] = 0 /\ \A y \in 1 .. N : claimed[y] = claimed[y - 1] + rolled[y].depreciation
    <2>1. \A y \in 1 .. N : rolled[y].depreciation \in Int
      <3>1. \A y \in 1 .. N : rolled[y] \in Schedule
        BY <1>1, <1>2
      <3> QED
        BY <3>1 DEF Schedule
    <2>2. step \in [1 .. N -> [Int -> Int]]
      BY <2>1
    <2>3. PICK g : Runs(g, N, Int, 0, step)
      <3>1. N \in Nat /\ 0 \in Int
        BY <1>1
      <3> HIDE DEF step, N
      <3> QED
        BY <2>2, <3>1, StepsExist
    <2>4. g \in [0 .. N -> Int] /\ g[0] = 0
      BY <2>3 DEF Runs
    <2>5. ASSUME NEW y \in 1 .. N PROVE g[y] = g[y - 1] + rolled[y].depreciation
      <3>1. g[y - 1] \in Int
        BY <1>1, <2>4
      <3>2. g[y] = step[y][g[y - 1]]
        BY <2>3 DEF Runs
      <3> QED
        BY <3>1, <3>2
    <2>6. Works(claimed)
      <3>1. Works(g)
        BY <1>1, <2>4, <2>5
      <3> QED
        BY <3>1
    <2> DEFINE f == [y \in 0 .. N |-> IF y = 0 THEN 0 ELSE claimed[y - 1] + rolled[y].depreciation]
    <2>7. f[0] = 0 /\ \A y \in 1 .. N : f[y] = claimed[y - 1] + rolled[y].depreciation
      BY <1>1
    <2>8. claimed = f
      BY <2>6
    <2> HIDE DEF f, claimed
    <2> QED
      BY <2>7, <2>8
  <1> DEFINE accounted == claimed[N] + rolled[N].closing
  <1>8. /\ accounted >= paid[N] - received[N] /\ accounted <= paid[N]
        /\ accounted # paid[N] - received[N] =>
              \E z \in 1 .. N : rolled[z].disposals > 0 /\ rolled[z].closing = 0
    <2>1. N \in Nat /\ rolled \in [0 .. N -> Schedule]
      BY <1>1, <1>2
    <2>2. \A y \in 1 .. N : bought[y] \in Nat /\ paid[y] = paid[y - 1] + bought[y]
      BY <1>5
    <2>3. \A y \in 1 .. N : sold[y] \in Nat /\ received[y] = received[y - 1] + sold[y]
      BY <1>5
    <2>4. \A y \in 1 .. N :
             LET rest == rolled[y - 1].closing + bought[y] - sold[y]
             IN  /\ rolled[y].disposals = sold[y]
                 /\ rolled[y].closing + rolled[y].depreciation = IF rest >= 0 THEN rest ELSE 0
      BY <1>4
    <2> HIDE DEF claimed, N
    <2>5a. AddedUp(N, rolled, bought, sold, paid, received, claimed)
      BY <1>3, <1>6, <1>7, <2>1, <2>2, <2>3, <2>4 DEF AddedUp
    <2>5. LET a == claimed[N] + rolled[N].closing
          IN  /\ a >= paid[N] - received[N] /\ a <= paid[N]
              /\ a # paid[N] - received[N] =>
                     \E z \in 1 .. N : rolled[z].disposals > 0 /\ rolled[z].closing = 0
      BY <2>1, <2>5a, NothingClaimedTwiceOver
    <2> QED
      BY <2>5
  <1>9. NothingClaimedTwice <=>
          /\ accounted >= Total(Owned, Cost) - Total(Owned, SaleValue) /\ accounted <= Total(Owned, Cost)
          /\ accounted # Total(Owned, Cost) - Total(Owned, SaleValue) =>
                \E z \in 1 .. N : rolled[z].disposals > 0 /\ rolled[z].closing = 0
    BY DEF NothingClaimedTwice, rolled
  <1> HIDE DEF accounted
  <1> QED
    BY <1>6, <1>8, <1>9

\* Two runs whose steps agree as far as they have agreed agree.
LEMMA RunsAgree ==
    ASSUME NEW M \in Nat, NEW f, NEW g, f[0] = g[0],
           \A y \in 1 .. M : f[y - 1] = g[y - 1] => f[y] = g[y]
    PROVE  \A y \in 0 .. M : f[y] = g[y]
  <1> DEFINE Q == {y \in 0 .. M : f[y] # g[y]}
  <1>1. SUFFICES ASSUME Q # {} PROVE FALSE
    OBVIOUS
  <1>2. PICK y \in Q : \A z \in Q : y <= z
    BY <1>1, Least
  <1>3. y \in 1 .. M /\ y - 1 \in 0 .. M
    BY <1>2
  <1>4. y - 1 \notin Q
    <2> HIDE DEF Q
    <2> QED
      BY <1>2, <1>3
  <1> QED
    BY <1>2, <1>3, <1>4

\* A year none of whose purchases or sales changed is rolled forward as before.
LEMMA RollYearStays ==
    ASSUME register \in Seq(Asset), register' \in Seq(Asset), NEW y, NEW s,
           BoughtIn(y)' = BoughtIn(y), SoldIn(y)' = SoldIn(y),
           \A a \in BoughtIn(y) : register'[a].cost = register[a].cost /\ register'[a].day = register[a].day,
           \A a \in SoldIn(y) : register'[a].sale = register[a].sale
    PROVE  RollYear(s, y)' = RollYear(s, y)
  <1> DEFINE bought == BoughtIn(y)
             sold == SoldIn(y)
             early == { a \in bought : ~HalfRate(register[a]) }
             earlyNow == { a \in bought : ~HalfRate(register'[a]) }
             late == bought \ early
             cost == Cost
             costNow == Cost'
             value == SaleValue
             valueNow == SaleValue'
  <1>1. bought \in SUBSET Owned /\ sold \in SUBSET Owned /\ bought \in SUBSET Owned' /\ sold \in SUBSET Owned'
    BY DEF BoughtIn, SoldIn
  <1>2. earlyNow = early
    BY DEF HalfRate, DaysHeld
  <1>3. early \in SUBSET bought /\ late \in SUBSET bought
    OBVIOUS
  <1>4. ASSUME NEW a \in bought PROVE costNow[a] = cost[a]
    BY <1>1 DEF Cost
  <1>5. ASSUME NEW a \in sold PROVE valueNow[a] = value[a]
    BY <1>1 DEF SaleValue
  <1>6. IsFiniteSet(early) /\ IsFiniteSet(late) /\ IsFiniteSet(sold)
    BY <1>1, <1>3, OwnedFinite
  <1>7. RollYear(s, y) =
           LET disposals == SumFunctionOnSet(value, sold)
               base == Bases(s.closing + SumFunctionOnSet(cost, early) - disposals, SumFunctionOnSet(cost, late))
               live == s.live + Cardinality(bought) - Cardinality(sold)
               exhausted == live <= 0 \/ base.full + base.half <= 0
               depreciation == IF exhausted THEN 0
                               ELSE HalfPercentsOf(base.full, 2 * RatePercent) + HalfPercentsOf(base.half, RatePercent)
           IN  [opening |-> s.closing, disposals |-> disposals, live |-> live,
                exhausted |-> exhausted, depreciation |-> depreciation,
                closing |-> base.full + base.half - depreciation]
    BY DEF RollYear, Total
  <1>8. RollYear(s, y)' =
           LET disposals == SumFunctionOnSet(valueNow, sold)
               base == Bases(s.closing + SumFunctionOnSet(costNow, earlyNow) - disposals,
                             SumFunctionOnSet(costNow, bought \ earlyNow))
               live == s.live + Cardinality(bought) - Cardinality(sold)
               exhausted == live <= 0 \/ base.full + base.half <= 0
               depreciation == IF exhausted THEN 0
                               ELSE HalfPercentsOf(base.full, 2 * RatePercent) + HalfPercentsOf(base.half, RatePercent)
           IN  [opening |-> s.closing, disposals |-> disposals, live |-> live,
                exhausted |-> exhausted, depreciation |-> depreciation,
                closing |-> base.full + base.half - depreciation]
    BY DEF RollYear, Total, HalfRate, DaysHeld, Bases, Bigger
  <1> HIDE DEF bought, sold, cost, costNow, value, valueNow
  <1>9. /\ SumFunctionOnSet(valueNow, sold) = SumFunctionOnSet(value, sold)
        /\ SumFunctionOnSet(costNow, early) = SumFunctionOnSet(cost, early)
        /\ SumFunctionOnSet(costNow, late) = SumFunctionOnSet(cost, late)
    <2> HIDE DEF early, late
    <2> QED
      BY <1>3, <1>4, <1>5, <1>6, SumSame
  <1>10. bought \ earlyNow = late
    BY <1>2
  <1> HIDE DEF early, late, earlyNow
  <1> QED
    BY <1>2, <1>7, <1>8, <1>9, <1>10

\* The schedules after a step.
LEMMA FirstScheduleNext ==
    ASSUME NEW N \in Nat
    PROVE  (register \in Seq(Asset) => Schedules(N)[0] = EmptyBlock)'
  <1>1. register \in Seq(Asset) => Schedules(N)[0] = EmptyBlock
    BY SchedulesAre
  <1> QED
    BY <1>1, PTL

LEMMA ScheduleNext ==
    ASSUME NEW N \in Nat, NEW y \in 1 .. N, NEW s
    PROVE  (register \in Seq(Asset) /\ s = Schedules(N)[y - 1] => Schedules(N)[y] = RollYear(s, y))'
  <1>1. register \in Seq(Asset) /\ s = Schedules(N)[y - 1] => Schedules(N)[y] = RollYear(s, y)
    BY SchedulesAre
  <1> QED
    BY <1>1, PTL

\* So are the schedules of the years before this one.
LEMMA SchedulesStay ==
    ASSUME register \in Seq(Asset), register' \in Seq(Asset), NEW N \in Nat, NEW M \in 0 .. N,
           \A y \in 1 .. M : \A s : RollYear(s, y)' = RollYear(s, y)
    PROVE  \A y \in 0 .. M : Schedules(N)'[y] = Schedules(N)[y]
  <1> DEFINE f == Schedules(N)'
             g == Schedules(N)
  <1>1. g[0] = EmptyBlock /\ \A y \in 1 .. N : g[y] = RollYear(g[y - 1], y)
    BY SchedulesAre
  <1>2. f[0] = EmptyBlock'
    BY FirstScheduleNext
  <1>3. ASSUME NEW y \in 1 .. N, NEW s, s = f[y - 1] PROVE f[y] = RollYear(s, y)'
    BY <1>3, ScheduleNext
  <1>4. EmptyBlock' = EmptyBlock
    BY DEF EmptyBlock
  <1> HIDE DEF f, g
  <1>5. ASSUME NEW y \in 1 .. M, f[y - 1] = g[y - 1] PROVE f[y] = g[y]
    <2>1. y \in 1 .. N
      OBVIOUS
    <2>2. PICK s : s = g[y - 1]
      OBVIOUS
    <2>3. f[y] = RollYear(s, y)' /\ g[y] = RollYear(s, y)
      BY <1>1, <1>3, <1>5, <2>1, <2>2
    <2> QED
      BY <2>3
  <1>6. M \in Nat
    OBVIOUS
  <1>7. \A y \in 0 .. M : f[y] = g[y]
    <2>1. f[0] = g[0]
      BY <1>1, <1>2, <1>4
    <2>2. \A y \in 1 .. M : f[y - 1] = g[y - 1] => f[y] = g[y]
      BY <1>5
    <2> QED
      BY ONLY <1>6, <2>1, <2>2, RunsAgree
  <1> QED
    BY <1>7 DEF f, g

\* The invariant's second part: what was filed is what is rolled forward again.
FiledOK ==
    /\ filed \in Seq(Schedule) /\ Len(filed) = fiscalYear - 1
    /\ \A y \in 1 .. (fiscalYear - 1) : filed[y] = Schedules(fiscalYear)[y]

DepreciationInv == BlockOK /\ FiledOK

LEMMA FiledStands == ASSUME FiledOK PROVE PastSchedulesStand
  <1>1. DOMAIN filed = 1 .. (fiscalYear - 1)
    BY DEF FiledOK
  <1> QED
    BY <1>1 DEF FiledOK, PastSchedulesStand

\* A step within a year that changes only what was bought and sold in it.
LEMMA FiledKept ==
    ASSUME DepreciationInv, register' \in Seq(Asset), UNCHANGED <<fiscalYear, filed>>,
           \A y \in 1 .. (fiscalYear - 1) :
              /\ BoughtIn(y)' = BoughtIn(y) /\ SoldIn(y)' = SoldIn(y)
              /\ \A a \in BoughtIn(y) : register'[a].cost = register[a].cost /\ register'[a].day = register[a].day
              /\ \A a \in SoldIn(y) : register'[a].sale = register[a].sale
    PROVE  FiledOK'
  <1>1. register \in Seq(Asset) /\ fiscalYear \in Nat /\ fiscalYear - 1 \in 0 .. fiscalYear
    BY DepreciationAssumption DEF DepreciationInv, BlockOK
  <1>2. PICK N \in Nat : N = fiscalYear
    BY <1>1
  <1>3. N - 1 \in 0 .. N
    BY <1>1, <1>2
  <1>4. ASSUME NEW y \in 1 .. (N - 1), NEW s PROVE RollYear(s, y)' = RollYear(s, y)
    BY <1>1, <1>2, RollYearStays
  <1>5. \A y \in 0 .. (N - 1) : Schedules(N)'[y] = Schedules(N)[y]
    BY <1>1, <1>3, <1>4, SchedulesStay
  <1>6. Schedules(fiscalYear)' = Schedules(N)'
    BY <1>2 DEF Schedules
  <1>7. \A y \in 1 .. (N - 1) : filed'[y] = Schedules(fiscalYear)'[y]
    BY <1>2, <1>3, <1>5, <1>6 DEF DepreciationInv, FiledOK
  <1> QED
    BY <1>2, <1>7 DEF DepreciationInv, FiledOK

LEMMA BuyKeeps ==
    ASSUME DepreciationInv, NEW cost \in Costs, NEW day \in {LastFullDay, LastFullDay + 1}, Buy(cost, day)
    PROVE  DepreciationInv'
  <1> DEFINE asset == [cost |-> cost, boughtIn |-> fiscalYear, day |-> day, sale |-> NoSale]
             new == Len(register) + 1
  <1>1. /\ register \in Seq(Asset) /\ fiscalYear \in 1 .. LastYear /\ LastYear \in Nat
        /\ Owned = 1 .. Len(register) /\ Len(register) \in Nat
    BY DepreciationAssumption, AssetIs DEF DepreciationInv, BlockOK
  <1>2. day \in 1 .. DaysInYear
    BY DEF LastFullDay, DaysInYear, HALF_RATE_DAYS
  <1>3. asset \in Asset
    BY <1>1, <1>2 DEF Asset, NoSale
  <1>4. register' = Append(register, asset) /\ UNCHANGED <<fiscalYear, filed>>
    BY DEF Buy
  <1> HIDE DEF asset
  <1>5. /\ register' \in Seq(Asset) /\ Len(register') = new
        /\ register'[new] = asset /\ \A a \in Owned : register'[a] = register[a]
    BY <1>1, <1>3, <1>4, AppendProperties
  <1>6. Owned' = Owned \cup {new} /\ new \notin Owned
    BY <1>1, <1>5 DEF Owned
  <1>7. register'[new].boughtIn = fiscalYear /\ register'[new].sale = NoSale
    BY <1>5 DEF asset
  <1>8. BlockOK'
    <2>1. fiscalYear' \in 1 .. LastYear
      BY <1>1, <1>4
    <2>2. ASSUME NEW a \in Owned'
          PROVE  /\ register'[a].boughtIn <= fiscalYear'
                 /\ register'[a].sale = NoSale \/ register'[a].sale.year \in 1 .. fiscalYear'
      <3>1. CASE a = new
        BY <1>1, <1>4, <1>7, <3>1
      <3>2. CASE a \in Owned
        BY <1>4, <1>5, <3>2 DEF DepreciationInv, BlockOK
      <3> QED
        BY <1>6, <3>1, <3>2
    <2> QED
      BY <1>5, <2>1, <2>2 DEF BlockOK
  <1>9. ASSUME NEW y \in 1 .. (fiscalYear - 1)
        PROVE  /\ BoughtIn(y)' = BoughtIn(y) /\ SoldIn(y)' = SoldIn(y)
               /\ \A a \in BoughtIn(y) : register'[a].cost = register[a].cost /\ register'[a].day = register[a].day
               /\ \A a \in SoldIn(y) : register'[a].sale = register[a].sale
    <2>1. y # fiscalYear
      BY <1>1
    <2>2. BoughtIn(y)' = BoughtIn(y)
      BY <1>5, <1>6, <1>7, <2>1 DEF BoughtIn
    <2>3. SoldIn(y)' = SoldIn(y)
      BY <1>5, <1>6, <1>7 DEF SoldIn
    <2>4. BoughtIn(y) \subseteq Owned /\ SoldIn(y) \subseteq Owned
      BY DEF BoughtIn, SoldIn
    <2> QED
      BY <1>5, <2>2, <2>3, <2>4
  <1>10. FiledOK'
    BY <1>4, <1>5, <1>9, FiledKept
  <1> QED
    BY <1>8, <1>10 DEF DepreciationInv

LEMMA SellKeeps ==
    ASSUME DepreciationInv, NEW a \in Owned, NEW value \in Proceeds, Sell(a, value)
    PROVE  DepreciationInv'
  <1> DEFINE sale == [year |-> fiscalYear, value |-> value]
  <1>1. /\ register \in Seq(Asset) /\ fiscalYear \in 1 .. LastYear /\ LastYear \in Nat
        /\ Owned = 1 .. Len(register) /\ Len(register) \in Nat
    BY DepreciationAssumption, AssetIs DEF DepreciationInv, BlockOK
  <1>2. register[a].sale = NoSale /\ register[a] \in Asset
    BY <1>1 DEF Sell
  <1>3. register' = [register EXCEPT ![a] = [register[a] EXCEPT !.sale = sale]] /\ UNCHANGED <<fiscalYear, filed>>
    BY DEF Sell
  <1>4. sale \in [year : 0 .. LastYear, value : Proceeds \cup {0}]
    BY <1>1
  <1>4a. sale.year = fiscalYear
    OBVIOUS
  <1> HIDE DEF sale
  <1> DEFINE asset == [register[a] EXCEPT !.sale = sale]
  <1>5. asset \in Asset
    BY <1>2, <1>4 DEF Asset
  <1>6. asset.sale = sale /\ asset.cost = register[a].cost /\ asset.day = register[a].day
        /\ asset.boughtIn = register[a].boughtIn
    BY <1>2 DEF Asset
  <1> HIDE DEF asset
  <1>7. register' = [register EXCEPT ![a] = asset]
    BY <1>3 DEF asset
  <1>8. /\ register' \in Seq(Asset) /\ Owned' = Owned /\ register'[a] = asset
        /\ \A b \in Owned \ {a} : register'[b] = register[b]
    <2>1. register' \in Seq(Asset) /\ Len(register') = Len(register)
      BY <1>1, <1>5, <1>7, ExceptSeq
    <2>2. Owned' = Owned
      BY <1>7 DEF Owned
    <2> QED
      BY <1>7, <2>1, <2>2 DEF Owned
  <1>9. BlockOK'
    <2>1. fiscalYear' \in 1 .. LastYear
      BY <1>1, <1>3
    <2>2. ASSUME NEW b \in Owned'
          PROVE  /\ register'[b].boughtIn <= fiscalYear'
                 /\ register'[b].sale = NoSale \/ register'[b].sale.year \in 1 .. fiscalYear'
      <3>1. CASE b = a
        BY <1>1, <1>3, <1>4a, <1>6, <1>8, <3>1 DEF DepreciationInv, BlockOK
      <3>2. CASE b # a
        BY <1>3, <1>8, <3>2 DEF DepreciationInv, BlockOK
      <3> QED
        BY <3>1, <3>2
    <2> QED
      BY <1>8, <2>1, <2>2 DEF BlockOK
  <1>10. ASSUME NEW y \in 1 .. (fiscalYear - 1)
        PROVE  /\ BoughtIn(y)' = BoughtIn(y) /\ SoldIn(y)' = SoldIn(y)
               /\ \A b \in BoughtIn(y) : register'[b].cost = register[b].cost /\ register'[b].day = register[b].day
               /\ \A b \in SoldIn(y) : register'[b].sale = register[b].sale
    <2>1. y # fiscalYear
      BY <1>1
    <2>2. \A b \in Owned : /\ register'[b].boughtIn = register[b].boughtIn
                           /\ register'[b].cost = register[b].cost /\ register'[b].day = register[b].day
      BY <1>6, <1>8
    <2>3. BoughtIn(y)' = BoughtIn(y)
      BY <1>8, <2>2 DEF BoughtIn
    <2>4. a \notin SoldIn(y) /\ a \notin SoldIn(y)'
      BY <1>2, <1>4a, <1>6, <1>8, <2>1 DEF SoldIn
    <2>5. SoldIn(y)' = SoldIn(y)
      BY <1>8, <2>4 DEF SoldIn
    <2>6. BoughtIn(y) \subseteq Owned /\ SoldIn(y) \subseteq Owned
      BY DEF BoughtIn, SoldIn
    <2> QED
      BY <1>8, <2>2, <2>3, <2>4, <2>5, <2>6
  <1>11. FiledOK'
    BY <1>3, <1>8, <1>10, FiledKept
  <1> QED
    BY <1>9, <1>11 DEF DepreciationInv

\* A roll-forward that goes a year further goes the same way until then.
LEMMA SchedulesFurther ==
    ASSUME register \in Seq(Asset), NEW N \in Nat
    PROVE  \A y \in 0 .. N : Schedules(N + 1)[y] = Schedules(N)[y]
  <1> DEFINE f == Schedules(N + 1)
             g == Schedules(N)
  <1>1. g[0] = EmptyBlock /\ \A y \in 1 .. N : g[y] = RollYear(g[y - 1], y)
    BY SchedulesAre
  <1>2. f[0] = EmptyBlock /\ \A y \in 1 .. (N + 1) : f[y] = RollYear(f[y - 1], y)
    <2>1. N + 1 \in Nat
      OBVIOUS
    <2> QED
      BY <2>1, SchedulesAre
  <1> HIDE DEF f, g
  <1>3. ASSUME NEW y \in 1 .. N, f[y - 1] = g[y - 1] PROVE f[y] = g[y]
    <2>1. y \in 1 .. (N + 1)
      OBVIOUS
    <2> QED
      BY <1>1, <1>2, <1>3, <2>1
  <1>4. f[0] = g[0]
    BY <1>1, <1>2
  <1>5. \A y \in 0 .. N : f[y] = g[y]
    BY <1>3, <1>4, RunsAgree
  <1> QED
    BY <1>5 DEF f, g

LEMMA YearEndsKeeps ==
    ASSUME DepreciationInv, YearEnds
    PROVE  DepreciationInv'
  <1>1. /\ register \in Seq(Asset) /\ fiscalYear \in 1 .. LastYear /\ LastYear \in Nat
        /\ filed \in Seq(Schedule) /\ Len(filed) = fiscalYear - 1
    BY DepreciationAssumption DEF DepreciationInv, BlockOK, FiledOK
  <1>2. PICK N \in Nat : N = fiscalYear
    BY <1>1
  <1>3. /\ register' = register /\ fiscalYear' = N + 1 /\ fiscalYear < LastYear
        /\ filed' = Append(filed, Schedules(N)[N])
    BY <1>2 DEF YearEnds
  <1>4. BlockOK'
    <2>1. Owned' = Owned
      BY <1>3 DEF Owned
    <2>2. ASSUME NEW a \in Owned
          PROVE  register[a].boughtIn <= N + 1 /\ (register[a].sale = NoSale \/ register[a].sale.year \in 1 .. (N + 1))
      <3>1. register[a].boughtIn \in Nat
        BY <1>1, AssetIs
      <3> QED
        BY <1>2, <3>1 DEF DepreciationInv, BlockOK
    <2>3. N + 1 \in 1 .. LastYear
      BY <1>1, <1>2, <1>3
    <2> QED
      BY <1>1, <1>3, <2>1, <2>2, <2>3 DEF BlockOK
  <1>5. ASSUME NEW y, NEW s PROVE RollYear(s, y)' = RollYear(s, y)
    <2>1. BoughtIn(y)' = BoughtIn(y) /\ SoldIn(y)' = SoldIn(y)
      BY <1>3 DEF BoughtIn, SoldIn, Owned
    <2> QED
      BY <1>1, <1>3, <2>1, RollYearStays
  <1>6. \A y \in 0 .. (N + 1) : Schedules(N + 1)'[y] = Schedules(N + 1)[y]
    <2>1. N + 1 \in Nat /\ N + 1 \in 0 .. (N + 1)
      OBVIOUS
    <2> QED
      BY <1>1, <1>3, <1>5, <2>1, SchedulesStay
  <1>7. \A y \in 0 .. N : Schedules(N + 1)[y] = Schedules(N)[y]
    BY <1>1, SchedulesFurther
  <1>8. Schedules(fiscalYear)' = Schedules(N + 1)'
    BY <1>3 DEF Schedules
  <1>9. Schedules(N)[N] \in Schedule
    BY <1>1, SchedulesAre
  <1>10. /\ filed' \in Seq(Schedule) /\ Len(filed') = N
         /\ filed'[N] = Schedules(N)[N] /\ \A y \in 1 .. (N - 1) : filed'[y] = filed[y]
    BY <1>1, <1>2, <1>3, <1>9, AppendProperties
  <1>11. \A y \in 1 .. (N - 1) : filed[y] = Schedules(N)[y]
    BY <1>2 DEF DepreciationInv, FiledOK
  <1>12. ASSUME NEW y \in 1 .. N PROVE filed'[y] = Schedules(N + 1)'[y]
    <2>1. filed'[y] = Schedules(N)[y]
      BY <1>10, <1>11
    <2> QED
      BY <1>6, <1>7, <2>1
  <1>13. FiledOK'
    <2>1. fiscalYear' - 1 = N
      BY <1>3
    <2> QED
      BY <1>8, <1>10, <1>12, <2>1 DEF FiledOK
  <1> QED
    BY <1>4, <1>13 DEF DepreciationInv

\* The roll-forward's invariant, and with it each claim made once and for good.
LEMMA DepreciationInvHolds == BlockSpec => []DepreciationInv
  <1>1. BlockInit => DepreciationInv
    <2> SUFFICES ASSUME BlockInit PROVE DepreciationInv
      OBVIOUS
    <2>1. register = << >> /\ fiscalYear = 1 /\ filed = << >> /\ Owned = {}
      BY DEF BlockInit, Owned
    <2> QED
      BY <2>1, DepreciationAssumption DEF DepreciationInv, BlockOK, FiledOK
  <1>2. DepreciationInv /\ [BlockNext]_blockVars => DepreciationInv'
    <2> SUFFICES ASSUME DepreciationInv, [BlockNext]_blockVars PROVE DepreciationInv'
      OBVIOUS
    <2>1. ASSUME NEW cost \in Costs, NEW day \in {LastFullDay, LastFullDay + 1}, Buy(cost, day)
          PROVE  DepreciationInv'
      BY <2>1, BuyKeeps
    <2>2. ASSUME NEW a \in Owned, NEW value \in Proceeds, Sell(a, value) PROVE DepreciationInv'
      BY <2>2, SellKeeps
    <2>3. CASE YearEnds
      BY <2>3, YearEndsKeeps
    <2>4. CASE UNCHANGED blockVars
      <3>1. UNCHANGED <<register, fiscalYear, filed>>
        BY <2>4 DEF blockVars
      <3>2. BlockOK'
        BY <3>1 DEF DepreciationInv, BlockOK, Owned
      <3>3. FiledOK'
        <4>1. \A y : BoughtIn(y)' = BoughtIn(y) /\ SoldIn(y)' = SoldIn(y)
          BY <3>1 DEF BoughtIn, SoldIn, Owned
        <4>2. register' \in Seq(Asset)
          BY <3>1 DEF DepreciationInv, BlockOK
        <4> QED
          BY <3>1, <4>1, <4>2, FiledKept
      <3> QED
        BY <3>2, <3>3 DEF DepreciationInv
    <2> QED
      BY <2>1, <2>2, <2>3, <2>4 DEF BlockNext
  <1> QED
    BY <1>1, <1>2, PTL DEF BlockSpec

\* However a block's assets are bought, sold and scrapped over however many years:
\* no rupee of cost is claimed twice nor lost except when a sale empties the block,
\* and no later year's register changes a schedule already relied on
\* (computeDepreciation, depreciation.ts).
THEOREM ClaimsAlwaysStand == BlockSpec => []ClaimsStand
  <1>1. DepreciationInv => ClaimsStand
    BY NothingTwice, FiledStands DEF DepreciationInv, ClaimsStand
  <1> QED
    BY <1>1, DepreciationInvHolds, PTL

----------------------------------------------------------------------------
\* Income tax: slabs, rebate, surcharge and their marginal reliefs.

\* How many units of an income fall between two bounds, and the tax of the slabs
\* in hundreds of rupees: a band at 5% takes one of them from each unit.
Share(n, low, high) == IF n <= low THEN 0 ELSE IF n <= high THEN n - low ELSE high - low
Top == Unbounded \div 2000
NewHundreds(n) == Share(n, 200, 400) + 2 * Share(n, 400, 600) + 3 * Share(n, 600, 800)
                  + 4 * Share(n, 800, 1000) + 5 * Share(n, 1000, 1200) + 6 * Share(n, 1200, Top)
OldHundreds(n, exempt) == Share(n, exempt, 250) + 4 * Share(n, 250, 500) + 6 * Share(n, 500, Top)
Exempt(who) == IF who.age = "BELOW_60" THEN 125 ELSE IF who.age = "SENIOR" THEN 150 ELSE 250
BaseHundreds(who, n) == IF who.kind = "FIRM" THEN 6 * n
                        ELSE IF who.kind = "COMPANY" THEN 5 * n
                        ELSE IF who.regime = "NEW" THEN NewHundreds(n) ELSE OldHundreds(n, Exempt(who))

LEMMA TopIs == Top \in Nat /\ 1200 <= Top /\ 2000 * Top = Unbounded
  BY SMT DEF Top, Unbounded, Crore

LEMMA PercentOfUnits ==
    ASSUME NEW n \in Nat, NEW r \in Nat
    PROVE  PercentOf(2000 * n, 5 * r) = 100 * (n * r)
  <1>1. (2000 * n) \div 100 = 20 * n /\ (2000 * n) % 100 = 0
    OBVIOUS
  <1>2. (20 * n) * (5 * r) = 100 * (n * r)
    OBVIOUS
  <1>3. (0 * (5 * r)) \div 100 = 0
    OBVIOUS
  <1>4. n * r \in Int
    OBVIOUS
  <1> QED
    BY <1>1, <1>2, <1>3, <1>4 DEF PercentOf

\* A band between two bounds counted in units.
BandInUnits(n, low, high, r) == BandTax(2000 * n, 2000 * low, Band(2000 * high, 5 * r))

LEMMA BandTaxIs ==
    ASSUME NEW n \in Nat, NEW low \in Nat, NEW high \in Nat, low <= high, NEW r \in Nat
    PROVE  BandInUnits(n, low, high, r) = 100 * (Share(n, low, high) * r)
  <1>1. Greater(Lesser(2000 * n, 2000 * high) - 2000 * low, 0) = 2000 * Share(n, low, high)
    BY DEF Greater, Lesser, Share
  <1>2. Share(n, low, high) \in Nat
    BY TopIs DEF Share
  <1>3. Band(2000 * high, 5 * r).upTo = 2000 * high /\ Band(2000 * high, 5 * r).rate = 5 * r
    BY DEF Band
  <1> QED
    BY <1>1, <1>2, <1>3, PercentOfUnits DEF BandTax, BandInUnits

\* A sum over the first so many numbers, one by one.
LEMMA SumUpTo ==
    ASSUME NEW f, NEW n \in Nat, \A i \in 1 .. (n + 1) : f[i] \in Int
    PROVE  /\ SumFunctionOnSet(f, 1 .. (n + 1)) = SumFunctionOnSet(f, 1 .. n) + f[n + 1]
           /\ SumFunctionOnSet(f, 1 .. n) \in Int
  <1> DEFINE S == 1 .. (n + 1)
  <1>1. IsFiniteSet(S) /\ IsFiniteSet(1 .. n)
    BY FS_Interval
  <1>2. n + 1 \in S /\ S \ {n + 1} = 1 .. n
    OBVIOUS
  <1>3. \A x \in S : f[x] \in Int
    OBVIOUS
  <1> HIDE DEF S
  <1>4. SumFunctionOnSet(f, S) = f[n + 1] + SumFunctionOnSet(f, S \ {n + 1})
    BY <1>1, <1>2, <1>3, SumWithout
  <1>5. SumFunctionOnSet(f, 1 .. n) \in Int
    <2>1. \A x \in 1 .. n : f[x] \in Int
      OBVIOUS
    <2> QED
      BY <1>1, <2>1, SumInt
  <1>6. f[n + 1] \in Int
    OBVIOUS
  <1>7. SumFunctionOnSet(f, S) = SumFunctionOnSet(f, 1 .. n) + f[n + 1]
    <2> DEFINE x == f[n + 1]
               rest == SumFunctionOnSet(f, 1 .. n)
    <2>1. SumFunctionOnSet(f, S) = x + rest
      BY <1>2, <1>4
    <2>2. x \in Int /\ rest \in Int
      BY <1>5, <1>6
    <2> HIDE DEF x, rest, S
    <2>3. x + rest = rest + x
      BY <2>2
    <2>4. SumFunctionOnSet(f, S) = rest + x
      BY <2>1, <2>3
    <2> QED
      BY <2>4 DEF x, rest
  <1> QED
    BY <1>5, <1>7 DEF S

LEMMA SumOfThree ==
    ASSUME NEW f, \A i \in 1 .. 3 : f[i] \in Int
    PROVE  SumFunctionOnSet(f, 1 .. 3) = f[1] + f[2] + f[3]
  <1>1. SumFunctionOnSet(f, 1 .. 0) = 0
    <2>1. 1 .. 0 = {}
      OBVIOUS
    <2> QED
      BY <2>1, SumNone
  <1>2. SumFunctionOnSet(f, 1 .. (0 + 1)) = SumFunctionOnSet(f, 1 .. 0) + f[0 + 1]
    <2>1. 0 \in Nat /\ \A i \in 1 .. (0 + 1) : f[i] \in Int
      OBVIOUS
    <2> QED
      BY <2>1, SumUpTo
  <1>3. SumFunctionOnSet(f, 1 .. (1 + 1)) = SumFunctionOnSet(f, 1 .. 1) + f[1 + 1]
    <2>1. 1 \in Nat /\ \A i \in 1 .. (1 + 1) : f[i] \in Int
      OBVIOUS
    <2> QED
      BY <2>1, SumUpTo
  <1>4. SumFunctionOnSet(f, 1 .. (2 + 1)) = SumFunctionOnSet(f, 1 .. 2) + f[2 + 1]
    <2>1. 2 \in Nat /\ \A i \in 1 .. (2 + 1) : f[i] \in Int
      OBVIOUS
    <2> QED
      BY <2>1, SumUpTo
  <1>5. f[1] \in Int /\ f[2] \in Int /\ f[3] \in Int /\ 0 + 1 = 1 /\ 1 + 1 = 2 /\ 2 + 1 = 3
    OBVIOUS
  <1> QED
    BY ONLY <1>1, <1>2, <1>3, <1>4, <1>5

LEMMA SumOfFour ==
    ASSUME NEW f, \A i \in 1 .. 4 : f[i] \in Int
    PROVE  SumFunctionOnSet(f, 1 .. 4) = f[1] + f[2] + f[3] + f[4]
  <1>1. SumFunctionOnSet(f, 1 .. (3 + 1)) = SumFunctionOnSet(f, 1 .. 3) + f[3 + 1]
    <2>1. 3 \in Nat /\ \A i \in 1 .. (3 + 1) : f[i] \in Int
      OBVIOUS
    <2> QED
      BY <2>1, SumUpTo
  <1>2. SumFunctionOnSet(f, 1 .. 3) = f[1] + f[2] + f[3]
    <2>1. \A i \in 1 .. 3 : f[i] \in Int
      OBVIOUS
    <2> QED
      BY <2>1, SumOfThree
  <1>3. f[1] \in Int /\ f[2] \in Int /\ f[3] \in Int /\ f[4] \in Int /\ 3 + 1 = 4
    OBVIOUS
  <1> QED
    BY ONLY <1>1, <1>2, <1>3

LEMMA SumOfSeven ==
    ASSUME NEW f, \A i \in 1 .. 7 : f[i] \in Int
    PROVE  SumFunctionOnSet(f, 1 .. 7) = f[1] + f[2] + f[3] + f[4] + f[5] + f[6] + f[7]
  <1>1. SumFunctionOnSet(f, 1 .. 4) = f[1] + f[2] + f[3] + f[4]
    <2>1. \A i \in 1 .. 4 : f[i] \in Int
      OBVIOUS
    <2> QED
      BY <2>1, SumOfFour
  <1>2. SumFunctionOnSet(f, 1 .. (4 + 1)) = SumFunctionOnSet(f, 1 .. 4) + f[4 + 1]
    <2>1. 4 \in Nat /\ \A i \in 1 .. (4 + 1) : f[i] \in Int
      OBVIOUS
    <2> QED
      BY <2>1, SumUpTo
  <1>3. SumFunctionOnSet(f, 1 .. (5 + 1)) = SumFunctionOnSet(f, 1 .. 5) + f[5 + 1]
    <2>1. 5 \in Nat /\ \A i \in 1 .. (5 + 1) : f[i] \in Int
      OBVIOUS
    <2> QED
      BY <2>1, SumUpTo
  <1>4. SumFunctionOnSet(f, 1 .. (6 + 1)) = SumFunctionOnSet(f, 1 .. 6) + f[6 + 1]
    <2>1. 6 \in Nat /\ \A i \in 1 .. (6 + 1) : f[i] \in Int
      OBVIOUS
    <2> QED
      BY <2>1, SumUpTo
  <1>5. /\ f[1] \in Int /\ f[2] \in Int /\ f[3] \in Int /\ f[4] \in Int /\ f[5] \in Int
        /\ f[6] \in Int /\ f[7] \in Int /\ 4 + 1 = 5 /\ 5 + 1 = 6 /\ 6 + 1 = 7
    OBVIOUS
  <1> QED
    BY ONLY <1>1, <1>2, <1>3, <1>4, <1>5

\* What a band takes, as the function the slabs are added up by.
BandTaxes(slabs, amount) ==
    [i \in DOMAIN slabs |-> BandTax(amount, IF i = 1 THEN 0 ELSE slabs[i - 1].upTo, slabs[i])]

LEMMA SlabTaxIs ==
    ASSUME NEW who, NEW amount
    PROVE  SlabTax(who, amount) = SumFunctionOnSet(BandTaxes(Slabs(who), amount), DOMAIN Slabs(who))
  BY DEF SlabTax, BandTaxes

LEMMA NewSlabTax ==
    ASSUME NEW n \in Nat
    PROVE  SumFunctionOnSet(BandTaxes(NewSlabs, 2000 * n), DOMAIN NewSlabs) = 100 * NewHundreds(n)
  <1> DEFINE s == NewSlabs
             f == BandTaxes(s, 2000 * n)
  <1>1. /\ DOMAIN s = 1 .. 7
        /\ s[1] = Band(2000 * 200, 5 * 0) /\ s[2] = Band(2000 * 400, 5 * 1) /\ s[3] = Band(2000 * 600, 5 * 2)
        /\ s[4] = Band(2000 * 800, 5 * 3) /\ s[5] = Band(2000 * 1000, 5 * 4)
        /\ s[6] = Band(2000 * 1200, 5 * 5) /\ s[7] = Band(2000 * Top, 5 * 6)
    BY TopIs, SMT DEF NewSlabs, Lakh
  <1>2. /\ s[1].upTo = 2000 * 200 /\ s[2].upTo = 2000 * 400 /\ s[3].upTo = 2000 * 600
        /\ s[4].upTo = 2000 * 800 /\ s[5].upTo = 2000 * 1000 /\ s[6].upTo = 2000 * 1200
    BY <1>1 DEF Band
  <1> HIDE DEF s
  <1>3. /\ f[1] = BandInUnits(n, 0, 200, 0)
        /\ f[2] = BandInUnits(n, 200, 400, 1)
        /\ f[3] = BandInUnits(n, 400, 600, 2)
        /\ f[4] = BandInUnits(n, 600, 800, 3)
        /\ f[5] = BandInUnits(n, 800, 1000, 4)
        /\ f[6] = BandInUnits(n, 1000, 1200, 5)
        /\ f[7] = BandInUnits(n, 1200, Top, 6)
    BY <1>1, <1>2 DEF BandTaxes, BandInUnits
  <1> HIDE DEF f
  <1>4. /\ f[1] = 100 * (Share(n, 0, 200) * 0) /\ f[2] = 100 * (Share(n, 200, 400) * 1)
        /\ f[3] = 100 * (Share(n, 400, 600) * 2) /\ f[4] = 100 * (Share(n, 600, 800) * 3)
    BY <1>3, TopIs, BandTaxIs
  <1>5. /\ f[5] = 100 * (Share(n, 800, 1000) * 4) /\ f[6] = 100 * (Share(n, 1000, 1200) * 5)
        /\ f[7] = 100 * (Share(n, 1200, Top) * 6)
    BY <1>3, TopIs, BandTaxIs
  <1>6. /\ Share(n, 0, 200) \in Nat /\ Share(n, 200, 400) \in Nat /\ Share(n, 400, 600) \in Nat
        /\ Share(n, 600, 800) \in Nat /\ Share(n, 800, 1000) \in Nat /\ Share(n, 1000, 1200) \in Nat
        /\ Share(n, 1200, Top) \in Nat
    BY TopIs DEF Share
  <1>7. /\ f[1] \in Int /\ f[2] \in Int /\ f[3] \in Int /\ f[4] \in Int /\ f[5] \in Int
        /\ f[6] \in Int /\ f[7] \in Int
    BY ONLY <1>4, <1>5, <1>6
  <1>8. \A i \in 1 .. 7 : f[i] \in Int
    <2>1. \A i \in 1 .. 7 : i = 1 \/ i = 2 \/ i = 3 \/ i = 4 \/ i = 5 \/ i = 6 \/ i = 7
      OBVIOUS
    <2> QED
      BY <1>7, <2>1
  <1>9. SumFunctionOnSet(f, 1 .. 7) = f[1] + f[2] + f[3] + f[4] + f[5] + f[6] + f[7]
    BY <1>8, SumOfSeven
  <1>10. SumFunctionOnSet(f, 1 .. 7) = 100 * NewHundreds(n)
    BY ONLY <1>4, <1>5, <1>6, <1>9 DEF NewHundreds
  <1> QED
    BY <1>1, <1>10 DEF f, s

LEMMA OldSlabTax ==
    ASSUME NEW n \in Nat, NEW e \in {125, 150}
    PROVE  LET s == OldSlabs(2000 * e)
           IN  SumFunctionOnSet(BandTaxes(s, 2000 * n), DOMAIN s) = 100 * OldHundreds(n, e)
  <1> DEFINE s == OldSlabs(2000 * e)
             f == BandTaxes(s, 2000 * n)
  <1>1. /\ DOMAIN s = 1 .. 4
        /\ s[1] = Band(2000 * e, 5 * 0) /\ s[2] = Band(2000 * 250, 5 * 1)
        /\ s[3] = Band(2000 * 500, 5 * 4) /\ s[4] = Band(2000 * Top, 5 * 6)
    <2>1. 2000 * e # 5 * Lakh
      BY DEF Lakh
    <2>2. s = << Band(2000 * e, 0), Band(5 * Lakh, 5), Band(10 * Lakh, 20), Band(Unbounded, 30) >>
      BY <2>1 DEF OldSlabs
    <2> QED
      BY <2>2, TopIs, SMT DEF Lakh
  <1>2. s[1].upTo = 2000 * e /\ s[2].upTo = 2000 * 250 /\ s[3].upTo = 2000 * 500
    BY <1>1 DEF Band
  <1> HIDE DEF s
  <1>3. /\ f[1] = BandInUnits(n, 0, e, 0)
        /\ f[2] = BandInUnits(n, e, 250, 1)
        /\ f[3] = BandInUnits(n, 250, 500, 4)
        /\ f[4] = BandInUnits(n, 500, Top, 6)
    BY <1>1, <1>2 DEF BandTaxes, BandInUnits
  <1> HIDE DEF f
  <1>4. /\ f[1] = 100 * (Share(n, 0, e) * 0) /\ f[2] = 100 * (Share(n, e, 250) * 1)
        /\ f[3] = 100 * (Share(n, 250, 500) * 4) /\ f[4] = 100 * (Share(n, 500, Top) * 6)
    <2>1. e \in Nat /\ e <= 250
      OBVIOUS
    <2> QED
      BY <1>3, <2>1, TopIs, BandTaxIs
  <1>5. /\ Share(n, 0, e) \in Nat /\ Share(n, e, 250) \in Nat /\ Share(n, 250, 500) \in Nat
        /\ Share(n, 500, Top) \in Nat
    BY TopIs DEF Share
  <1>6. f[1] \in Int /\ f[2] \in Int /\ f[3] \in Int /\ f[4] \in Int
    BY ONLY <1>4, <1>5
  <1>7. \A i \in 1 .. 4 : f[i] \in Int
    <2>1. \A i \in 1 .. 4 : i = 1 \/ i = 2 \/ i = 3 \/ i = 4
      OBVIOUS
    <2> QED
      BY <1>6, <2>1
  <1>8. SumFunctionOnSet(f, 1 .. 4) = f[1] + f[2] + f[3] + f[4]
    BY <1>7, SumOfFour
  <1>9. SumFunctionOnSet(f, 1 .. 4) = 100 * OldHundreds(n, e)
    BY ONLY <1>4, <1>5, <1>8 DEF OldHundreds
  <1> QED
    BY <1>1, <1>9 DEF f, s

LEMMA OldestSlabTax ==
    ASSUME NEW n \in Nat
    PROVE  LET s == OldSlabs(2000 * 250)
           IN  SumFunctionOnSet(BandTaxes(s, 2000 * n), DOMAIN s) = 100 * OldHundreds(n, 250)
  <1> DEFINE s == OldSlabs(2000 * 250)
             f == BandTaxes(s, 2000 * n)
  <1>1. /\ DOMAIN s = 1 .. 3
        /\ s[1] = Band(2000 * 250, 5 * 0) /\ s[2] = Band(2000 * 500, 5 * 4)
        /\ s[3] = Band(2000 * Top, 5 * 6)
    <2>1. 2000 * 250 = 5 * Lakh
      BY DEF Lakh
    <2>2. s = << Band(5 * Lakh, 0), Band(10 * Lakh, 20), Band(Unbounded, 30) >>
      BY <2>1 DEF OldSlabs
    <2> QED
      BY <2>2, TopIs, SMT DEF Lakh
  <1>2. s[1].upTo = 2000 * 250 /\ s[2].upTo = 2000 * 500
    BY <1>1 DEF Band
  <1> HIDE DEF s
  <1>3. /\ f[1] = BandInUnits(n, 0, 250, 0)
        /\ f[2] = BandInUnits(n, 250, 500, 4)
        /\ f[3] = BandInUnits(n, 500, Top, 6)
    BY <1>1, <1>2 DEF BandTaxes, BandInUnits
  <1> HIDE DEF f
  <1>4. /\ f[1] = 100 * (Share(n, 0, 250) * 0) /\ f[2] = 100 * (Share(n, 250, 500) * 4)
        /\ f[3] = 100 * (Share(n, 500, Top) * 6)
    BY <1>3, TopIs, BandTaxIs
  <1>5. /\ Share(n, 0, 250) \in Nat /\ Share(n, 250, 500) \in Nat /\ Share(n, 500, Top) \in Nat
        /\ Share(n, 250, 250) = 0
    BY TopIs DEF Share
  <1>6. f[1] \in Int /\ f[2] \in Int /\ f[3] \in Int
    BY ONLY <1>4, <1>5
  <1>7. \A i \in 1 .. 3 : f[i] \in Int
    <2>1. \A i \in 1 .. 3 : i = 1 \/ i = 2 \/ i = 3
      OBVIOUS
    <2> QED
      BY <1>6, <2>1
  <1>8. SumFunctionOnSet(f, 1 .. 3) = f[1] + f[2] + f[3]
    BY <1>7, SumOfThree
  <1>9. SumFunctionOnSet(f, 1 .. 3) = 100 * OldHundreds(n, 250)
    BY ONLY <1>4, <1>5, <1>8 DEF OldHundreds
  <1> QED
    BY <1>1, <1>9 DEF f, s

\* Tax before rebate, surcharge and cess, in hundreds of rupees.
LEMMA BaseTaxIs ==
    ASSUME NEW who \in Assessees, NEW n \in Nat
    PROVE  BaseTax(who, 2000 * n) = 100 * BaseHundreds(who, n)
  <1>1. CASE who.kind = "FIRM"
    <2>1. PercentOf(2000 * n, 5 * 6) = 100 * (n * 6)
      <3> DEFINE rate == 6
      <3>1. rate \in Nat
        OBVIOUS
      <3> HIDE DEF rate
      <3>2. PercentOf(2000 * n, 5 * rate) = 100 * (n * rate)
        BY <3>1, PercentOfUnits
      <3> QED
        BY <3>2 DEF rate
    <2> QED
      BY <1>1, <2>1 DEF BaseTax, BaseHundreds
  <1>2. CASE who.kind = "COMPANY"
    <2>1. PercentOf(2000 * n, 5 * 5) = 100 * (n * 5)
      <3> DEFINE rate == 5
      <3>1. rate \in Nat
        OBVIOUS
      <3> HIDE DEF rate
      <3>2. PercentOf(2000 * n, 5 * rate) = 100 * (n * rate)
        BY <3>1, PercentOfUnits
      <3> QED
        BY <3>2 DEF rate
    <2> QED
      BY <1>2, <2>1 DEF BaseTax, BaseHundreds
  <1>3. CASE who.kind \in {"INDIVIDUAL", "HUF"}
    <2>1. BaseTax(who, 2000 * n) = SlabTax(who, 2000 * n)
      BY <1>3 DEF BaseTax
    <2>2. CASE who.regime = "NEW"
      <3>1. Slabs(who) = NewSlabs
        BY <2>2 DEF Slabs
      <3>2. SlabTax(who, 2000 * n) = 100 * NewHundreds(n)
        BY <3>1, SlabTaxIs, NewSlabTax
      <3> QED
        BY <1>3, <2>1, <2>2, <3>2 DEF BaseHundreds
    <2>3. CASE who.regime # "NEW"
      <3>1. who.age \in {"BELOW_60", "SENIOR", "SUPER_SENIOR"}
        BY DEF Assessees
      <3>2. Slabs(who) = OldSlabs(2000 * Exempt(who)) /\ Exempt(who) \in {125, 150, 250}
        BY <2>3, <3>1 DEF Slabs, Exempt, Exemption, Lakh
      <3>3. SlabTax(who, 2000 * n) = 100 * OldHundreds(n, Exempt(who))
        BY <3>2, SlabTaxIs, OldSlabTax, OldestSlabTax
      <3> QED
        BY <1>3, <2>1, <2>3, <3>3 DEF BaseHundreds
    <2> QED
      BY <2>2, <2>3
  <1> QED
    BY <1>1, <1>2, <1>3 DEF Assessees

\* Another unit of income is taxed at no more than 30%, and never below nothing.
LEMMA NewRises ==
    ASSUME NEW n \in Nat, NEW m \in Nat, n <= m
    PROVE  /\ NewHundreds(n) \in Nat /\ NewHundreds(n) <= NewHundreds(m)
           /\ NewHundreds(m) <= NewHundreds(n) + 6 * (m - n)
  <1>1. NewHundreds(n) \in Nat /\ NewHundreds(n) <= NewHundreds(m)
    BY TopIs DEF NewHundreds, Share
  <1>2. NewHundreds(m) <= NewHundreds(n) + 6 * (m - n)
    BY TopIs DEF NewHundreds, Share
  <1> QED
    BY <1>1, <1>2

IsExemption(e) == e \in {125, 150, 250}
LEMMA OldRises ==
    ASSUME NEW n \in Nat, NEW m \in Nat, n <= m, NEW e, IsExemption(e)
    PROVE  /\ OldHundreds(n, e) \in Nat /\ OldHundreds(n, e) <= OldHundreds(m, e)
           /\ OldHundreds(m, e) <= OldHundreds(n, e) + 6 * (m - n)
  BY TopIs DEF OldHundreds, Share, IsExemption

LEMMA BaseRises ==
    ASSUME NEW who \in Assessees, NEW n \in Nat, NEW m \in Nat, n <= m
    PROVE  /\ BaseHundreds(who, n) \in Nat /\ BaseHundreds(who, n) <= BaseHundreds(who, m)
           /\ BaseHundreds(who, m) <= BaseHundreds(who, n) + 6 * (m - n)
  <1>1. Exempt(who) \in {125, 150, 250}
    BY DEF Exempt
  <1>2. /\ 6 * n \in Nat /\ 6 * n <= 6 * m /\ 6 * m <= 6 * n + 6 * (m - n)
        /\ 5 * n \in Nat /\ 5 * n <= 5 * m /\ 5 * m <= 5 * n + 6 * (m - n)
    OBVIOUS
  <1>3. CASE who.kind = "FIRM"
    <2>1. BaseHundreds(who, n) = 6 * n /\ BaseHundreds(who, m) = 6 * m
      BY <1>3 DEF BaseHundreds
    <2> QED
      BY <1>2, <2>1
  <1>4. CASE who.kind = "COMPANY"
    <2>1. BaseHundreds(who, n) = 5 * n /\ BaseHundreds(who, m) = 5 * m
      BY <1>4 DEF BaseHundreds
    <2> QED
      BY <1>2, <2>1
  <1>5. CASE who.kind \notin {"FIRM", "COMPANY"} /\ who.regime = "NEW"
    <2>1. BaseHundreds(who, n) = NewHundreds(n) /\ BaseHundreds(who, m) = NewHundreds(m)
      BY <1>5 DEF BaseHundreds
    <2> QED
      BY <2>1, NewRises
  <1>6. CASE who.kind \notin {"FIRM", "COMPANY"} /\ who.regime # "NEW"
    <2> DEFINE e == Exempt(who)
    <2>1. BaseHundreds(who, n) = OldHundreds(n, e) /\ BaseHundreds(who, m) = OldHundreds(m, e)
      BY <1>6 DEF BaseHundreds
    <2> HIDE DEF e
    <2>2. /\ OldHundreds(n, e) \in Nat /\ OldHundreds(n, e) <= OldHundreds(m, e)
          /\ OldHundreds(m, e) <= OldHundreds(n, e) + 6 * (m - n)
      <3>1. IsExemption(e)
        BY <1>1 DEF IsExemption, e
      <3> QED
        BY <3>1, OldRises
    <2> QED
      BY <2>1, <2>2
  <1> QED
    BY <1>3, <1>4, <1>5, <1>6

\* Tax after rebate, in hundreds of rupees: nothing up to twelve lakh (in the old
\* regime five), and then no more than what is earned above it.
RebatedHundreds(who, n) ==
    IF who.kind # "INDIVIDUAL" THEN BaseHundreds(who, n)
    ELSE IF who.regime = "NEW"
         THEN IF n <= 600 THEN 0
              ELSE IF BaseHundreds(who, n) <= 20 * (n - 600) THEN BaseHundreds(who, n) ELSE 20 * (n - 600)
         ELSE IF n <= 250 THEN 0 ELSE BaseHundreds(who, n)

\* The step the law does not cushion.
Jumps(who, n, m) == who.kind = "INDIVIDUAL" /\ who.regime = "OLD" /\ n <= 250 /\ m > 250

LEMMA TaxAfterRebateIs ==
    ASSUME NEW who \in Assessees, NEW n \in Nat
    PROVE  TaxAfterRebate(who, 2000 * n) = 100 * RebatedHundreds(who, n)
  <1> DEFINE b == BaseHundreds(who, n)
             amount == 2000 * n
             tax == BaseTax(who, amount)
  <1>1. b \in Nat /\ tax = 100 * b
    BY BaseTaxIs, BaseRises
  <1>2. TaxAfterRebate(who, amount) = tax - Rebate(who, amount, tax)
    BY DEF TaxAfterRebate
  <1>3. CASE who.kind # "INDIVIDUAL"
    <2>1. Rebate(who, amount, tax) = 0
      BY <1>3 DEF Rebate
    <2> HIDE DEF b, tax, amount
    <2>2. TaxAfterRebate(who, amount) = 100 * b
      BY <1>1, <1>2, <2>1
    <2> QED
      BY <1>3, <2>2 DEF RebatedHundreds, b, amount
  <1>4. CASE who.kind = "INDIVIDUAL" /\ who.regime = "NEW"
    <2>1. RebateRule(who) = [upTo |-> 1200000, most |-> 60000, relief |-> TRUE]
      BY <1>4 DEF RebateRule, Lakh
    <2>2. b = NewHundreds(n)
      BY <1>4 DEF BaseHundreds
    <2>3. n <= 600 => b <= 600
      BY <2>2 DEF NewHundreds, Share
    <2> HIDE DEF b, tax
    <2>4. CASE n <= 600
      <3>1. amount <= 1200000
        BY <2>4
      <3>2. Rebate(who, amount, tax) = Lesser(tax, 60000)
        BY <1>4, <2>1, <3>1 DEF Rebate
      <3>3. Lesser(tax, 60000) = tax
        BY <1>1, <2>3, <2>4 DEF Lesser
      <3>4. TaxAfterRebate(who, amount) = 0
        BY <1>1, <1>2, <3>2, <3>3
      <3>5. RebatedHundreds(who, n) = 0
        BY <1>4, <2>4 DEF RebatedHundreds
      <3> QED
        BY <3>4, <3>5
    <2>5. CASE n > 600
      <3>1. ~ amount <= 1200000
        BY <2>5
      <3>2. Rebate(who, amount, tax) = Greater(tax - (amount - 1200000), 0)
        BY <1>4, <2>1, <3>1 DEF Rebate
      <3>3. tax - Greater(tax - (amount - 1200000), 0) = 100 * (IF b <= 20 * (n - 600) THEN b ELSE 20 * (n - 600))
        BY <1>1 DEF Greater
      <3>4. RebatedHundreds(who, n) = IF b <= 20 * (n - 600) THEN b ELSE 20 * (n - 600)
        BY <1>4, <2>5 DEF RebatedHundreds, b
      <3> HIDE DEF amount
      <3> QED
        BY <1>2, <3>2, <3>3, <3>4 DEF amount
    <2> QED
      BY <2>4, <2>5
  <1>5. CASE who.kind = "INDIVIDUAL" /\ who.regime # "NEW"
    <2>1. RebateRule(who) = [upTo |-> 500000, most |-> 12500, relief |-> FALSE]
      BY <1>5 DEF RebateRule, Lakh
    <2>2. b = OldHundreds(n, Exempt(who)) /\ Exempt(who) \in {125, 150, 250}
      BY <1>5 DEF BaseHundreds, Exempt
    <2>3. n <= 250 => b <= 125
      BY <2>2 DEF OldHundreds, Share
    <2> HIDE DEF b, tax
    <2>4. CASE n <= 250
      <3>1. amount <= 500000
        BY <2>4
      <3>2. Rebate(who, amount, tax) = Lesser(tax, 12500)
        BY <1>5, <2>1, <3>1 DEF Rebate
      <3>3. Lesser(tax, 12500) = tax
        BY <1>1, <2>3, <2>4 DEF Lesser
      <3>4. TaxAfterRebate(who, amount) = 0
        BY <1>1, <1>2, <3>2, <3>3
      <3>5. RebatedHundreds(who, n) = 0
        BY <1>5, <2>4 DEF RebatedHundreds
      <3> QED
        BY <3>4, <3>5
    <2>5. CASE n > 250
      <3>1. ~ amount <= 500000
        BY <2>5
      <3>2. Rebate(who, amount, tax) = 0
        BY <1>5, <2>1, <3>1 DEF Rebate
      <3>3. TaxAfterRebate(who, amount) = 100 * b
        BY <1>1, <1>2, <3>2
      <3>4. RebatedHundreds(who, n) = b
        BY <1>5, <2>5 DEF RebatedHundreds, b
      <3> QED
        BY <3>3, <3>4
    <2> QED
      BY <2>4, <2>5
  <1> QED
    BY <1>3, <1>4, <1>5

LEMMA RebatedRises ==
    ASSUME NEW who \in Assessees, NEW n \in Nat, NEW m \in Nat, n <= m, ~ Jumps(who, n, m)
    PROVE  /\ RebatedHundreds(who, n) \in Nat /\ RebatedHundreds(who, n) <= RebatedHundreds(who, m)
           /\ RebatedHundreds(who, m) <= RebatedHundreds(who, n) + 20 * (m - n)
  <1> DEFINE b == BaseHundreds(who, n)
             c == BaseHundreds(who, m)
  <1>1. b \in Nat /\ c \in Nat /\ b <= c /\ c <= b + 6 * (m - n)
    BY BaseRises
  <1>2. who.regime \in {"NEW", "OLD"}
    BY DEF Assessees
  <1> HIDE DEF b, c
  <1>3. CASE who.kind # "INDIVIDUAL"
    <2>1. RebatedHundreds(who, n) = b /\ RebatedHundreds(who, m) = c
      BY <1>3 DEF RebatedHundreds, b, c
    <2> QED
      BY <1>1, <2>1
  <1>4. CASE who.kind = "INDIVIDUAL" /\ who.regime = "NEW"
    <2>1. /\ RebatedHundreds(who, n) = IF n <= 600 THEN 0 ELSE IF b <= 20 * (n - 600) THEN b ELSE 20 * (n - 600)
          /\ RebatedHundreds(who, m) = IF m <= 600 THEN 0 ELSE IF c <= 20 * (m - 600) THEN c ELSE 20 * (m - 600)
      BY <1>4 DEF RebatedHundreds, b, c
    <2> QED
      BY <1>1, <2>1
  <1>5. CASE who.kind = "INDIVIDUAL" /\ who.regime = "OLD"
    <2>1. /\ RebatedHundreds(who, n) = IF n <= 250 THEN 0 ELSE b
          /\ RebatedHundreds(who, m) = IF m <= 250 THEN 0 ELSE c
      BY <1>5 DEF RebatedHundreds, b, c
    <2> QED
      BY <1>1, <1>5, <2>1 DEF Jumps
  <1> QED
    BY <1>2, <1>3, <1>4, <1>5

\* From fifty lakh, where the first surcharge begins, the rebate is long gone.
LEMMA RebatedFlattens ==
    ASSUME NEW who \in Assessees, NEW n \in Nat, NEW m \in Nat, 2500 <= n, n <= m
    PROVE  /\ RebatedHundreds(who, n) \in Nat /\ RebatedHundreds(who, n) <= RebatedHundreds(who, m)
           /\ RebatedHundreds(who, m) <= RebatedHundreds(who, n) + 6 * (m - n)
  <1> DEFINE b == BaseHundreds(who, n)
             c == BaseHundreds(who, m)
  <1>1. b \in Nat /\ c \in Nat /\ b <= c /\ c <= b + 6 * (m - n)
    BY BaseRises
  <1>2. ASSUME NEW k \in Nat, 2500 <= k
        PROVE  RebatedHundreds(who, k) = BaseHundreds(who, k)
    <2>1. CASE who.kind = "INDIVIDUAL" /\ who.regime = "NEW"
      <3>1. BaseHundreds(who, 0) = 0
        BY <2>1, TopIs DEF BaseHundreds, NewHundreds, Share
      <3>2. BaseHundreds(who, k) \in Nat /\ BaseHundreds(who, k) <= BaseHundreds(who, 0) + 6 * (k - 0)
        BY BaseRises
      <3> QED
        BY <1>2, <2>1, <3>1, <3>2 DEF RebatedHundreds
    <2>2. CASE ~ (who.kind = "INDIVIDUAL" /\ who.regime = "NEW")
      BY <1>2, <2>2 DEF RebatedHundreds
    <2> QED
      BY <2>1, <2>2
  <1>3. RebatedHundreds(who, n) = b /\ RebatedHundreds(who, m) = c
    BY <1>2
  <1> HIDE DEF b, c
  <1> QED
    BY <1>1, <1>3

\* The surcharge bands: where they begin, in units, and what they add.
Bands(who) == DOMAIN SurchargeBands(who)
Begins(who, k) == SurchargeBands(who)[k].above \div 2000
RateOf(who, k) == SurchargeBands(who)[k].rate

Ladder(who, N) ==
    /\ Bands(who) = 1 .. N
    /\ \A k \in 1 .. N : /\ Begins(who, k) \in Nat /\ 2500 <= Begins(who, k)
                         /\ SurchargeBands(who)[k].above = 2000 * Begins(who, k)
                         /\ RateOf(who, k) \in 0 .. 37
    /\ \A k \in 2 .. N : /\ Begins(who, k - 1) < Begins(who, k)
                         /\ RateOf(who, k - 1) <= RateOf(who, k)

LEMMA BandsAre ==
    ASSUME NEW who \in Assessees
    PROVE  \E N \in 1 .. 4 : Ladder(who, N)
  <1> DEFINE b == SurchargeBands(who)
  <1>1. who.kind \in {"FIRM", "COMPANY", "INDIVIDUAL", "HUF"}
    BY DEF Assessees
  <1>2. CASE who.kind = "FIRM"
    <2>1. b = << Above(Crore, 12) >>
      BY <1>2 DEF SurchargeBands
    <2>2. DOMAIN b = 1 .. 1 /\ b[1].above = 2000 * 5000 /\ b[1].rate = 12
      BY <2>1 DEF Above, Crore
    <2> HIDE DEF b
    <2>3. \A k \in 1 .. 1 : k = 1
      OBVIOUS
    <2>4. (2000 * 5000) \div 2000 = 5000
      OBVIOUS
    <2> QED
      BY <2>2, <2>3, <2>4 DEF Bands, Begins, RateOf, Ladder, b
  <1>3. CASE who.kind = "COMPANY"
    <2>1. b = << Above(Crore, 7), Above(10 * Crore, 12) >>
      BY <1>3 DEF SurchargeBands
    <2>2. /\ DOMAIN b = 1 .. 2 /\ b[1].above = 2000 * 5000 /\ b[1].rate = 7
          /\ b[2].above = 2000 * 50000 /\ b[2].rate = 12
      BY <2>1 DEF Above, Crore
    <2> HIDE DEF b
    <2>3. (\A k \in 1 .. 2 : k = 1 \/ k = 2) /\ \A k \in 2 .. 2 : k = 2
      OBVIOUS
    <2>4. (2000 * 5000) \div 2000 = 5000 /\ (2000 * 50000) \div 2000 = 50000 /\ 2 - 1 = 1
      OBVIOUS
    <2>5. /\ Begins(who, 1) = 5000 /\ RateOf(who, 1) = 7 /\ Begins(who, 2) = 50000 /\ RateOf(who, 2) = 12
          /\ Bands(who) = 1 .. 2
      BY <2>2, <2>4 DEF Begins, RateOf, Bands, b
    <2>6. \A k \in 1 .. 2 : SurchargeBands(who)[k].above = 2000 * Begins(who, k)
      BY <2>2, <2>3, <2>5 DEF b
    <2> QED
      BY <2>3, <2>4, <2>5, <2>6 DEF Ladder
  <1>4. CASE who.kind \in {"INDIVIDUAL", "HUF"} /\ who.regime # "OLD"
    <2>1. b = << Above(50 * Lakh, 10), Above(Crore, 15), Above(2 * Crore, 25) >>
      BY <1>4 DEF SurchargeBands
    <2>2. /\ DOMAIN b = 1 .. 3 /\ b[1].above = 2000 * 2500 /\ b[1].rate = 10
          /\ b[2].above = 2000 * 5000 /\ b[2].rate = 15 /\ b[3].above = 2000 * 10000 /\ b[3].rate = 25
      BY <2>1 DEF Above, Crore, Lakh
    <2> HIDE DEF b
    <2>3. (\A k \in 1 .. 3 : k = 1 \/ k = 2 \/ k = 3) /\ \A k \in 2 .. 3 : k = 2 \/ k = 3
      OBVIOUS
    <2>4. /\ (2000 * 2500) \div 2000 = 2500 /\ (2000 * 5000) \div 2000 = 5000
          /\ (2000 * 10000) \div 2000 = 10000 /\ 2 - 1 = 1 /\ 3 - 1 = 2
      OBVIOUS
    <2>5. /\ Begins(who, 1) = 2500 /\ RateOf(who, 1) = 10 /\ Begins(who, 2) = 5000 /\ RateOf(who, 2) = 15
          /\ Begins(who, 3) = 10000 /\ RateOf(who, 3) = 25 /\ Bands(who) = 1 .. 3
      BY <2>2, <2>4 DEF Begins, RateOf, Bands, b
    <2>6. \A k \in 1 .. 3 : SurchargeBands(who)[k].above = 2000 * Begins(who, k)
      BY <2>2, <2>3, <2>5 DEF b
    <2> QED
      BY <2>3, <2>4, <2>5, <2>6 DEF Ladder
  <1>5. CASE who.kind \in {"INDIVIDUAL", "HUF"} /\ who.regime = "OLD"
    <2>1. b = << Above(50 * Lakh, 10), Above(Crore, 15), Above(2 * Crore, 25) >> \o << Above(5 * Crore, 37) >>
      BY <1>5 DEF SurchargeBands
    <2> HIDE DEF b
    <2>2. /\ DOMAIN b = 1 .. 4 /\ b[1].above = 2000 * 2500 /\ b[1].rate = 10
          /\ b[2].above = 2000 * 5000 /\ b[2].rate = 15 /\ b[3].above = 2000 * 10000 /\ b[3].rate = 25
          /\ b[4].above = 2000 * 25000 /\ b[4].rate = 37
      BY <2>1, SMT DEF Above, Crore, Lakh
    <2>3. (\A k \in 1 .. 4 : k = 1 \/ k = 2 \/ k = 3 \/ k = 4) /\ \A k \in 2 .. 4 : k = 2 \/ k = 3 \/ k = 4
      OBVIOUS
    <2>4. /\ (2000 * 2500) \div 2000 = 2500 /\ (2000 * 5000) \div 2000 = 5000
          /\ (2000 * 10000) \div 2000 = 10000 /\ (2000 * 25000) \div 2000 = 25000
          /\ 2 - 1 = 1 /\ 3 - 1 = 2 /\ 4 - 1 = 3
      OBVIOUS
    <2>5. /\ Begins(who, 1) = 2500 /\ RateOf(who, 1) = 10 /\ Begins(who, 2) = 5000 /\ RateOf(who, 2) = 15
          /\ Begins(who, 3) = 10000 /\ RateOf(who, 3) = 25 /\ Begins(who, 4) = 25000 /\ RateOf(who, 4) = 37
          /\ Bands(who) = 1 .. 4
      BY <2>2, <2>4 DEF Begins, RateOf, Bands, b
    <2>6. \A k \in 1 .. 4 : SurchargeBands(who)[k].above = 2000 * Begins(who, k)
      BY <2>2, <2>3, <2>5 DEF b
    <2> QED
      BY <2>3, <2>4, <2>5, <2>6 DEF Ladder
  <1> QED
    BY <1>1, <1>2, <1>3, <1>4, <1>5

\* Tax and surcharge at a rate, of so many hundreds of rupees.
WithSurcharge(t, r, at, excess) == Capped(100 * t, r, at, excess)

LEMMA CappedIs ==
    ASSUME NEW t \in Nat, NEW r \in 0 .. 37, NEW at \in Int, NEW excess \in Int
    PROVE  WithSurcharge(t, r, at, excess) = IF t * (100 + r) <= at + excess THEN t * (100 + r) ELSE at + excess
  <1>1. (100 * t) \div 100 = t /\ (100 * t) % 100 = 0
    OBVIOUS
  <1>2. t * r \in Int /\ (0 * r) \div 100 = 0
    OBVIOUS
  <1>3. PercentOf(100 * t, r) = t * r
    BY <1>1, <1>2 DEF PercentOf
  <1>4. 100 * t + t * r = t * (100 + r)
    OBVIOUS
  <1> QED
    BY <1>3, <1>4 DEF WithSurcharge, Capped, Lesser

\* What tax and surcharge come to at a band's threshold, given what they come to
\* at the one below; and the same as the model's recursive function has it.
NextAt(who, k, below) ==
    IF k = 1 THEN 100 * RebatedHundreds(who, Begins(who, 1))
    ELSE WithSurcharge(RebatedHundreds(who, Begins(who, k)), RateOf(who, k - 1), below,
                       2000 * Begins(who, k) - 2000 * Begins(who, k - 1))
AtBand(who, f, k) ==
    LET tax == TaxAfterRebate(who, SurchargeBands(who)[k].above)
    IN  IF k = 1 THEN tax
        ELSE Capped(tax, SurchargeBands(who)[k - 1].rate, f[k - 1],
                    SurchargeBands(who)[k].above - SurchargeBands(who)[k - 1].above)

LEMMA RebatedIsNat ==
    ASSUME NEW who \in Assessees, NEW n \in Nat
    PROVE  RebatedHundreds(who, n) \in Nat
  <1>1. ~ Jumps(who, n, n)
    BY DEF Jumps
  <1> QED
    BY <1>1, RebatedRises

LEMMA NextAtIsInt ==
    ASSUME NEW who \in Assessees, NEW N \in 1 .. 4, Ladder(who, N), NEW k \in 1 .. N, NEW below \in Int
    PROVE  NextAt(who, k, below) \in Int
  <1>1. CASE k = 1
    <2>1. Begins(who, 1) \in Nat
      BY <1>1 DEF Ladder
    <2>2. RebatedHundreds(who, Begins(who, 1)) \in Nat
      BY <2>1, RebatedIsNat
    <2> QED
      BY <1>1, <2>2 DEF NextAt
  <1>2. CASE k # 1
    <2>1. k - 1 \in 1 .. N
      BY <1>2
    <2> DEFINE excess == 2000 * Begins(who, k) - 2000 * Begins(who, k - 1)
               t == RebatedHundreds(who, Begins(who, k))
               r == RateOf(who, k - 1)
    <2>2. Begins(who, k) \in Nat /\ Begins(who, k - 1) \in Nat /\ r \in 0 .. 37
      BY <2>1 DEF Ladder
    <2>3. excess \in Int /\ t \in Nat
      BY <2>2, RebatedIsNat
    <2>4. NextAt(who, k, below) = WithSurcharge(t, r, below, excess)
      BY <1>2 DEF NextAt
    <2> HIDE DEF excess, t, r
    <2>5. t * (100 + r) \in Int /\ below + excess \in Int
      BY <2>2, <2>3
    <2>6. WithSurcharge(t, r, below, excess) = IF t * (100 + r) <= below + excess THEN t * (100 + r) ELSE below + excess
      BY <2>2, <2>3, CappedIs
    <2> QED
      BY <2>4, <2>5, <2>6
  <1> QED
    BY <1>1, <1>2

LEMMA AtBandIs ==
    ASSUME NEW who \in Assessees, NEW N \in 1 .. 4, Ladder(who, N), NEW k \in 1 .. N, NEW f
    PROVE  AtBand(who, f, k) = NextAt(who, k, f[k - 1])
  <1>1. Begins(who, k) \in Nat /\ SurchargeBands(who)[k].above = 2000 * Begins(who, k)
    BY DEF Ladder
  <1>2. TaxAfterRebate(who, SurchargeBands(who)[k].above) = 100 * RebatedHundreds(who, Begins(who, k))
    BY <1>1, TaxAfterRebateIs
  <1>3. CASE k = 1
    BY <1>2, <1>3 DEF AtBand, NextAt
  <1>4. CASE k # 1
    <2>1. k - 1 \in 1 .. N
      BY <1>4
    <2>2. SurchargeBands(who)[k - 1].above = 2000 * Begins(who, k - 1)
      BY <2>1 DEF Ladder
    <2>3. SurchargeBands(who)[k - 1].rate = RateOf(who, k - 1)
      BY DEF RateOf
    <2> QED
      BY <1>1, <1>2, <1>4, <2>2, <2>3 DEF AtBand, NextAt, WithSurcharge
  <1> QED
    BY <1>3, <1>4

LEMMA AtThresholdsAre ==
    ASSUME NEW who \in Assessees, NEW N \in 1 .. 4, Ladder(who, N)
    PROVE  \A k \in 1 .. N : /\ AtThresholds(who)[k] = NextAt(who, k, AtThresholds(who)[k - 1])
                             /\ AtThresholds(who)[k] \in Int
  <1> DEFINE Works(g) == g = [k \in Bands(who) |-> AtBand(who, g, k)]
             at == CHOOSE g : Works(g)
             v1 == NextAt(who, 1, 0)
             v2 == NextAt(who, 2, v1)
             v3 == NextAt(who, 3, v2)
             v4 == NextAt(who, 4, v3)
             h == [k \in 1 .. N |-> IF k = 1 THEN v1 ELSE IF k = 2 THEN v2 ELSE IF k = 3 THEN v3 ELSE v4]
  <1>1. AtThresholds(who) = at
    BY DEF AtThresholds, AtBand, Bands
  <1>2. Bands(who) = 1 .. N
    BY DEF Ladder
  <1>3. \A x : NextAt(who, 1, x) = v1
    BY DEF NextAt
  <1>4. \A k \in 1 .. N : k = 1 \/ k = 2 \/ k = 3 \/ k = 4
    OBVIOUS
  <1> HIDE DEF v1, v2, v3, v4
  <1>5. \A k \in 1 .. N : /\ k = 1 => h[k] = v1
                          /\ k = 2 => h[k] = v2 /\ h[k - 1] = v1
                          /\ k = 3 => h[k] = v3 /\ h[k - 1] = v2
                          /\ k = 4 => h[k] = v4 /\ h[k - 1] = v3
    OBVIOUS
  <1> HIDE DEF h
  <1>6. ASSUME NEW k \in 1 .. N PROVE h[k] = NextAt(who, k, h[k - 1])
    <2>1. CASE k = 1
      BY <1>3, <1>5, <2>1
    <2>2. CASE k = 2
      BY <1>5, <2>2 DEF v2
    <2>3. CASE k = 3
      BY <1>5, <2>3 DEF v3
    <2>4. CASE k = 4
      BY <1>5, <2>4 DEF v4
    <2> QED
      BY <1>4, <2>1, <2>2, <2>3, <2>4
  <1>7. Works(h)
    <2>1. \A k \in 1 .. N : h[k] = AtBand(who, h, k)
      BY <1>6, AtBandIs
    <2>2. h = [k \in 1 .. N |-> h[k]]
      BY DEF h
    <2>3. h = [k \in 1 .. N |-> AtBand(who, h, k)]
      BY <2>1, <2>2
    <2> QED
      BY <1>2, <2>3
  <1>8. Works(at)
    <2> HIDE DEF Works
    <2> QED
      BY <1>7
  <1> HIDE DEF at
  <1>9. ASSUME NEW k \in 1 .. N PROVE at[k] = NextAt(who, k, at[k - 1])
    <2>1. at[k] = AtBand(who, at, k)
      <3> DEFINE f == [j \in 1 .. N |-> AtBand(who, at, j)]
      <3>1. f[k] = AtBand(who, at, k)
        OBVIOUS
      <3>2. at = f
        BY <1>2, <1>8
      <3> HIDE DEF f
      <3> QED
        BY <3>1, <3>2
    <2> QED
      BY <2>1, AtBandIs
  <1>10. \A k \in 1 .. N : at[k] \in Int
    <2>1. \A k \in 1 .. N : (k = 1 \/ at[k - 1] \in Int) => at[k] \in Int
      <3>1. ASSUME NEW k \in 1 .. N, k = 1 \/ at[k - 1] \in Int PROVE at[k] \in Int
        <4>1. at[k] = NextAt(who, k, at[k - 1])
          BY <1>9
        <4>2. CASE at[k - 1] \in Int
          BY <4>1, <4>2, NextAtIsInt
        <4>3. CASE k = 1
          <5>1. NextAt(who, k, 0) \in Int
            BY NextAtIsInt
          <5> QED
            BY <1>3, <4>1, <4>3, <5>1
        <4> QED
          BY <3>1, <4>2, <4>3
      <3> QED
        BY <3>1
    <2>2. at[1] \in Int
      BY <2>1
    <2>3. 2 <= N => at[2] \in Int
      BY <2>1, <2>2
    <2>4. 3 <= N => at[3] \in Int
      BY <2>1, <2>3
    <2>5. 4 <= N => at[4] \in Int
      BY <2>1, <2>4
    <2> QED
      BY <1>4, <2>2, <2>3, <2>4, <2>5
  <1> QED
    BY <1>1, <1>9, <1>10

\* The bands begin one above the other.
LEMMA BeginsRise ==
    ASSUME NEW who \in Assessees, NEW N \in 1 .. 4, Ladder(who, N), NEW j \in 1 .. N, NEW k \in 1 .. N, j < k
    PROVE  Begins(who, j) < Begins(who, k)
  <1>1. \A i \in 1 .. N : Begins(who, i) \in Int
    BY DEF Ladder
  <1>2. \A i \in 2 .. N : Begins(who, i - 1) < Begins(who, i)
    BY DEF Ladder
  <1>3. 2 <= N => Begins(who, 1) < Begins(who, 2)
    BY <1>2
  <1>4. 3 <= N => Begins(who, 2) < Begins(who, 3)
    BY <1>2
  <1>5. 4 <= N => Begins(who, 3) < Begins(who, 4)
    BY <1>2
  <1>6. /\ 1 <= N => Begins(who, 1) \in Int
        /\ 2 <= N => Begins(who, 2) \in Int
        /\ 3 <= N => Begins(who, 3) \in Int
        /\ 4 <= N => Begins(who, 4) \in Int
    BY <1>1
  <1>7. \/ j = 1 /\ k = 2
        \/ j = 1 /\ k = 3
        \/ j = 1 /\ k = 4
        \/ j = 2 /\ k = 3
        \/ j = 2 /\ k = 4
        \/ j = 3 /\ k = 4
    OBVIOUS
  <1>8. CASE k = 2
    BY <1>3, <1>7, <1>8
  <1>9. CASE k = 3
    BY <1>3, <1>4, <1>6, <1>7, <1>9
  <1>10. CASE k = 4
    BY <1>3, <1>4, <1>5, <1>6, <1>7, <1>10
  <1> QED
    BY <1>7, <1>8, <1>9, <1>10

\* The tax in the band of the ladder's k-th step.
InBand(who, k, n) ==
    WithSurcharge(RebatedHundreds(who, n), RateOf(who, k), AtThresholds(who)[k], 2000 * n - 2000 * Begins(who, k))

\* Below the first band, and in each.
LEMMA BelowTheBands ==
    ASSUME NEW who \in Assessees, NEW N \in 1 .. 4, Ladder(who, N), NEW n \in Nat, n <= Begins(who, 1)
    PROVE  BeforeCess(who, 2000 * n) = 100 * RebatedHundreds(who, n)
  <1> DEFINE reached == { k \in DOMAIN SurchargeBands(who) : 2000 * n > SurchargeBands(who)[k].above }
  <1>1. ASSUME NEW k \in 1 .. N PROVE ~ 2000 * n > SurchargeBands(who)[k].above
    <2>1. SurchargeBands(who)[k].above = 2000 * Begins(who, k) /\ Begins(who, k) \in Nat /\ Begins(who, 1) \in Nat
      BY DEF Ladder
    <2>2. Begins(who, 1) <= Begins(who, k)
      <3>1. CASE k = 1
        BY <2>1, <3>1
      <3>2. CASE k # 1
        <4>1. 1 \in 1 .. N /\ 1 < k
          BY <3>2
        <4> QED
          BY <2>1, <4>1, BeginsRise
      <3> QED
        BY <3>1, <3>2
    <2> QED
      BY <2>1, <2>2
  <1>2. reached = {}
    BY <1>1 DEF Ladder, Bands
  <1>3. BeforeCess(who, 2000 * n) = TaxAfterRebate(who, 2000 * n)
    <2> HIDE DEF reached
    <2>1. BeforeCess(who, 2000 * n) =
            IF reached = {} THEN TaxAfterRebate(who, 2000 * n)
            ELSE LET top == CHOOSE k \in reached : \A j \in reached : j <= k
                 IN  Capped(TaxAfterRebate(who, 2000 * n), SurchargeBands(who)[top].rate, AtThresholds(who)[top],
                            2000 * n - SurchargeBands(who)[top].above)
      BY DEF BeforeCess, reached
    <2> QED
      BY <1>2, <2>1
  <1> QED
    BY <1>3, TaxAfterRebateIs

LEMMA WithinABand ==
    ASSUME NEW who \in Assessees, NEW N \in 1 .. 4, Ladder(who, N), NEW n \in Nat, NEW k \in 1 .. N,
           Begins(who, k) < n, k = N \/ n <= Begins(who, k + 1)
    PROVE  BeforeCess(who, 2000 * n) = InBand(who, k, n)
  <1> DEFINE reached == { j \in DOMAIN SurchargeBands(who) : 2000 * n > SurchargeBands(who)[j].above }
             top == CHOOSE j \in reached : \A i \in reached : i <= j
  <1>1. \A j \in 1 .. N : SurchargeBands(who)[j].above = 2000 * Begins(who, j) /\ Begins(who, j) \in Nat
    BY DEF Ladder
  <1>2. DOMAIN SurchargeBands(who) = 1 .. N
    BY DEF Ladder, Bands
  <1>3. k \in reached
    BY <1>1, <1>2
  <1>4. ASSUME NEW j \in reached PROVE j <= k
    <2>1. j \in 1 .. N /\ Begins(who, j) < n
      BY <1>1, <1>2
    <2>2. SUFFICES ASSUME j > k PROVE FALSE
      BY <2>1
    <2>3. k + 1 \in 1 .. N /\ n <= Begins(who, k + 1)
      BY <2>1, <2>2
    <2>4. Begins(who, k + 1) <= Begins(who, j)
      <3>1. CASE j = k + 1
        BY <1>1, <2>3, <3>1
      <3>2. CASE j # k + 1
        <4>1. k + 1 < j
          BY <2>1, <2>2, <3>2
        <4>2. Begins(who, k + 1) < Begins(who, j)
          BY <2>1, <2>3, <4>1, BeginsRise
        <4> QED
          BY <1>1, <2>1, <2>3, <4>2
      <3> QED
        BY <3>1, <3>2
    <2>5. Begins(who, k + 1) \in Nat /\ Begins(who, j) \in Nat
      BY <1>1, <2>1, <2>3
    <2> QED
      BY <2>1, <2>3, <2>4, <2>5
  <1>5. \A j \in reached : j \in Int
    BY <1>2
  <1> HIDE DEF reached
  <1>6. top \in reached /\ \A i \in reached : i <= top
    BY <1>3, <1>4
  <1>7. top = k
    <2> HIDE DEF top
    <2>1. k <= top /\ top <= k /\ top \in Int
      BY <1>3, <1>4, <1>5, <1>6
    <2> QED
      BY <2>1
  <1>8. BeforeCess(who, 2000 * n) =
            IF reached = {} THEN TaxAfterRebate(who, 2000 * n)
            ELSE Capped(TaxAfterRebate(who, 2000 * n), SurchargeBands(who)[top].rate, AtThresholds(who)[top],
                        2000 * n - SurchargeBands(who)[top].above)
    BY DEF BeforeCess, reached
  <1>9. TaxAfterRebate(who, 2000 * n) = 100 * RebatedHundreds(who, n)
    BY TaxAfterRebateIs
  <1>10. SurchargeBands(who)[k].rate = RateOf(who, k) /\ SurchargeBands(who)[k].above = 2000 * Begins(who, k)
    BY <1>1 DEF RateOf
  <1> HIDE DEF top
  <1>11. BeforeCess(who, 2000 * n) =
            Capped(TaxAfterRebate(who, 2000 * n), SurchargeBands(who)[k].rate, AtThresholds(who)[k],
                   2000 * n - SurchargeBands(who)[k].above)
    BY <1>3, <1>7, <1>8
  <1> QED
    BY <1>9, <1>10, <1>11 DEF InBand, WithSurcharge

\* Multiplying keeps the order.
LEMMA TimesKeeps ==
    ASSUME NEW a \in Nat, NEW b \in Nat, NEW c \in Nat
    PROVE  /\ a * c \in Nat
           /\ a <= b => a * c <= b * c
           /\ a <= b => c * a <= c * b
  <1>1. a * c \in Nat /\ b * c \in Nat
    OBVIOUS
  <1>2. ASSUME a <= b PROVE a * c <= b * c /\ c * a <= c * b
    <2>1. (b - a) * c \in Nat /\ b - a \in Nat
      BY <1>2
    <2>2. b * c = a * c + (b - a) * c /\ c * a = a * c /\ c * b = b * c
      OBVIOUS
    <2> QED
      BY <1>1, <2>1, <2>2
  <1> QED
    BY <1>1, <1>2

\* The tax at the very threshold: no band makes it jump.
LEMMA AtTheThreshold ==
    ASSUME NEW who \in Assessees, NEW N \in 1 .. 4, Ladder(who, N), NEW k \in 1 .. N
    PROVE  /\ BeforeCess(who, 2000 * Begins(who, k)) = AtThresholds(who)[k]
           /\ InBand(who, k, Begins(who, k)) = AtThresholds(who)[k]
  <1> DEFINE b == Begins(who, k)
             t == RebatedHundreds(who, b)
             r == RateOf(who, k)
             at == AtThresholds(who)
             x == at[k]
  <1>1. b \in Nat /\ r \in 0 .. 37
    <2>1. \A j \in 1 .. N : Begins(who, j) \in Nat /\ RateOf(who, j) \in 0 .. 37
      BY DEF Ladder
    <2>2. k \in 1 .. N
      OBVIOUS
    <2> QED
      BY ONLY <2>1, <2>2
  <1>2. t \in Nat /\ x \in Int /\ x = NextAt(who, k, at[k - 1])
    BY <1>1, RebatedIsNat, AtThresholdsAre
  <1>3. BeforeCess(who, 2000 * b) = x /\ x <= t * (100 + r)
    <2>1. CASE k = 1
      <3>1. x = 100 * t
        BY <1>2, <2>1 DEF NextAt
      <3>2. b <= Begins(who, 1)
        BY <1>1, <2>1
      <3>3. BeforeCess(who, 2000 * b) = 100 * t
        BY <1>1, <3>2, BelowTheBands
      <3> HIDE DEF x, t, r
      <3>4. t * 100 <= t * (100 + r) /\ 100 * t = t * 100
        BY <1>1, <1>2, TimesKeeps
      <3> QED
        BY <3>1, <3>3, <3>4
    <2>2. CASE k # 1
      <3> DEFINE c == Begins(who, k - 1)
                 s == RateOf(who, k - 1)
                 y == at[k - 1]
                 e == 2000 * b - 2000 * c
      <3>1. k - 1 \in 1 .. N /\ k \in 2 .. N
        BY <2>2
      <3>2. c \in Nat /\ s \in 0 .. 37 /\ c < b /\ s <= r
        BY <3>1 DEF Ladder
      <3>3. y \in Int
        BY <3>1, AtThresholdsAre
      <3>4. x = WithSurcharge(t, s, y, e)
        BY <1>2, <2>2 DEF NextAt
      <3>5. InBand(who, k - 1, b) = WithSurcharge(t, s, y, e)
        BY DEF InBand
      <3>6. BeforeCess(who, 2000 * b) = InBand(who, k - 1, b)
        <4>1. k - 1 + 1 = k
          OBVIOUS
        <4>2. b <= Begins(who, k - 1 + 1)
          BY <1>1, <4>1
        <4> HIDE DEF b
        <4> QED
          BY <1>1, <3>1, <3>2, <4>2, WithinABand
      <3> HIDE DEF x, t, r, s, y, e, c
      <3>7. e \in Int
        BY <1>1, <3>2 DEF e
      <3>8. WithSurcharge(t, s, y, e) = IF t * (100 + s) <= y + e THEN t * (100 + s) ELSE y + e
        BY <1>2, <3>2, <3>3, <3>7, CappedIs
      <3>9. t * (100 + s) <= t * (100 + r)
        <4>1. 100 + s \in Nat /\ 100 + r \in Nat /\ 100 + s <= 100 + r
          BY <1>1, <3>2
        <4> QED
          BY <1>2, <4>1, TimesKeeps
      <3>10. t * (100 + s) \in Int /\ t * (100 + r) \in Int /\ y + e \in Int
        BY <1>1, <1>2, <3>2, <3>3, <3>7
      <3>11. x <= t * (100 + r)
        BY <3>4, <3>8, <3>9, <3>10
      <3> QED
        BY <3>4, <3>5, <3>6, <3>11
    <2> QED
      BY <2>1, <2>2
  <1>4. InBand(who, k, b) = x
    <2>1. InBand(who, k, b) = WithSurcharge(t, r, x, 2000 * b - 2000 * b)
      BY DEF InBand
    <2>2. 2000 * b - 2000 * b = 0
      BY <1>1
    <2> DEFINE e == 0
    <2> HIDE DEF t, r, x
    <2>3. WithSurcharge(t, r, x, e) = IF t * (100 + r) <= x + e THEN t * (100 + r) ELSE x + e
      <3>1. e \in Int
        OBVIOUS
      <3> HIDE DEF e
      <3> QED
        BY <1>1, <1>2, <3>1, CappedIs
    <2>4. t * (100 + r) \in Int
      BY <1>1, <1>2
    <2> QED
      BY <1>2, <1>3, <2>1, <2>2, <2>3, <2>4
  <1> QED
    BY <1>3, <1>4

\* One income taxed against another: never less for more, and never more than it.
Rises(who, n, m) ==
    /\ BeforeCess(who, 2000 * n) \in Int /\ BeforeCess(who, 2000 * m) \in Int
    /\ BeforeCess(who, 2000 * n) <= BeforeCess(who, 2000 * m)
    /\ BeforeCess(who, 2000 * m) <= BeforeCess(who, 2000 * n) + 2000 * (m - n)

LEMMA RisesOn ==
    ASSUME NEW who, NEW a \in Nat, NEW b \in Nat, NEW c \in Nat, Rises(who, a, b), Rises(who, b, c)
    PROVE  Rises(who, a, c)
  <1> DEFINE x == BeforeCess(who, 2000 * a)
             y == BeforeCess(who, 2000 * b)
             z == BeforeCess(who, 2000 * c)
  <1>1. /\ x \in Int /\ y \in Int /\ z \in Int /\ x <= y /\ y <= z
        /\ y <= x + 2000 * (b - a) /\ z <= y + 2000 * (c - b)
    BY DEF Rises
  <1> HIDE DEF x, y, z
  <1>2. x <= z /\ z <= x + 2000 * (c - a)
    BY <1>1
  <1> QED
    BY <1>1, <1>2 DEF Rises, x, y, z

LEMMA RisesBelow ==
    ASSUME NEW who \in Assessees, NEW N \in 1 .. 4, Ladder(who, N), NEW n \in Nat, NEW m \in Nat, n <= m,
           m <= Begins(who, 1), ~ Jumps(who, n, m)
    PROVE  Rises(who, n, m)
  <1> DEFINE x == RebatedHundreds(who, n)
             y == RebatedHundreds(who, m)
  <1>1. Begins(who, 1) \in Nat
    BY DEF Ladder
  <1>2. n <= Begins(who, 1)
    BY <1>1
  <1>3. BeforeCess(who, 2000 * n) = 100 * x /\ BeforeCess(who, 2000 * m) = 100 * y
    BY <1>2, BelowTheBands
  <1>4. x \in Nat /\ y \in Nat /\ x <= y /\ y <= x + 20 * (m - n)
    BY RebatedRises, RebatedIsNat
  <1> HIDE DEF x, y
  <1> QED
    BY <1>3, <1>4 DEF Rises

LEMMA RisesWithin ==
    ASSUME NEW who \in Assessees, NEW N \in 1 .. 4, Ladder(who, N), NEW k \in 1 .. N,
           NEW n \in Nat, NEW m \in Nat, Begins(who, k) <= n, n <= m, k = N \/ m <= Begins(who, k + 1)
    PROVE  Rises(who, n, m)
  <1> DEFINE b == Begins(who, k)
             t == RebatedHundreds(who, n)
             u == RebatedHundreds(who, m)
             r == RateOf(who, k)
             x == AtThresholds(who)[k]
  <1>1. b \in Nat /\ r \in 0 .. 37 /\ 2500 <= b
    BY DEF Ladder
  <1>2. \A j \in 1 .. N : Begins(who, j) \in Nat
    BY DEF Ladder
  <1>3. x \in Int
    BY AtThresholdsAre
  <1>4. 2500 <= n
    BY <1>1
  <1>5. t \in Nat /\ u \in Nat /\ t <= u /\ u <= t + 6 * (m - n)
    BY <1>4, RebatedFlattens, RebatedIsNat
  <1>6. ASSUME NEW i \in {n, m} PROVE BeforeCess(who, 2000 * i) = InBand(who, k, i)
    <2>1. i \in Nat /\ b <= i /\ (k = N \/ i <= Begins(who, k + 1))
      BY <1>1, <1>2
    <2>2. CASE i = b
      BY <2>2, AtTheThreshold
    <2>3. CASE i # b
      <3>1. b < i
        BY <1>1, <2>1, <2>3
      <3> QED
        BY <2>1, <3>1, WithinABand
    <2> QED
      BY <2>2, <2>3
  <1> DEFINE p == t * (100 + r)
             q == u * (100 + r)
             v == x + (2000 * n - 2000 * b)
             w == x + (2000 * m - 2000 * b)
  <1>7. /\ BeforeCess(who, 2000 * n) = WithSurcharge(t, r, x, 2000 * n - 2000 * b)
        /\ BeforeCess(who, 2000 * m) = WithSurcharge(u, r, x, 2000 * m - 2000 * b)
    BY <1>6 DEF InBand
  <1>8. 2000 * n - 2000 * b \in Int /\ 2000 * m - 2000 * b \in Int
    BY <1>1
  <1> HIDE DEF b, t, u, r, x
  <1>9. /\ BeforeCess(who, 2000 * n) = IF p <= v THEN p ELSE v
        /\ BeforeCess(who, 2000 * m) = IF q <= w THEN q ELSE w
    <2> DEFINE d == 2000 * n - 2000 * b
               e == 2000 * m - 2000 * b
    <2> HIDE DEF d, e
    <2>1. d \in Int /\ e \in Int
      BY <1>8 DEF d, e
    <2>2. WithSurcharge(t, r, x, d) = IF t * (100 + r) <= x + d THEN t * (100 + r) ELSE x + d
      <3>1. t \in Nat /\ r \in 0 .. 37 /\ x \in Int /\ d \in Int
        BY <1>1, <1>3, <1>5, <2>1
      <3> QED
        BY ONLY <3>1, CappedIs
    <2>3. WithSurcharge(u, r, x, e) = IF u * (100 + r) <= x + e THEN u * (100 + r) ELSE x + e
      <3>1. u \in Nat /\ r \in 0 .. 37 /\ x \in Int /\ e \in Int
        BY <1>1, <1>3, <1>5, <2>1
      <3> QED
        BY ONLY <3>1, CappedIs
    <2> QED
      BY <1>7, <2>2, <2>3 DEF d, e
  <1>10. p \in Int /\ q \in Int /\ p <= q /\ q <= p + 822 * (m - n)
    <2>1. 100 + r \in Nat /\ u - t \in Nat /\ 6 * (m - n) \in Nat /\ u - t <= 6 * (m - n) /\ 100 + r <= 137
      BY <1>1, <1>5
    <2>2. q = p + (u - t) * (100 + r) /\ p \in Int /\ q \in Int
      BY <1>1, <1>5
    <2>3. (u - t) * (100 + r) \in Nat /\ (u - t) * (100 + r) <= (6 * (m - n)) * (100 + r)
      BY <2>1, TimesKeeps
    <2>4. (6 * (m - n)) * (100 + r) <= (6 * (m - n)) * 137
      BY <2>1, TimesKeeps, 137 \in Nat
    <2>5. (6 * (m - n)) * 137 = 822 * (m - n) /\ (6 * (m - n)) * (100 + r) \in Int
      BY <2>1
    <2> DEFINE g == (u - t) * (100 + r)
               h == (6 * (m - n)) * (100 + r)
    <2> HIDE DEF p, q, g, h
    <2>6. q = p + g /\ g \in Nat /\ g <= h /\ h <= 822 * (m - n) /\ h \in Int
      BY <2>2, <2>3, <2>4, <2>5 DEF g, h
    <2> QED
      BY <2>2, <2>6
  <1>11. v \in Int /\ w = v + 2000 * (m - n)
    BY <1>1, <1>3
  <1> HIDE DEF p, q, v, w
  <1> QED
    BY <1>9, <1>10, <1>11 DEF Rises

\* From any income up to the next threshold, given the one before.
LEMMA RisesToTheNext ==
    ASSUME NEW who \in Assessees, NEW N \in 1 .. 4, Ladder(who, N), NEW k \in 1 .. N, k + 1 \in 1 .. N,
           NEW n \in Nat, n <= Begins(who, k) => Rises(who, n, Begins(who, k)), n <= Begins(who, k + 1)
    PROVE  Rises(who, n, Begins(who, k + 1))
  <1>1. Begins(who, k) \in Nat /\ Begins(who, k + 1) \in Nat
    BY DEF Ladder
  <1>2. Begins(who, k) < Begins(who, k + 1)
    <2>1. k < k + 1
      OBVIOUS
    <2> QED
      BY <2>1, BeginsRise
  <1> DEFINE b == Begins(who, k)
             c == Begins(who, k + 1)
  <1>3. CASE n <= b
    <2>1. b <= b /\ b <= c /\ c <= c
      BY <1>1, <1>2
    <2>2. Rises(who, b, c)
      BY <1>1, <2>1, RisesWithin
    <2> HIDE DEF b, c
    <2>3. b \in Nat /\ c \in Nat /\ Rises(who, n, b)
      BY <1>1, <1>3 DEF b, c
    <2>4. Rises(who, n, c)
      BY <2>2, <2>3, RisesOn
    <2> QED
      BY <2>4 DEF c
  <1>4. CASE ~ n <= b
    <2>1. b <= n /\ c <= c
      BY <1>1, <1>4
    <2> QED
      BY <1>1, <2>1, RisesWithin
  <1> QED
    BY <1>3, <1>4

LEMMA RisesToABand ==
    ASSUME NEW who \in Assessees, NEW N \in 1 .. 4, Ladder(who, N), NEW n \in Nat,
           NEW k \in 1 .. N, n <= Begins(who, k), ~ Jumps(who, n, Begins(who, 1))
    PROVE  Rises(who, n, Begins(who, k))
  <1> DEFINE P(j) == n <= Begins(who, j) => Rises(who, n, Begins(who, j))
  <1>1. Begins(who, 1) \in Nat /\ Begins(who, 1) <= Begins(who, 1)
    BY DEF Ladder
  <1>2. P(1)
    BY <1>1, RisesBelow
  <1>3. ASSUME NEW j \in 1 .. N, j + 1 \in 1 .. N, P(j) PROVE P(j + 1)
    BY <1>3, RisesToTheNext
  <1> HIDE DEF P
  <1>4. 2 <= N => P(2)
    <2>1. 2 <= N => 1 \in 1 .. N /\ 1 + 1 \in 1 .. N /\ 1 + 1 = 2
      OBVIOUS
    <2> QED
      BY <1>2, <1>3, <2>1
  <1>5. 3 <= N => P(3)
    <2>1. 3 <= N => 2 <= N /\ 2 \in 1 .. N /\ 2 + 1 \in 1 .. N /\ 2 + 1 = 3
      OBVIOUS
    <2> QED
      BY <1>3, <1>4, <2>1
  <1>6. 4 <= N => P(4)
    <2>1. 4 <= N => 3 <= N /\ 3 \in 1 .. N /\ 3 + 1 \in 1 .. N /\ 3 + 1 = 4
      OBVIOUS
    <2> QED
      BY <1>3, <1>5, <2>1
  <1>7. P(k)
    <2>1. k = 1 \/ (k = 2 /\ 2 <= N) \/ (k = 3 /\ 3 <= N) \/ (k = 4 /\ 4 <= N)
      OBVIOUS
    <2> QED
      BY <1>2, <1>4, <1>5, <1>6, <2>1
  <1> QED
    BY <1>7 DEF P

\* Every two incomes the uncushioned step does not lie between.
LEMMA AllRise ==
    ASSUME NEW who \in Assessees, NEW n \in Nat, NEW m \in Nat, n <= m, ~ Jumps(who, n, m)
    PROVE  Rises(who, n, m)
  <1>1. PICK N \in 1 .. 4 : Ladder(who, N)
    BY BandsAre
  <1>2. \A k \in 1 .. N : Begins(who, k) \in Nat /\ 2500 <= Begins(who, k)
    BY <1>1 DEF Ladder
  <1>3. CASE m <= Begins(who, 1)
    BY <1>1, <1>3, RisesBelow
  <1>4. CASE ~ m <= Begins(who, 1)
    <2> DEFINE passed == { k \in 1 .. N : Begins(who, k) < m }
    <2>1. 1 \in passed
      BY <1>2, <1>4
    <2>2. PICK k \in passed : k = N \/ k + 1 \notin passed
      <3>1. \/ N \in passed
            \/ N = 2 /\ 2 \notin passed
            \/ N = 3 /\ (2 \notin passed \/ (2 \in passed /\ 3 \notin passed))
            \/ N = 4 /\ (2 \notin passed \/ (2 \in passed /\ 3 \notin passed) \/ (3 \in passed /\ 4 \notin passed))
        <4>1. N = 1 \/ N = 2 \/ N = 3 \/ N = 4
          OBVIOUS
        <4> HIDE DEF passed
        <4> QED
          BY <2>1, <4>1
      <3> HIDE DEF passed
      <3>2. 1 + 1 = 2 /\ 2 + 1 = 3 /\ 3 + 1 = 4
        OBVIOUS
      <3> QED
        BY <2>1, <3>1, <3>2
    <2>3. k \in 1 .. N /\ Begins(who, k) < m
      OBVIOUS
    <2>4. k = N \/ m <= Begins(who, k + 1)
      <3>1. k # N => k + 1 \in 1 .. N
        BY <2>3
      <3> QED
        BY <1>2, <2>2, <3>1
    <2> DEFINE b == Begins(who, k)
    <2>5. b \in Nat /\ 2500 <= b /\ b <= m
      BY <1>2, <2>3
    <2>6. ~ Jumps(who, n, Begins(who, 1)) 
      <3>1. 2500 <= Begins(who, 1) /\ Begins(who, 1) \in Nat
        BY <1>2
      <3> QED
        BY <1>4, <3>1 DEF Jumps
    <2>7. CASE n <= b
      <3>1. Rises(who, n, b)
        BY <1>1, <2>3, <2>6, <2>7, RisesToABand
      <3>2. b <= b
        BY <2>5
      <3>3. Rises(who, b, m)
        BY <1>1, <2>3, <2>4, <2>5, <3>2, RisesWithin
      <3> HIDE DEF b
      <3> QED
        BY <2>5, <3>1, <3>3, RisesOn
    <2>8. CASE ~ n <= b
      <3>1. b <= n
        BY <2>5, <2>8
      <3> QED
        BY <1>1, <2>3, <2>4, <3>1, RisesWithin
    <2> QED
      BY <2>7, <2>8
  <1> QED
    BY <1>3, <1>4

\* Section 288B keeps the order of what it rounds.
LEMMA RoundingKeeps ==
    ASSUME NEW x \in Int, NEW y \in Int, x <= y
    PROVE  RoundedTax(x) <= RoundedTax(y)
  <1> DEFINE q == x \div 1000
             s == x % 1000
             p == y \div 1000
             t == y % 1000
             u == (104 * s + 500) \div 1000
             v == (104 * t + 500) \div 1000
  <1>1. /\ x = 1000 * q + s /\ s \in 0 .. 999 /\ q \in Int
        /\ y = 1000 * p + t /\ t \in 0 .. 999 /\ p \in Int
    BY SMT
  <1> HIDE DEF q, s, p, t
  <1>2. u \in 0 .. 104 /\ v \in 0 .. 104 /\ (s <= t => u <= v)
    BY <1>1, SMT
  <1> HIDE DEF u, v
  <1>3. q < p \/ (q = p /\ s <= t)
    BY <1>1, SMT
  <1>4. 1040 * q + 10 * u <= 1040 * p + 10 * v
    BY <1>1, <1>2, <1>3, SMT
  <1> QED
    BY <1>4 DEF RoundedTax, q, s, p, t, u, v

\* Every income is counted in units.
IncomeInv == assessee \in Assessees /\ income \in Nat /\ income % 2000 = 0

\* A working paper opened at any income and followed sale by sale: more income
\* never means less tax, and never costs more than itself (BeforeCess).
THEOREM EarningNeverCosts == IncomeSpec => NeverWorseOffForEarning
  <1>1. IncomeInit => IncomeInv
    BY IncomeAssumption DEF IncomeInit, IncomeInv
  <1>2. ASSUME IncomeInv, [EarnMore]_incomeVars PROVE IncomeInv'
    <2>1. CASE EarnMore
      BY <1>2, <2>1, IncomeAssumption, SMT DEF IncomeInv, EarnMore
    <2>2. CASE UNCHANGED incomeVars
      BY <1>2, <2>2 DEF IncomeInv, incomeVars
    <2> QED
      BY <1>2, <2>1, <2>2
  <1>3. ASSUME IncomeInv, EarnMore, ~ OldRebateLost
        PROVE  LET now == BeforeCess(assessee, income)
                   then == BeforeCess(assessee, income')
               IN  /\ now <= then /\ then <= now + (income' - income)
                   /\ RoundedTax(now) <= RoundedTax(then)
    <2>1. ASSUME NEW x \in Nat, x % 2000 = 0 PROVE \E u \in Nat : x = 2000 * u
      <3>1. x \div 2000 \in Nat /\ x = 2000 * (x \div 2000)
        BY <2>1, SMT
      <3> QED
        BY <3>1
    <2>2. /\ income \in Nat /\ income % 2000 = 0 /\ income' = income + STEP
          /\ STEP \in Nat /\ STEP % 2000 = 0
      BY <1>3, IncomeAssumption DEF IncomeInv, EarnMore
    <2>3. PICK n \in Nat : income = 2000 * n
      BY <2>1, <2>2
    <2>4. PICK s \in Nat : STEP = 2000 * s
      BY <2>1, <2>2
    <2> DEFINE m == n + s
    <2>5. m \in Nat /\ n <= m /\ income' = 2000 * m
      BY <2>2, <2>3, <2>4
    <2> HIDE DEF m
    <2>6. ~ Jumps(assessee, n, m)
      BY <1>3, <2>3, <2>5, SMT DEF Jumps, OldRebateLost, Lakh
    <2>7. assessee \in Assessees
      BY <1>3 DEF IncomeInv
    <2>8. Rises(assessee, n, m)
      BY <2>5, <2>6, <2>7, AllRise
    <2> DEFINE now == BeforeCess(assessee, income)
               then == BeforeCess(assessee, income')
    <2>9. now \in Int /\ then \in Int /\ now <= then /\ then <= now + 2000 * (m - n)
      BY <2>3, <2>5, <2>8 DEF Rises
    <2> HIDE DEF now, then
    <2>10. RoundedTax(now) <= RoundedTax(then)
      BY <2>9, RoundingKeeps
    <2>11. then <= now + (income' - income)
      BY <2>3, <2>5, <2>9
    <2> QED
      BY <2>9, <2>10, <2>11 DEF now, then
  <1>4. IncomeInv /\ [EarnMore]_incomeVars
          => [EarnMore /\ ~OldRebateLost =>
               LET now == BeforeCess(assessee, income)
                   then == BeforeCess(assessee, income')
               IN  /\ now <= then /\ then <= now + (income' - income)
                   /\ RoundedTax(now) <= RoundedTax(then)]_incomeVars
    BY <1>3
  <1> QED
    BY <1>1, <1>2, <1>4, PTL DEF IncomeSpec, NeverWorseOffForEarning

----------------------------------------------------------------------------
\* GST: a line of an invoice and the credit notes against it.

LEMMA DivIs ==
    ASSUME NEW x \in Int, NEW d \in Nat, d > 0
    PROVE  x \div d \in Int /\ d * (x \div d) <= x /\ x < d * (x \div d) + d
  <1>1. x \div d \in Int
    BY SMT
  <1>2. x % d \in 0 .. (d - 1) /\ x = d * (x \div d) + (x % d)
    BY SMT
  <1> QED
    BY <1>1, <1>2

\* A quotient is rounded by no more than a half.
LEMMA RatioIs ==
    ASSUME NEW a \in Nat, NEW b \in Nat, b > 0
    PROVE  /\ Ratio(a, b) \in Nat
           /\ 2 * (b * Ratio(a, b)) <= 2 * a + b /\ 2 * a <= 2 * (b * Ratio(a, b)) + b
  <1> DEFINE x == 2 * a + b
             d == 2 * b
             q == x \div d
  <1>1. x \in Int /\ d \in Nat /\ d > 0 /\ x > 0
    OBVIOUS
  <1>2. Ratio(a, b) = q
    BY DEF Ratio
  <1> HIDE DEF x, d
  <1>3. q \in Int /\ d * q <= x /\ x < d * q + d
    BY <1>1, DivIs
  <1> HIDE DEF q
  <1>4. d * q = 2 * (b * q) /\ b * q \in Int
    BY <1>3 DEF d
  <1>5. q >= 0
    <2>1. SUFFICES ASSUME q < 0 PROVE FALSE
      BY <1>3
    <2>2. - q - 1 \in Nat
      BY <1>3, <2>1
    <2>3. d * (- q - 1) \in Nat
      BY <1>1, <2>2
    <2>4. d * (- q - 1) = - (d * q) - d
      BY <1>1, <1>3
    <2>5. d * q \in Int
      BY <1>1, <1>3
    <2> QED
      BY <1>1, <1>3, <2>3, <2>4, <2>5
  <1> QED
    BY <1>2, <1>3, <1>4, <1>5 DEF x, d

\* Amounts of whole paise, and what rounding to them does.
WholePaise(a) == \E k \in Int : a = 100 * k

LEMMA Round2Is ==
    ASSUME NEW a \in Int
    PROVE  /\ Round2(a) \in Int /\ WholePaise(Round2(a))
           /\ a - 50 <= Round2(a) /\ Round2(a) <= a + 50
  <1> DEFINE q == (2 * a + 100) \div 200
  <1>1. q \in Int /\ 200 * q <= 2 * a + 100 /\ 2 * a + 100 < 200 * q + 200
    BY SMT
  <1>2. Round2(a) = 100 * q
    BY DEF Round2, Ratio, PAISA
  <1> HIDE DEF q
  <1> QED
    BY <1>1, <1>2 DEF WholePaise

LEMMA PaiseAreInts == ASSUME NEW a, WholePaise(a) PROVE a \in Int
  BY DEF WholePaise

LEMMA PaiseStay ==
    ASSUME NEW a, WholePaise(a)
    PROVE  Round2(a) = a
  <1>1. PICK k \in Int : a = 100 * k
    BY DEF WholePaise
  <1>2. (2 * a + 100) \div 200 = k
    BY <1>1, SMT
  <1>3. Round2(a) = 100 * ((2 * a + 100) \div 200)
    BY DEF Round2, Ratio, PAISA
  <1> QED
    BY <1>1, <1>2, <1>3

LEMMA PaiseBelow ==
    ASSUME NEW a \in Int, NEW b, WholePaise(b), a <= b
    PROVE  Round2(a) <= b
  <1>1. PICK k \in Int : b = 100 * k
    BY DEF WholePaise
  <1> DEFINE q == (2 * a + 100) \div 200
  <1>2. q \in Int /\ 200 * q <= 2 * a + 100
    BY SMT
  <1>3. Round2(a) = 100 * q
    BY DEF Round2, Ratio, PAISA
  <1> HIDE DEF q
  <1> QED
    BY <1>1, <1>2, <1>3

LEMMA PaiseAdd ==
    ASSUME NEW a, NEW b, WholePaise(a), WholePaise(b)
    PROVE  WholePaise(a - b)
  <1>1. PICK k \in Int : a = 100 * k
    BY DEF WholePaise
  <1>2. PICK j \in Int : b = 100 * j
    BY DEF WholePaise
  <1>3. a - b = 100 * (k - j) /\ k - j \in Int
    BY <1>1, <1>2
  <1> QED
    BY <1>3 DEF WholePaise

\* The two halves of a tax.
LEMMA HalvesAre ==
    ASSUME NEW total, WholePaise(total)
    PROVE  LET halves == SplitIntoHalves(total)
           IN  /\ halves[1] \in Int /\ halves[2] \in Int
               /\ halves[1] + halves[2] = total /\ Distance(halves[1], halves[2]) <= 100
  <1>1. PICK k \in Int : total = 100 * k
    BY DEF WholePaise
  <1> DEFINE first == 100 * ((2 * total + 200) \div 400)
  <1>2. Round2(total) = total
    BY PaiseStay
  <1>3. SplitIntoHalves(total) = << first, total - first >>
    BY <1>2 DEF SplitIntoHalves, Ratio, PAISA
  <1>4. first \in Int /\ 2 * first <= total + 100 /\ total + 100 < 2 * first + 200
    BY <1>1, SMT
  <1> HIDE DEF first
  <1>5. SplitIntoHalves(total)[1] = first /\ SplitIntoHalves(total)[2] = total - first
    BY <1>3
  <1>6. 2 * first <= total + 100 /\ total - 100 <= 2 * first
    BY <1>1, <1>4
  <1>7. Distance(first, total - first) <= 100
    BY <1>1, <1>4, <1>6 DEF Distance
  <1> QED
    BY <1>1, <1>4, <1>5, <1>7

\* A value unwound from a price: the tax left in the price is the rate on it, but
\* for half a paisa of rounding, weighed up by the rate.
LEMMA Unwound ==
    ASSUME NEW net \in Nat, WholePaise(net), NEW s \in Nat
    PROVE  LET T == TaxableInside(net, s)
               A == 100 * (net - T) - s * T
           IN  /\ T \in Int /\ WholePaise(T) /\ T <= net
               /\ s * T \in Int
               /\ 2 * A <= 101 * (100 + s) /\ - (101 * (100 + s)) <= 2 * A
               /\ s = 0 => T = net
  <1> DEFINE d == 100 + s
             x == Ratio(net * s, d)
             I == net - x
             T == Round2(I)
  <1>1. net * s \in Nat /\ d \in Nat /\ d > 0
    OBVIOUS
  <1>2. TaxableInside(net, s) = T
    BY DEF TaxableInside, NetFromInclusive
  <1>3. x \in Nat /\ 2 * (d * x) <= 2 * (net * s) + d /\ 2 * (net * s) <= 2 * (d * x) + d
    <2> HIDE DEF d
    <2> QED
      BY <1>1, RatioIs
  <1> HIDE DEF x
  <1>4. I \in Int /\ I <= net
    BY <1>3
  <1>5. T \in Int /\ WholePaise(T) /\ I - 50 <= T /\ T <= I + 50
    BY <1>4, Round2Is
  <1>6. T <= net
    BY <1>4, PaiseBelow
  <1>7. s = 0 => T = net
    <2>1. SUFFICES ASSUME s = 0 PROVE T = net
      OBVIOUS
    <2>2. net * s = 0 /\ d = 100
      BY <2>1
    <2>3. 2 * (100 * x) <= 100
      BY <1>3, <2>2
    <2>4. x = 0
      BY <1>3, <2>3
    <2>5. I = net
      BY <2>4
    <2> QED
      BY <2>5, PaiseStay
  <1> DEFINE e == T - I
             A == 100 * (net - T) - s * T
  <1> HIDE DEF T
  <1>8. e \in Int /\ -50 <= e /\ e <= 50
    BY <1>4, <1>5
  <1>9. A = d * x - net * s - d * e /\ d * x \in Int /\ d * e \in Int /\ s * T \in Int
    BY <1>3, <1>5
  <1>10. d * e <= 50 * d /\ - (50 * d) <= d * e
    <2>1. d * (50 - e) \in Nat /\ d * (50 + e) \in Nat
      BY <1>1, <1>8
    <2>2. d * (50 - e) = 50 * d - d * e /\ d * (50 + e) = 50 * d + d * e
      BY <1>1, <1>8
    <2> QED
      BY <1>1, <1>9, <2>1, <2>2
  <1> DEFINE p == d * x
             q == d * e
             r == net * s
  <1>11. A = p - r - q /\ p \in Int /\ q \in Int /\ r \in Nat /\ d \in Nat
         /\ 2 * p <= 2 * r + d /\ 2 * r <= 2 * p + d /\ q <= 50 * d /\ - (50 * d) <= q
    BY <1>1, <1>3, <1>9, <1>10
  <1>12. A \in Int
    BY <1>11
  <1> HIDE DEF p, q, r, A, d
  <1>13. 2 * A <= 101 * d /\ - (101 * d) <= 2 * A
    BY <1>11
  <1> QED
    BY <1>2, <1>5, <1>6, <1>7, <1>9, <1>13 DEF A, d

\* The cess in a tax: its share, but for half a paisa and what a share of four
\* decimals strays by.
CessOf(combined, cess, s) == Round2(Ratio(combined * Ratio(10000 * cess, s), 10000))

LEMMA CessOfIs ==
    ASSUME NEW C \in Nat, NEW c \in Nat, NEW s \in Nat, s > 0
    PROVE  LET K == CessOf(C, c, s)
               B == s * K - c * C
           IN  /\ K \in Int /\ WholePaise(K) /\ s * K \in Int /\ c * C \in Int
               /\ 20000 * B <= 10100 * 100 * s + s * C /\ - (10100 * 100 * s + s * C) <= 20000 * B
  <1> DEFINE r == Ratio(10000 * c, s)
             y == Ratio(C * r, 10000)
             K == Round2(y)
  <1>1. r \in Nat /\ 2 * (s * r) <= 2 * (10000 * c) + s /\ 2 * (10000 * c) <= 2 * (s * r) + s
    <2>1. 10000 * c \in Nat
      OBVIOUS
    <2> QED
      BY <2>1, RatioIs
  <1> HIDE DEF r
  <1>2. y \in Nat /\ 2 * (10000 * y) <= 2 * (C * r) + 10000 /\ 2 * (C * r) <= 2 * (10000 * y) + 10000
    <2> DEFINE n == 10000
    <2>1. C * r \in Nat /\ n \in Nat /\ n > 0
      BY <1>1
    <2> HIDE DEF n
    <2>2. Ratio(C * r, n) \in Nat /\ 2 * (n * Ratio(C * r, n)) <= 2 * (C * r) + n
          /\ 2 * (C * r) <= 2 * (n * Ratio(C * r, n)) + n
      BY <2>1, RatioIs
    <2> QED
      BY <2>2 DEF n
  <1> HIDE DEF y
  <1>3. K \in Int /\ WholePaise(K) /\ y - 50 <= K /\ K <= y + 50
    BY <1>2, Round2Is
  <1> HIDE DEF K
  <1>4. s * K \in Int /\ c * C \in Nat /\ s * y \in Nat /\ s * C \in Nat /\ C * r \in Nat /\ s * r \in Nat
    BY <1>1, <1>2, <1>3
  <1>5. s * K <= s * y + 50 * s /\ s * y - 50 * s <= s * K
    <2>1. s * (y + 50 - K) \in Nat /\ s * (K - y + 50) \in Nat
      BY <1>2, <1>3
    <2>2. s * (y + 50 - K) = s * y + 50 * s - s * K /\ s * (K - y + 50) = s * K - s * y + 50 * s
      BY <1>2, <1>3
    <2> QED
      BY <1>4, <2>1, <2>2
  <1> DEFINE u == s * (C * r)
  <1>6. u \in Nat /\ 20000 * (s * y) <= 2 * u + 10000 * s /\ 2 * u <= 20000 * (s * y) + 10000 * s
    <2>1. s * (2 * (C * r) + 10000 - 20000 * y) \in Nat /\ s * (20000 * y + 10000 - 2 * (C * r)) \in Nat
      BY <1>2, <1>4
    <2>2. /\ s * (2 * (C * r) + 10000 - 20000 * y) = 2 * u + 10000 * s - 20000 * (s * y)
          /\ s * (20000 * y + 10000 - 2 * (C * r)) = 20000 * (s * y) + 10000 * s - 2 * u
      BY <1>1, <1>2
    <2>3. u \in Nat
      BY <1>4
    <2> HIDE DEF u
    <2> QED
      BY <1>4, <2>1, <2>2, <2>3
  <1>7. 2 * u <= 20000 * (c * C) + s * C /\ 20000 * (c * C) <= 2 * u + s * C
    <2>1. C * (20000 * c + s - 2 * (s * r)) \in Nat /\ C * (2 * (s * r) + s - 20000 * c) \in Nat
      BY <1>1, <1>4
    <2>2. /\ C * (20000 * c + s - 2 * (s * r)) = 20000 * (c * C) + s * C - 2 * u
          /\ C * (2 * (s * r) + s - 20000 * c) = 2 * u + s * C - 20000 * (c * C)
      BY <1>1
    <2> HIDE DEF u
    <2> QED
      BY <1>4, <1>6, <2>1, <2>2
  <1> DEFINE sK == s * K
             cC == c * C
             sy == s * y
             sC == s * C
  <1>8. /\ sK \in Int /\ cC \in Nat /\ sy \in Nat /\ sC \in Nat
        /\ sK <= sy + 50 * s /\ sy - 50 * s <= sK
        /\ 20000 * sy <= 2 * u + 10000 * s /\ 2 * u <= 20000 * sy + 10000 * s
        /\ 2 * u <= 20000 * cC + sC /\ 20000 * cC <= 2 * u + sC
    BY <1>4, <1>5, <1>6, <1>7
  <1> HIDE DEF sK, cC, sy, sC, u
  <1>9. /\ 20000 * (sK - cC) <= 10100 * 100 * s + sC /\ - (10100 * 100 * s + sC) <= 20000 * (sK - cC)
    BY <1>6, <1>8
  <1>10. CessOf(C, c, s) = K
    BY DEF CessOf, K, y, r
  <1> QED
    BY <1>3, <1>8, <1>9, <1>10 DEF sK, cC, sC

\* A tax and a cess that together come to the rate on the value each come to
\* their own.
LEMMA CancelTimes ==
    ASSUME NEW s \in Nat, s > 0, NEW x \in Int, NEW y \in Int, s * x <= s * y
    PROVE  x <= y
  <1>1. SUFFICES ASSUME x > y PROVE FALSE
    OBVIOUS
  <1>2. s * (x - y - 1) \in Nat
    BY <1>1
  <1>3. s * (x - y - 1) = s * x - s * y - s /\ s * x \in Int /\ s * y \in Int
    OBVIOUS
  <1> QED
    BY <1>2, <1>3

LEMMA SharesAre ==
    ASSUME NEW C \in Nat, NEW c \in Nat, NEW s \in Nat, s > 0, c <= s, NEW A \in Int, NEW T \in Int,
           A = 100 * C - s * T, 2 * A <= 101 * (100 + s), - (101 * (100 + s)) <= 2 * A,
           NEW K \in Int, 20000 * (s * K - c * C) <= 10100 * 100 * s + s * C,
           - (10100 * 100 * s + s * C) <= 20000 * (s * K - c * C)
    PROVE  LET D == 100 * K - c * T
           IN  200 * D <= 10100 * 100 + C + 10100 * (100 + s) /\ - (10100 * 100 + C + 10100 * (100 + s)) <= 200 * D
  <1> DEFINE D == 100 * K - c * T
             d == 100 + s
             m == 10100 * 100 + C + 10100 * d
             B == s * K - c * C
  <1>1. s * K \in Int /\ c * C \in Int /\ c * T \in Int /\ s * T \in Int /\ s * C \in Nat
    OBVIOUS
  <1>2. D \in Int /\ B \in Int /\ d \in Nat /\ m \in Nat
    BY <1>1
  <1>3. s * D = 100 * B + c * A
    BY <1>1
  <1>4. 2 * (c * A) <= 101 * (s * d) /\ - (101 * (s * d)) <= 2 * (c * A) /\ c * A \in Int /\ s * d \in Nat
    <2>1. c * (101 * d - 2 * A) \in Nat /\ c * (101 * d + 2 * A) \in Nat
      BY <1>2
    <2>2. /\ c * (101 * d - 2 * A) = 101 * (c * d) - 2 * (c * A)
          /\ c * (101 * d + 2 * A) = 101 * (c * d) + 2 * (c * A)
      BY <1>2
    <2>3. c * d <= s * d
      <3>1. (s - c) * d \in Nat /\ (s - c) * d = s * d - c * d /\ c * d \in Int /\ s * d \in Int
        BY <1>2
      <3> QED
        BY <3>1
    <2>4. c * d \in Int /\ s * d \in Nat /\ c * A \in Int
      BY <1>2
    <2> QED
      BY <2>1, <2>2, <2>3, <2>4
  <1>5. s * m = 10100 * 100 * s + s * C + 10100 * (s * d)
    BY <1>2
  <1> DEFINE sD == s * D
             cA == c * A
             sd == s * d
             sC == s * C
             sm == s * m
  <1>6. /\ sD = 100 * B + cA /\ cA \in Int /\ sd \in Nat /\ sC \in Nat
        /\ 2 * cA <= 101 * sd /\ - (101 * sd) <= 2 * cA
        /\ sm = 10100 * 100 * s + sC + 10100 * sd
        /\ 20000 * B <= 10100 * 100 * s + sC /\ - (10100 * 100 * s + sC) <= 20000 * B
    BY <1>1, <1>3, <1>4, <1>5
  <1> HIDE DEF sD, cA, sd, sC, sm, B
  <1>7. 200 * sD <= sm /\ - sm <= 200 * sD
    BY <1>2, <1>6
  <1> HIDE DEF D, m
  <1>8. s * (200 * D) <= s * m /\ s * (- (200 * D)) <= s * m
    <2>1. s * (200 * D) = 200 * sD /\ s * (- (200 * D)) = - (200 * sD) /\ s * m = sm
      BY <1>2 DEF sD, sm
    <2>2. sD \in Int /\ sm \in Int
      BY <1>2 DEF sD, sm
    <2> QED
      BY <1>7, <2>1, <2>2
  <1>9. 200 * D <= m
    BY <1>2, <1>8, CancelTimes
  <1>10. - (200 * D) <= m
    <2>1. - (200 * D) \in Int
      BY <1>2
    <2> QED
      BY <1>2, <1>8, <2>1, CancelTimes
  <1>11. - m <= 200 * D
    BY <1>2, <1>10
  <1> QED
    BY <1>9, <1>11 DEF D, m, d

\* A line as it may be keyed in, and the figures it is worked out through.
Supplies == {"NON_GST", "EXPORT", "INTRA_STATE", "INTER_STATE"}
LineOK(l) ==
    /\ l.quantity \in Nat /\ l.rate \in Nat /\ WholePaise(l.rate)
    /\ l.discountPercent \in 0 .. 100 /\ l.taxPercent \in Nat /\ l.cessPercent \in Nat
    /\ l.inclusive \in BOOLEAN /\ l.supply \in Supplies
RateOn(l) == IF ChargesTax(l.supply) THEN l.taxPercent ELSE 0
CessOn(l) == IF ChargesTax(l.supply) THEN l.cessPercent ELSE 0
NetOf(l) == l.quantity * l.rate - Round2(Portion(l.quantity * l.rate, l.discountPercent))
ValueOf(l) == IF l.inclusive THEN TaxableInside(NetOf(l), RateOn(l) + CessOn(l)) ELSE NetOf(l)
TaxesOf(l) == IF l.inclusive THEN SplitInclusiveTax(NetOf(l), ValueOf(l), RateOn(l), CessOn(l))
              ELSE [tax |-> Round2(Portion(ValueOf(l), RateOn(l))), cess |-> Round2(Portion(ValueOf(l), CessOn(l)))]

LEMMA NetAmountIs ==
    ASSUME NEW l, LineOK(l)
    PROVE  NetOf(l) \in Nat /\ WholePaise(NetOf(l))
           /\ (l.discountPercent = 0 => NetOf(l) = l.quantity * l.rate)
  <1> DEFINE gross == l.quantity * l.rate
             d == l.discountPercent
             x == Portion(gross, d)
  <1>1. gross \in Nat /\ WholePaise(gross) /\ d \in 0 .. 100
    <2>1. PICK k \in Int : l.rate = 100 * k
      BY DEF LineOK, WholePaise
    <2>2. l.quantity \in Nat /\ l.rate \in Nat /\ d \in 0 .. 100
      BY DEF LineOK
    <2>3. l.quantity * l.rate = 100 * (l.quantity * k) /\ l.quantity * k \in Int
      BY <2>1, <2>2
    <2> QED
      BY <2>2, <2>3 DEF WholePaise
  <1> HIDE DEF gross, d
  <1>2. x \in Nat /\ 200 * x <= 2 * (gross * d) + 100 /\ gross * d \in Nat
    <2> DEFINE n == 100
    <2>1. gross * d \in Nat /\ n \in Nat /\ n > 0
      BY <1>1
    <2> HIDE DEF n
    <2>2. Ratio(gross * d, n) \in Nat /\ 2 * (n * Ratio(gross * d, n)) <= 2 * (gross * d) + n
      BY <2>1, RatioIs
    <2>3. x = Ratio(gross * d, n)
      BY DEF Portion, n
    <2> QED
      BY <2>1, <2>2, <2>3 DEF n
  <1> HIDE DEF x
  <1>3. gross * d <= 100 * gross
    <2>1. gross * (100 - d) \in Nat /\ gross * (100 - d) = 100 * gross - gross * d
      BY <1>1
    <2> QED
      BY <1>1, <1>2, <2>1
  <1>4. x <= gross
    <2> DEFINE p == gross * d
    <2>1. p \in Nat /\ 200 * x <= 2 * p + 100 /\ p <= 100 * gross
      BY <1>2, <1>3
    <2> HIDE DEF p
    <2> QED
      BY <1>1, <1>2, <2>1
  <1>5. Round2(x) \in Int /\ WholePaise(Round2(x)) /\ Round2(x) <= gross
    <2>1. x \in Int
      BY <1>2
    <2> QED
      BY <1>1, <1>4, <2>1, Round2Is, PaiseBelow
  <1>6. NetOf(l) = gross - Round2(x)
    BY DEF NetOf, gross, x, d
  <1>7. d = 0 => Round2(x) = 0
    <2>1. SUFFICES ASSUME d = 0 PROVE Round2(x) = 0
      OBVIOUS
    <2>2. gross * d = 0
      BY <1>1, <2>1
    <2>3. x = 0
      BY <1>2, <2>2
    <2>4. 0 = 100 * 0 /\ 0 \in Int
      OBVIOUS
    <2>5. WholePaise(x)
      BY <2>3, <2>4 DEF WholePaise
    <2> QED
      BY <2>3, <2>5, PaiseStay
  <1>8. NetOf(l) \in Nat /\ WholePaise(NetOf(l))
    BY <1>1, <1>5, <1>6, PaiseAdd
  <1>9. d = 0 => NetOf(l) = gross
    BY <1>1, <1>6, <1>7
  <1> QED
    BY <1>8, <1>9 DEF d, gross

LEMMA LineIs ==
    ASSUME NEW l, LineOK(l), WholePaise(TaxesOf(l).tax)
    PROVE  LET result == ComputeLine(l)
           IN  /\ result.charged = NetOf(l) /\ result.taxable = ValueOf(l) /\ result.cess = TaxesOf(l).cess
               /\ ChargesTax(l.supply) => GstOf(result) = TaxesOf(l).tax
               /\ ~ ChargesTax(l.supply) => GstOf(result) = 0
               /\ Distance(result.cgst, result.sgst) <= 100
  <1> DEFINE result == ComputeLine(l)
             tax == TaxesOf(l).tax
             halves == SplitIntoHalves(tax)
             intra == l.supply = "INTRA_STATE"
  <1>1. Round2(NetOf(l)) = NetOf(l)
    BY NetAmountIs, PaiseStay
  <1>2. result = [charged |-> NetOf(l), taxable |-> ValueOf(l),
                  cgst |-> IF intra THEN halves[1] ELSE 0,
                  sgst |-> IF intra THEN halves[2] ELSE 0,
                  igst |-> IF l.supply = "INTER_STATE" THEN tax ELSE 0,
                  cess |-> TaxesOf(l).cess]
    BY <1>1 DEF ComputeLine, NetOf, ValueOf, TaxesOf, RateOn, CessOn
  <1>3. /\ result.charged = NetOf(l) /\ result.taxable = ValueOf(l) /\ result.cess = TaxesOf(l).cess
        /\ result.cgst = IF intra THEN halves[1] ELSE 0
        /\ result.sgst = IF intra THEN halves[2] ELSE 0
        /\ result.igst = IF l.supply = "INTER_STATE" THEN tax ELSE 0
    BY <1>2
  <1>4. /\ halves[1] \in Int /\ halves[2] \in Int /\ halves[1] + halves[2] = tax
        /\ Distance(halves[1], halves[2]) <= 100
    BY HalvesAre
  <1>5. tax \in Int
    BY PaiseAreInts
  <1> HIDE DEF result, tax, halves
  <1>6. GstOf(result) = (IF intra THEN halves[1] ELSE 0) + (IF intra THEN halves[2] ELSE 0)
                           + (IF l.supply = "INTER_STATE" THEN tax ELSE 0)
    BY <1>3 DEF GstOf
  <1>7. CASE intra
    <2>1. GstOf(result) = halves[1] + halves[2] + 0
      BY <1>6, <1>7
    <2>2. GstOf(result) = tax
      BY <1>4, <1>5, <2>1
    <2>3. ChargesTax(l.supply)
      BY <1>7 DEF ChargesTax
    <2> QED
      BY <1>3, <1>4, <1>7, <2>2, <2>3 DEF result, tax
  <1>8. CASE ~ intra
    <2>1. GstOf(result) = IF l.supply = "INTER_STATE" THEN tax ELSE 0
      BY <1>5, <1>6, <1>8
    <2>2. ChargesTax(l.supply) <=> l.supply = "INTER_STATE"
      BY <1>8 DEF ChargesTax
    <2>3. Distance(0, 0) <= 100
      BY DEF Distance
    <2> QED
      BY <1>3, <1>8, <2>1, <2>2, <2>3 DEF result, tax
  <1> QED
    BY <1>7, <1>8

\* A tax added to a value: the rate on it, but for the roundings.
TaxOn(x, value, rate) ==
    /\ x \in Int /\ WholePaise(x) /\ value * rate \in Nat
    /\ 100 * x <= value * rate + 5050 /\ value * rate - 5050 <= 100 * x
    /\ rate = 0 => x = 0

LEMMA AddedTaxIs ==
    ASSUME NEW value \in Nat, NEW rate \in Nat
    PROVE  TaxOn(Round2(Portion(value, rate)), value, rate)
  <1> DEFINE x == Portion(value, rate)
             X == Round2(x)
             p == value * rate
  <1>1. p \in Nat /\ x \in Nat /\ 200 * x <= 2 * p + 100 /\ 2 * p <= 200 * x + 100
    <2> DEFINE n == 100
    <2>1. p \in Nat /\ n \in Nat /\ n > 0
      OBVIOUS
    <2> HIDE DEF n, p
    <2>2. Ratio(p, n) \in Nat /\ 2 * (n * Ratio(p, n)) <= 2 * p + n /\ 2 * p <= 2 * (n * Ratio(p, n)) + n
      BY <2>1, RatioIs
    <2>3. x = Ratio(p, n)
      BY DEF Portion, n, p
    <2> QED
      BY <2>1, <2>2, <2>3 DEF n
  <1>2. rate = 0 => p = 0
    OBVIOUS
  <1> HIDE DEF x, p
  <1>3. x \in Int /\ X \in Int /\ WholePaise(X) /\ x - 50 <= X /\ X <= x + 50
    BY <1>1, Round2Is
  <1>4. rate = 0 => X = 0
    <2>1. SUFFICES ASSUME rate = 0 PROVE X = 0
      OBVIOUS
    <2>2. x = 0
      BY <1>1, <1>2, <2>1
    <2>3. 0 = 100 * 0 /\ 0 \in Int
      OBVIOUS
    <2>4. WholePaise(x)
      BY <2>2, <2>3 DEF WholePaise
    <2> QED
      BY <2>2, <2>4, PaiseStay
  <1> HIDE DEF X
  <1>5. 100 * X <= p + 5050 /\ p - 5050 <= 100 * X
    BY <1>1, <1>3
  <1>6. X \in Int /\ WholePaise(X) /\ value * rate \in Nat /\ 100 * X <= value * rate + 5050
        /\ value * rate - 5050 <= 100 * X /\ (rate = 0 => X = 0)
    BY <1>1, <1>3, <1>4, <1>5 DEF p
  <1>7. TaxOn(X, value, rate)
    BY ONLY <1>6 DEF TaxOn
  <1> QED
    BY <1>7 DEF X, x

\* How far a tax taken out of a price may stray, a hundred times over.
Strays(combined, t, c) == (100 + t + c) * 51 + (IF c = 0 THEN 0 ELSE 100 * 51 + combined \div 200)

LEMMA StraysIs ==
    ASSUME NEW C \in Nat, NEW t \in Nat, NEW c \in Nat
    PROVE  /\ Strays(C, t, c) \in Nat /\ 101 * (100 + t + c) <= 2 * Strays(C, t, c)
           /\ c > 0 => 10100 * 100 + C + 10100 * (100 + t + c) <= 200 * Strays(C, t, c)
  <1>1. C \div 200 \in Nat /\ C < 200 * (C \div 200) + 200
    BY SMT
  <1> DEFINE q == C \div 200
  <1>2. q \in Nat /\ C < 200 * q + 200
    BY <1>1
  <1> HIDE DEF q
  <1>3. Strays(C, t, c) = (100 + t + c) * 51 + (IF c = 0 THEN 0 ELSE 100 * 51 + q)
    BY DEF Strays, q
  <1> QED
    BY <1>2, <1>3

LEMMA StraysIsNat == ASSUME NEW C \in Nat, NEW t \in Nat, NEW c \in Nat PROVE Strays(C, t, c) \in Nat
  BY StraysIs

\* A tax taken out of a price: value and taxes are the price again, and each tax
\* is the rate on the value but for what it may stray.
TakenOut(T, R, net, t, c) ==
    /\ T \in Int /\ net - T \in Nat /\ WholePaise(R.tax) /\ R.cess \in Int /\ R.tax + R.cess = net - T
    /\ Distance(100 * R.tax, T * t) <= Strays(net - T, t, c)
    /\ Distance(100 * R.cess, T * c) <= Strays(net - T, t, c)
    /\ t + c = 0 => R.tax = 0 /\ R.cess = 0

LEMMA InclusiveTaxIs ==
    ASSUME NEW net \in Nat, WholePaise(net), NEW t \in Nat, NEW c \in Nat
    PROVE  LET T == TaxableInside(net, t + c)
           IN  TakenOut(T, SplitInclusiveTax(net, T, t, c), net, t, c)
  <1> DEFINE s == t + c
             T == TaxableInside(net, s)
             C == net - T
             R == SplitInclusiveTax(net, T, t, c)
             M == Strays(C, t, c)
             A == 100 * C - s * T
  <1> SUFFICES /\ T \in Int /\ C \in Nat /\ WholePaise(R.tax) /\ R.cess \in Int /\ R.tax + R.cess = C
               /\ Distance(100 * R.tax, T * t) <= M
               /\ Distance(100 * R.cess, T * c) <= M
               /\ s = 0 => R.tax = 0 /\ R.cess = 0
    <2>1. SUFFICES TakenOut(T, R, net, t, c)
      OBVIOUS
    <2> HIDE DEF T, R
    <2> QED
      BY DEF TakenOut
  <1>1. s \in Nat
    OBVIOUS
  <1>2. /\ T \in Int /\ WholePaise(T) /\ T <= net /\ s * T \in Int
        /\ 2 * A <= 101 * (100 + s) /\ - (101 * (100 + s)) <= 2 * A /\ (s = 0 => T = net)
    <2> HIDE DEF s
    <2> QED
      BY <1>1, Unwound
  <1> HIDE DEF T
  <1>3. C \in Nat /\ WholePaise(C)
    <2>1. C \in Nat
      BY <1>2
    <2>2. WholePaise(net - T)
      BY <1>2, PaiseAdd
    <2> QED
      BY <2>1, <2>2
  <1>4. M \in Nat /\ 101 * (100 + s) <= 2 * M /\ (c > 0 => 10100 * 100 + C + 10100 * (100 + s) <= 200 * M)
    <2>1. C \in Nat
      BY <1>3
    <2> HIDE DEF C
    <2>2. M \in Nat /\ 101 * (100 + t + c) <= 2 * M
      <3>1. M \in Nat
        BY <2>1, StraysIsNat
      <3>2. 101 * (100 + t + c) <= 2 * M
        BY <2>1, StraysIs
      <3> QED
        BY <3>1, <3>2
    <2>3. c > 0 => 10100 * 100 + C + 10100 * (100 + t + c) <= 200 * M
      BY <2>1, StraysIs
    <2>4. 100 + s = 100 + t + c
      OBVIOUS
    <2> HIDE DEF M, s
    <2> QED
      BY <2>2, <2>3, <2>4
  <1>5. 0 = 100 * 0 /\ 0 \in Int
    OBVIOUS
  <1>6. WholePaise(0)
    BY <1>5 DEF WholePaise
  <1>7. T * t \in Int /\ T * c \in Int /\ A \in Int
    BY <1>2, <1>3
  <1>8. CASE s = 0
    <2>1. R = [tax |-> 0, cess |-> 0]
      BY <1>8 DEF SplitInclusiveTax
    <2>2. R.tax = 0 /\ R.cess = 0
      BY <2>1
    <2>3. t = 0 /\ c = 0 /\ C = 0
      BY <1>2, <1>8
    <2>4. T * t = 0 /\ T * c = 0
      BY <1>2, <2>3
    <2>5. 100 * 0 = 0 /\ 0 <= M /\ Distance(0, 0) = 0
      BY <1>4 DEF Distance
    <2> HIDE DEF R, M, C
    <2> QED
      BY <1>2, <1>3, <1>6, <2>2, <2>3, <2>4, <2>5
  <1>9. CASE s # 0
    <2> DEFINE K == IF c = 0 \/ C = 0 THEN 0 ELSE CessOf(C, c, s)
    <2>1. R = [tax |-> C - K, cess |-> K]
      BY <1>9 DEF SplitInclusiveTax, CessOf
    <2>2. R.tax = C - K /\ R.cess = K
      BY <2>1
    <2> HIDE DEF R
    <2>3. K \in Int /\ WholePaise(K)
      <3>1. CASE c = 0 \/ C = 0
        BY <1>6, <3>1
      <3>2. CASE ~ (c = 0 \/ C = 0)
        <4>1. s > 0
          BY <1>9
        <4>2. CessOf(C, c, s) \in Int /\ WholePaise(CessOf(C, c, s))
          <5> HIDE DEF C, s
          <5> QED
            BY <1>1, <1>3, <4>1, CessOfIs
        <4> QED
          BY <3>2, <4>2
      <3> QED
        BY <3>1, <3>2
    <2>4. WholePaise(R.tax) /\ R.cess \in Int /\ R.tax + R.cess = C
      <3> HIDE DEF C, K
      <3> QED
        BY <1>3, <2>2, <2>3, PaiseAdd
    <2>5. CASE c = 0
      <3>1. K = 0 /\ s = t
        BY <2>5
      <3>2. A = 100 * C - T * t /\ T * c = 0
        BY <1>2, <2>5, <3>1
      <3> DEFINE p == T * t
      <3>3. p \in Int /\ A = 100 * C - p /\ T * c = 0
        BY <1>7, <3>2
      <3> HIDE DEF A, M, C, p, K
      <3>4. Distance(100 * C, p) <= M
        BY <1>2, <1>3, <1>4, <3>3 DEF Distance
      <3>5. Distance(100 * 0, 0) <= M
        BY <1>4 DEF Distance
      <3>6. R.tax = C /\ R.cess = 0
        BY <1>3, <2>2, <3>1
      <3> QED
        BY <1>2, <1>3, <1>9, <2>4, <3>3, <3>4, <3>5, <3>6 DEF p
    <2>6. CASE c # 0
      <3> DEFINE B == s * K - c * C
      <3>1. 20000 * B <= 10100 * 100 * s + s * C /\ - (10100 * 100 * s + s * C) <= 20000 * B
            /\ s * K \in Int /\ c * C \in Int /\ s * C \in Nat
        <4>1. CASE C = 0
          <5>1. K = 0 /\ s * K = 0 /\ c * C = 0 /\ s * C = 0
            BY <4>1
          <5> QED
            BY <5>1
        <4>2. CASE C # 0
          <5>1. K = CessOf(C, c, s)
            BY <2>6, <4>2
          <5>2. s > 0 /\ s * C \in Nat
            BY <1>3, <1>9
          <5> HIDE DEF C, s, K
          <5> QED
            BY <1>1, <1>3, <5>1, <5>2, CessOfIs
        <4> QED
          BY <4>1, <4>2
      <3>2. s > 0 /\ c <= s /\ t <= s /\ t = s - c
        BY <1>9
      <3>3. C - K \in Int
        BY <1>3, <2>3
      <3>4. s * (C - K) - t * C = - B
        BY <1>2, <1>3, <2>3
      <3>5. B \in Int
        BY <3>1
      <3>6. /\ 20000 * (s * (C - K) - t * C) <= 10100 * 100 * s + s * C
            /\ - (10100 * 100 * s + s * C) <= 20000 * (s * (C - K) - t * C)
        <4> DEFINE sC == s * C
                   F == s * (C - K) - t * C
        <4>1. F = - B /\ sC \in Nat /\ 20000 * B <= 10100 * 100 * s + sC /\ - (10100 * 100 * s + sC) <= 20000 * B
          BY <3>1, <3>4
        <4> HIDE DEF F, sC, B
        <4>2. 20000 * F <= 10100 * 100 * s + sC /\ - (10100 * 100 * s + sC) <= 20000 * F
          BY <3>5, <4>1
        <4> QED
          BY <4>2 DEF F, sC
      <3> DEFINE D == 100 * K - c * T
                 E == 100 * (C - K) - t * T
      <3>7. 200 * D <= 10100 * 100 + C + 10100 * (100 + s) /\ - (10100 * 100 + C + 10100 * (100 + s)) <= 200 * D
        <4> HIDE DEF C, s, K, A
        <4>1. A = 100 * C - s * T
          BY DEF A
        <4> QED
          BY <1>1, <1>2, <1>3, <1>7, <2>3, <3>1, <3>2, <4>1, SharesAre
      <3>8. 200 * E <= 10100 * 100 + C + 10100 * (100 + s) /\ - (10100 * 100 + C + 10100 * (100 + s)) <= 200 * E
        <4> DEFINE L == C - K
        <4> HIDE DEF C, s, K, A, L
        <4>1. A = 100 * C - s * T /\ L \in Int
          BY <3>3 DEF A, L
        <4>2. /\ 20000 * (s * L - t * C) <= 10100 * 100 * s + s * C
              /\ - (10100 * 100 * s + s * C) <= 20000 * (s * L - t * C)
          BY <3>6 DEF L
        <4>3. 200 * (100 * L - t * T) <= 10100 * 100 + C + 10100 * (100 + s)
              /\ - (10100 * 100 + C + 10100 * (100 + s)) <= 200 * (100 * L - t * T)
          BY <1>1, <1>2, <1>3, <1>7, <3>2, <4>1, <4>2, SharesAre
        <4> QED
          BY <4>3 DEF L
      <3> DEFINE m == 10100 * 100 + C + 10100 * (100 + s)
      <3>9. m <= 200 * M /\ m \in Nat
        BY <1>1, <1>3, <1>4, <2>6
      <3>10. Distance(100 * K, T * c) <= M
        <4> DEFINE p == T * c
        <4>1. D = 100 * K - p /\ p \in Int
          BY <1>2, <1>7
        <4> HIDE DEF K, M, p, D, m
        <4>2. 200 * D <= m /\ - m <= 200 * D
          BY <3>7 DEF m
        <4>3. Distance(100 * K, p) <= M
          BY <1>4, <2>3, <3>9, <4>1, <4>2 DEF Distance
        <4> QED
          BY <4>3 DEF p
      <3>11. Distance(100 * (C - K), T * t) <= M
        <4> DEFINE p == T * t
                   L == C - K
        <4>1. E = 100 * L - p /\ p \in Int
          BY <1>2, <1>7
        <4> HIDE DEF M, p, E, m, L
        <4>2. 200 * E <= m /\ - m <= 200 * E /\ L \in Int
          BY <3>3, <3>8 DEF m, L
        <4>3. Distance(100 * L, p) <= M
          BY <1>4, <3>9, <4>1, <4>2 DEF Distance
        <4> QED
          BY <4>3 DEF p, L
      <3> HIDE DEF C, K, M
      <3> QED
        BY <1>2, <1>3, <1>9, <2>2, <2>4, <3>10, <3>11
    <2> QED
      BY <2>5, <2>6
  <1> QED
    BY <1>8, <1>9

\* How a line is taxed, whichever way its price was given.
LEMMA TaxesAre ==
    ASSUME NEW l, LineOK(l)
    PROVE  /\ ValueOf(l) \in Int /\ NetOf(l) - ValueOf(l) \in Nat
           /\ WholePaise(TaxesOf(l).tax) /\ TaxesOf(l).cess \in Int
           /\ ~ ChargesTax(l.supply) => TaxesOf(l).tax = 0 /\ TaxesOf(l).cess = 0
           /\ l.inclusive => /\ TaxesOf(l).tax + TaxesOf(l).cess = NetOf(l) - ValueOf(l)
                             /\ Distance(100 * TaxesOf(l).tax, ValueOf(l) * RateOn(l))
                                   <= Strays(NetOf(l) - ValueOf(l), RateOn(l), CessOn(l))
                             /\ Distance(100 * TaxesOf(l).cess, ValueOf(l) * CessOn(l))
                                   <= Strays(NetOf(l) - ValueOf(l), RateOn(l), CessOn(l))
           /\ ~ l.inclusive => /\ ValueOf(l) = NetOf(l)
                               /\ Distance(100 * TaxesOf(l).tax, ValueOf(l) * RateOn(l)) <= 5100
                               /\ Distance(100 * TaxesOf(l).cess, ValueOf(l) * CessOn(l)) <= 5100
  <1> DEFINE net == NetOf(l)
             t == RateOn(l)
             c == CessOn(l)
             T == ValueOf(l)
             R == TaxesOf(l)
  <1>1. net \in Nat /\ WholePaise(net)
    BY NetAmountIs
  <1>2. t \in Nat /\ c \in Nat /\ (~ ChargesTax(l.supply) => t = 0 /\ c = 0)
    BY DEF LineOK, RateOn, CessOn
  <1>3. CASE l.inclusive
    <2>1. T = TaxableInside(net, t + c) /\ R = SplitInclusiveTax(net, TaxableInside(net, t + c), t, c)
      BY <1>3 DEF ValueOf, TaxesOf
    <2> HIDE DEF net, t, c, T, R
    <2>2. /\ T \in Int /\ net - T \in Nat /\ WholePaise(R.tax) /\ R.cess \in Int /\ R.tax + R.cess = net - T
          /\ Distance(100 * R.tax, T * t) <= Strays(net - T, t, c)
          /\ Distance(100 * R.cess, T * c) <= Strays(net - T, t, c)
          /\ t + c = 0 => R.tax = 0 /\ R.cess = 0
      <3>1. net \in Nat /\ WholePaise(net) /\ t \in Nat /\ c \in Nat
        BY <1>1, <1>2
      <3>2. TakenOut(T, R, net, t, c)
        BY <2>1, <3>1, InclusiveTaxIs
      <3> QED
        BY ONLY <3>2 DEF TakenOut
    <2> QED
      BY <1>2, <1>3, <2>2 DEF net, t, c, T, R
  <1>4. CASE ~ l.inclusive
    <2>1. T = net /\ R = [tax |-> Round2(Portion(net, t)), cess |-> Round2(Portion(net, c))]
      BY <1>4 DEF ValueOf, TaxesOf
    <2>2. R.tax = Round2(Portion(net, t)) /\ R.cess = Round2(Portion(net, c))
      BY <2>1
    <2> HIDE DEF net, t, c, T, R
    <2> DEFINE x == Round2(Portion(net, t))
               y == Round2(Portion(net, c))
               p == net * t
               q == net * c
    <2>3. /\ x \in Int /\ WholePaise(x) /\ 100 * x <= p + 5050 /\ p - 5050 <= 100 * x /\ (t = 0 => x = 0)
          /\ y \in Int /\ WholePaise(y) /\ 100 * y <= q + 5050 /\ q - 5050 <= 100 * y /\ (c = 0 => y = 0)
          /\ p \in Nat /\ q \in Nat
      <3>1. net \in Nat /\ t \in Nat /\ c \in Nat
        BY <1>1, <1>2
      <3>2. TaxOn(x, net, t) /\ TaxOn(y, net, c)
        BY ONLY <3>1, AddedTaxIs
      <3> HIDE DEF x, y
      <3> QED
        BY ONLY <3>2 DEF TaxOn
    <2>4. Distance(100 * x, p) <= 5100 /\ Distance(100 * y, q) <= 5100
      <3> HIDE DEF x, y, p, q
      <3> QED
        BY <2>3 DEF Distance
    <2>5. R.tax = x /\ R.cess = y
      BY <2>2
    <2>6. /\ T \in Int /\ net - T = 0 /\ p = T * t /\ q = T * c
      BY <1>1, <1>2, <2>1
    <2> HIDE DEF x, y, p, q
    <2>7. /\ T \in Int /\ net - T \in Nat /\ WholePaise(R.tax) /\ R.cess \in Int
          /\ ~ ChargesTax(l.supply) => R.tax = 0 /\ R.cess = 0
          /\ T = net /\ Distance(100 * R.tax, T * t) <= 5100 /\ Distance(100 * R.cess, T * c) <= 5100
      BY <1>2, <2>1, <2>3, <2>4, <2>5, <2>6
    <2> QED
      BY <1>4, <2>7 DEF net, t, c, T, R
  <1> QED
    BY <1>3, <1>4

\* The first two of the three, of any line.
LEMMA LinePaid ==
    ASSUME NEW l, LineOK(l), l.inclusive
    PROVE  LET result == ComputeLine(l)
           IN  result.taxable + GstOf(result) + result.cess = result.charged
  <1> DEFINE result == ComputeLine(l)
             net == NetOf(l)
             T == ValueOf(l)
             x == TaxesOf(l).tax
             y == TaxesOf(l).cess
  <1>1. /\ net \in Nat /\ T \in Int /\ WholePaise(x) /\ y \in Int /\ x + y = net - T
        /\ ~ ChargesTax(l.supply) => x = 0
    BY NetAmountIs, TaxesAre
  <1>2. x \in Int
    BY <1>1, PaiseAreInts
  <1>3. result.charged = net /\ result.taxable = T /\ result.cess = y /\ GstOf(result) = x
    BY <1>1, LineIs
  <1> HIDE DEF result, net, T, x, y
  <1>4. T + x + y = net
    BY <1>1, <1>2
  <1>5. result.taxable + GstOf(result) + result.cess = result.charged
    BY <1>3, <1>4
  <1> QED
    BY <1>5 DEF result

LEMMA LineTaxed ==
    ASSUME NEW l, LineOK(l), ChargesTax(l.supply)
    PROVE  LET result == ComputeLine(l)
               slack == IF ~ l.inclusive THEN 5100
                        ELSE Strays(result.charged - result.taxable, l.taxPercent, l.cessPercent)
           IN  /\ Distance(100 * GstOf(result), result.taxable * l.taxPercent) <= slack
               /\ Distance(100 * result.cess, result.taxable * l.cessPercent) <= slack
               /\ Distance(result.cgst, result.sgst) <= 100
  <1>1. RateOn(l) = l.taxPercent /\ CessOn(l) = l.cessPercent
    BY DEF RateOn, CessOn
  <1>2. WholePaise(TaxesOf(l).tax)
    BY TaxesAre
  <1> DEFINE result == ComputeLine(l)
  <1>3. /\ result.charged = NetOf(l) /\ result.taxable = ValueOf(l) /\ result.cess = TaxesOf(l).cess
        /\ GstOf(result) = TaxesOf(l).tax /\ Distance(result.cgst, result.sgst) <= 100
    BY <1>2, LineIs
  <1> HIDE DEF result
  <1>4. CASE l.inclusive
    <2>1. /\ Distance(100 * TaxesOf(l).tax, ValueOf(l) * RateOn(l))
                 <= Strays(NetOf(l) - ValueOf(l), RateOn(l), CessOn(l))
          /\ Distance(100 * TaxesOf(l).cess, ValueOf(l) * CessOn(l))
                 <= Strays(NetOf(l) - ValueOf(l), RateOn(l), CessOn(l))
      BY <1>4, TaxesAre
    <2> QED
      BY <1>1, <1>3, <1>4, <2>1 DEF result
  <1>5. CASE ~ l.inclusive
    <2>1. /\ Distance(100 * TaxesOf(l).tax, ValueOf(l) * RateOn(l)) <= 5100
          /\ Distance(100 * TaxesOf(l).cess, ValueOf(l) * CessOn(l)) <= 5100
      BY <1>5, TaxesAre
    <2> QED
      BY <1>1, <1>3, <1>5, <2>1 DEF result
  <1> QED
    BY <1>4, <1>5

LEMMA LineUntaxed ==
    ASSUME NEW l, LineOK(l), ~ ChargesTax(l.supply)
    PROVE  LET result == ComputeLine(l)
           IN  GstOf(result) = 0 /\ result.cess = 0
  <1>1. WholePaise(TaxesOf(l).tax) /\ TaxesOf(l).cess = 0
    BY TaxesAre
  <1> QED
    BY <1>1, LineIs

\* A bill is rounded to the rupee by no more than half of one.
LEMMA RupeeIs ==
    ASSUME NEW a \in Int
    PROVE  /\ RoundToRupee(a) \in Int
           /\ a - 5000 <= RoundToRupee(a) /\ RoundToRupee(a) <= a + 5000
  <1> DEFINE q == (2 * a + 10000) \div 20000
  <1>1. q \in Int /\ 20000 * q <= 2 * a + 10000 /\ 2 * a + 10000 < 20000 * q + 20000
    BY SMT
  <1>2. RoundToRupee(a) = 10000 * q
    BY DEF RoundToRupee, Ratio, RUPEE, PAISA
  <1> HIDE DEF q
  <1> QED
    BY <1>1, <1>2

\* What one credit note comes to: its value at the line's rate, the tax on that but
\* for a unit, and the two together but for half a rupee.
NoteOK(l, q) ==
    LET note == PriceReturn(l, q)
    IN  /\ TaxableOf(note) = l.rate * q /\ l.rate * q \in Nat
        /\ GstOf(note) \in Int /\ l.rate * q * RateOn(l) \in Int
        /\ 100 * GstOf(note) <= l.rate * q * RateOn(l) + 100
        /\ l.rate * q * RateOn(l) - 100 <= 100 * GstOf(note)
        /\ TotalAmount(note) \in Int
        /\ TotalAmount(note) <= l.rate * q + GstOf(note) + 5000
        /\ l.rate * q + GstOf(note) - 5000 <= TotalAmount(note)

LEMMA NoteIs ==
    ASSUME NEW l, LineOK(l), NEW q \in Nat
    PROVE  NoteOK(l, q)
  <1> DEFINE note == PriceReturn(l, q)
             v == l.rate * q
             t == RateOn(l)
             a == v * t
             x == IF l.supply = "INTRA_STATE" THEN Ratio(v * l.taxPercent, 200) ELSE 0
             y == IF l.supply = "INTER_STATE" THEN Ratio(v * l.taxPercent, 100) ELSE 0
  <1>1. v = q * l.rate /\ v \in Nat /\ t \in Nat /\ l.taxPercent \in Nat
    BY DEF LineOK, RateOn
  <1>2. note = [taxable |-> v, cgst |-> x, sgst |-> x, igst |-> y, cess |-> 0]
    BY <1>1 DEF PriceReturn
  <1>3. TaxableOf(note) = v /\ note.cess = 0 /\ note.taxable = v /\ GstOf(note) = x + x + y
    BY <1>2 DEF TaxableOf, GstOf
  <1> HIDE DEF note, v
  <1>4. a \in Nat
    BY <1>1
  <1>5. x \in Nat /\ y \in Nat /\ 100 * (x + x + y) <= a + 100 /\ a - 100 <= 100 * (x + x + y)
    <2>1. CASE l.supply = "INTRA_STATE"
      <3> DEFINE n == 200
                 R == Ratio(v * l.taxPercent, n)
      <3>1. n \in Nat /\ n > 0 /\ a = v * l.taxPercent
        BY <2>1 DEF RateOn, ChargesTax
      <3>2. x = R /\ y = 0
        BY <2>1
      <3> HIDE DEF n, a, t, x, y
      <3>3. R \in Nat /\ 2 * (n * R) <= 2 * a + n /\ 2 * a <= 2 * (n * R) + n
        BY <1>4, <3>1, RatioIs
      <3> HIDE DEF R
      <3>4. R \in Nat /\ 400 * R <= 2 * a + 200 /\ 2 * a <= 400 * R + 200
        BY <3>3 DEF n
      <3> QED
        BY <1>4, <3>2, <3>4
    <2>2. CASE l.supply = "INTER_STATE"
      <3> DEFINE n == 100
                 R == Ratio(v * l.taxPercent, n)
      <3>1. n \in Nat /\ n > 0 /\ a = v * l.taxPercent
        BY <2>2 DEF RateOn, ChargesTax
      <3>2. x = 0 /\ y = R
        BY <2>2
      <3> HIDE DEF n, a, t, x, y
      <3>3. R \in Nat /\ 2 * (n * R) <= 2 * a + n /\ 2 * a <= 2 * (n * R) + n
        BY <1>4, <3>1, RatioIs
      <3> HIDE DEF R
      <3>4. R \in Nat /\ 200 * R <= 2 * a + 100 /\ 2 * a <= 200 * R + 100
        BY <3>3 DEF n
      <3> QED
        BY <1>4, <3>2, <3>4
    <2>3. CASE l.supply # "INTRA_STATE" /\ l.supply # "INTER_STATE"
      <3>1. x = 0 /\ y = 0 /\ t = 0
        BY <2>3 DEF RateOn, ChargesTax
      <3>2. a = 0
        BY <1>1, <3>1
      <3> QED
        BY <3>1, <3>2
    <2> QED
      BY <2>1, <2>2, <2>3
  <1> DEFINE g == x + x + y
             total == TotalAmount(note)
  <1>6. total = RoundToRupee(v + g + 0)
    BY <1>3 DEF TotalAmount
  <1>7. g \in Nat
    BY <1>5
  <1>8. 100 * g <= a + 100 /\ a - 100 <= 100 * g /\ GstOf(note) = g
    BY <1>3, <1>5
  <1> HIDE DEF g, total, a
  <1>9. v + g + 0 = v + g /\ v + g \in Int
    BY <1>1, <1>7
  <1>10. total \in Int /\ v + g - 5000 <= total /\ total <= v + g + 5000
    <2> DEFINE s == v + g
    <2>1. s \in Int /\ total = RoundToRupee(s)
      BY <1>6, <1>9
    <2> HIDE DEF s
    <2>2. total \in Int /\ s - 5000 <= total /\ total <= s + 5000
      BY <2>1, RupeeIs
    <2> QED
      BY <1>1, <1>7, <2>2 DEF s
  <1>11. /\ TaxableOf(note) = v /\ v \in Nat /\ GstOf(note) \in Int /\ a \in Int
         /\ 100 * GstOf(note) <= a + 100 /\ a - 100 <= 100 * GstOf(note)
         /\ total \in Int /\ total <= v + GstOf(note) + 5000 /\ v + GstOf(note) - 5000 <= total
    BY <1>1, <1>3, <1>4, <1>7, <1>8, <1>10
  <1> QED
    BY ONLY <1>11 DEF NoteOK, note, v, t, a, total

\* A line no discount, cess or inclusive price is in the way of.
PlainLine(l) == ~ l.inclusive /\ l.discountPercent = 0 /\ l.cessPercent = 0

\* The credit notes for the quantities of a sequence, a figure of each.
Values(l, ret) == [i \in DOMAIN ret |-> TaxableOf(PriceReturn(l, ret[i]))]
Taxes(l, ret) == [i \in DOMAIN ret |-> GstOf(PriceReturn(l, ret[i]))]
Totals(l, ret) == [i \in DOMAIN ret |-> TotalAmount(PriceReturn(l, ret[i]))]

\* What the notes for a sequence of quantities add up to.
LEMMA NotesAddUp ==
    ASSUME NEW l, LineOK(l), NEW ret, NEW n \in Nat, DOMAIN ret = 1 .. n,
           \A i \in DOMAIN ret : ret[i] \in Nat
    PROVE  LET S == DOMAIN ret
               Q == SumFunctionOnSet(ret, S)
               V == SumFunctionOnSet(Values(l, ret), S)
               G == SumFunctionOnSet(Taxes(l, ret), S)
               B == SumFunctionOnSet(Totals(l, ret), S)
           IN  /\ Q \in Int /\ V = l.rate * Q /\ G \in Int /\ B \in Int
               /\ 100 * G <= RateOn(l) * V + 100 * n /\ RateOn(l) * V - 100 * n <= 100 * G
               /\ B <= V + G + 5000 * n /\ V + G - 5000 * n <= B
  <1> DEFINE S == DOMAIN ret
             r == l.rate
             t == RateOn(l)
             v == Values(l, ret)
             g == Taxes(l, ret)
             b == Totals(l, ret)
             Q == SumFunctionOnSet(ret, S)
             V == SumFunctionOnSet(v, S)
             G == SumFunctionOnSet(g, S)
             B == SumFunctionOnSet(b, S)
  <1>1. r \in Int /\ t \in Int
    BY DEF LineOK, RateOn
  <1>2. IsFiniteSet(S) /\ Cardinality(S) = n
    <2>1. IsFiniteSet(1 .. n) /\ Cardinality(1 .. n) = n
      <3>1. 1 \in Int /\ n \in Int
        OBVIOUS
      <3> QED
        BY <3>1, FS_Interval
    <2> QED
      BY <2>1
  <1>3. \A i \in S : /\ ret[i] \in Int /\ v[i] = r * ret[i] /\ v[i] \in Int /\ g[i] \in Int
                     /\ v[i] * t \in Int /\ 100 * g[i] <= v[i] * t + 100 /\ v[i] * t - 100 <= 100 * g[i]
                     /\ b[i] \in Int /\ b[i] <= v[i] + g[i] + 5000 /\ v[i] + g[i] - 5000 <= b[i]
    <2> SUFFICES ASSUME NEW i \in S
                 PROVE  /\ ret[i] \in Int /\ v[i] = r * ret[i] /\ v[i] \in Int /\ g[i] \in Int
                        /\ v[i] * t \in Int /\ 100 * g[i] <= v[i] * t + 100 /\ v[i] * t - 100 <= 100 * g[i]
                        /\ b[i] \in Int /\ b[i] <= v[i] + g[i] + 5000 /\ v[i] + g[i] - 5000 <= b[i]
      OBVIOUS
    <2> DEFINE q == ret[i]
               note == PriceReturn(l, q)
    <2>1. q \in Nat
      OBVIOUS
    <2>2. v[i] = TaxableOf(note) /\ g[i] = GstOf(note) /\ b[i] = TotalAmount(note)
      BY DEF Values, Taxes, Totals
    <2>3. NoteOK(l, q)
      BY <2>1, NoteIs
    <2> HIDE DEF q, v, g, b
    <2>4. /\ v[i] = r * q /\ r * q \in Nat /\ g[i] \in Int /\ r * q * t \in Int
          /\ 100 * g[i] <= r * q * t + 100 /\ r * q * t - 100 <= 100 * g[i]
          /\ b[i] \in Int /\ b[i] <= r * q + g[i] + 5000 /\ r * q + g[i] - 5000 <= b[i]
      BY ONLY <2>2, <2>3 DEF NoteOK, note, r, t
    <2> HIDE DEF r, t, note
    <2>5. v[i] * t = r * q * t /\ v[i] \in Int
      BY <2>4
    <2>6. q = ret[i]
      BY DEF q
    <2> QED
      BY <2>1, <2>4, <2>5, <2>6
  <1> HIDE DEF S, r, t, v, g, b
  <1>4. Q \in Int /\ V = r * Q /\ V \in Int
    <2>1. \A i \in S : ret[i] \in Int /\ v[i] = r * ret[i]
      BY <1>3
    <2>2. V = r * Q
      BY <1>1, <1>2, <2>1, SumScaled
    <2>3. \A i \in S : ret[i] \in Int /\ v[i] \in Int
      BY <1>3
    <2> QED
      BY <1>2, <2>2, <2>3, SumInt
  <1>5. G \in Int /\ B \in Int
    <2>1. \A i \in S : g[i] \in Int /\ b[i] \in Int
      BY <1>3
    <2> QED
      BY <1>2, <2>1, SumInt
  <1> DEFINE h == 100
             e == 5000
             up == [i \in S |-> h]
             dearer == [i \in S |-> e]
             cents == [i \in S |-> h * g[i]]
             rated == [i \in S |-> t * v[i]]
             over == [i \in S |-> rated[i] + h]
             above == [i \in S |-> cents[i] + h]
             both == [i \in S |-> v[i] + g[i]]
             high == [i \in S |-> both[i] + e]
             tall == [i \in S |-> b[i] + e]
  <1>6. \A i \in S : cents[i] = h * g[i] /\ rated[i] = t * v[i] /\ cents[i] \in Int /\ rated[i] \in Int
    <2> SUFFICES ASSUME NEW i \in S PROVE h * g[i] \in Int /\ t * v[i] \in Int
      BY DEF cents, rated
    <2> QED
      BY <1>1, <1>3
  <1>7. \A i \in S : cents[i] <= over[i] /\ rated[i] <= above[i]
    <2> SUFFICES ASSUME NEW i \in S PROVE h * g[i] <= t * v[i] + h /\ t * v[i] <= h * g[i] + h
      BY DEF cents, rated, over, above
    <2>1. /\ v[i] * t \in Int /\ 100 * g[i] <= v[i] * t + 100 /\ v[i] * t - 100 <= 100 * g[i]
          /\ g[i] \in Int
      BY <1>3
    <2>2. t * v[i] = v[i] * t
      BY <1>1, <1>3
    <2> QED
      BY <2>1, <2>2
  <1>8. \A i \in S : both[i] \in Int /\ b[i] <= high[i] /\ both[i] <= tall[i]
    <2> SUFFICES ASSUME NEW i \in S
                 PROVE  v[i] + g[i] \in Int /\ b[i] <= v[i] + g[i] + e /\ v[i] + g[i] <= b[i] + e
      BY DEF both, high, tall
    <2> QED
      BY <1>3
  <1>9. h \in Int /\ e \in Int /\ h = 100 /\ e = 5000
    OBVIOUS
  <1> HIDE DEF h, e
  <1>10. \A i \in S : /\ up[i] = h /\ dearer[i] = e /\ over[i] = rated[i] + up[i] /\ above[i] = cents[i] + up[i]
                      /\ both[i] = v[i] + g[i] /\ high[i] = both[i] + dearer[i] /\ tall[i] = b[i] + dearer[i]
    BY DEF up, dearer, over, above, both, high, tall
  <1> HIDE DEF up, dearer, cents, rated, over, above, both, high, tall
  <1>11. SumFunctionOnSet(up, S) = h * n /\ SumFunctionOnSet(dearer, S) = e * n
    <2>1. \A i \in S : up[i] = h
      BY <1>10
    <2>2. \A i \in S : dearer[i] = e
      BY <1>10
    <2> QED
      BY <1>2, <1>9, <2>1, <2>2, SumOfSame
  <1>12. SumFunctionOnSet(cents, S) = h * G
    <2>1. \A i \in S : g[i] \in Int /\ cents[i] = h * g[i]
      BY <1>3, <1>6
    <2> QED
      BY <1>2, <1>9, <2>1, SumScaled
  <1>13. SumFunctionOnSet(rated, S) = t * V
    <2>1. \A i \in S : v[i] \in Int /\ rated[i] = t * v[i]
      BY <1>3, <1>6
    <2> QED
      BY <1>1, <1>2, <2>1, SumScaled
  <1>14. SumFunctionOnSet(over, S) = t * V + h * n
    <2>1. \A i \in S : rated[i] \in Int /\ up[i] \in Int /\ over[i] = rated[i] + up[i]
      BY <1>6, <1>9, <1>10
    <2>2. SumFunctionOnSet(over, S) = SumFunctionOnSet(rated, S) + SumFunctionOnSet(up, S)
      BY <1>2, <2>1, SumBoth
    <2> QED
      BY <1>11, <1>13, <2>2
  <1>15. SumFunctionOnSet(above, S) = h * G + h * n
    <2>1. \A i \in S : cents[i] \in Int /\ up[i] \in Int /\ above[i] = cents[i] + up[i]
      BY <1>6, <1>9, <1>10
    <2>2. SumFunctionOnSet(above, S) = SumFunctionOnSet(cents, S) + SumFunctionOnSet(up, S)
      BY <1>2, <2>1, SumBoth
    <2> QED
      BY <1>11, <1>12, <2>2
  <1>16. SumFunctionOnSet(both, S) = V + G
    <2>1. \A i \in S : v[i] \in Int /\ g[i] \in Int /\ both[i] = v[i] + g[i]
      BY <1>3, <1>10
    <2> QED
      BY <1>2, <2>1, SumBoth
  <1>17. SumFunctionOnSet(high, S) = V + G + e * n
    <2>1. \A i \in S : both[i] \in Int /\ dearer[i] \in Int /\ high[i] = both[i] + dearer[i]
      BY <1>8, <1>9, <1>10
    <2>2. SumFunctionOnSet(high, S) = SumFunctionOnSet(both, S) + SumFunctionOnSet(dearer, S)
      BY <1>2, <2>1, SumBoth
    <2> QED
      BY <1>11, <1>16, <2>2
  <1>18. SumFunctionOnSet(tall, S) = B + e * n
    <2>1. \A i \in S : b[i] \in Int /\ dearer[i] \in Int /\ tall[i] = b[i] + dearer[i]
      BY <1>3, <1>9, <1>10
    <2>2. SumFunctionOnSet(tall, S) = SumFunctionOnSet(b, S) + SumFunctionOnSet(dearer, S)
      BY <1>2, <2>1, SumBoth
    <2> QED
      BY <1>11, <2>2
  <1>19. h * G <= t * V + h * n /\ t * V <= h * G + h * n
    <2>1. \A i \in S : cents[i] \in Int /\ over[i] \in Int /\ cents[i] <= over[i]
      BY <1>6, <1>7, <1>9, <1>10
    <2>2. \A i \in S : rated[i] \in Int /\ above[i] \in Int /\ rated[i] <= above[i]
      BY <1>6, <1>7, <1>9, <1>10
    <2>3. SumFunctionOnSet(cents, S) <= SumFunctionOnSet(over, S)
      BY <1>2, <2>1, SumAtMost
    <2>4. SumFunctionOnSet(rated, S) <= SumFunctionOnSet(above, S)
      BY <1>2, <2>2, SumAtMost
    <2> QED
      BY <1>12, <1>13, <1>14, <1>15, <2>3, <2>4
  <1>20. B <= V + G + e * n /\ V + G <= B + e * n
    <2>1. \A i \in S : b[i] \in Int /\ both[i] \in Int /\ b[i] <= high[i] /\ both[i] <= tall[i]
      BY <1>3, <1>8
    <2>2. \A i \in S : high[i] = both[i] + e /\ tall[i] = b[i] + e
      BY <1>10
    <2>6. \A i \in S : high[i] \in Int /\ tall[i] \in Int
      BY <1>9, <2>1, <2>2
    <2>3. SumFunctionOnSet(b, S) <= SumFunctionOnSet(high, S)
      BY <1>2, <2>1, <2>6, SumAtMost
    <2>4. SumFunctionOnSet(both, S) <= SumFunctionOnSet(tall, S)
      BY <1>2, <2>1, <2>6, SumAtMost
    <2> QED
      BY <1>16, <1>17, <1>18, <2>3, <2>4
  <1> HIDE DEF Q, V, G, B
  <1>21. t * V \in Int
    BY <1>1, <1>4
  <1> DEFINE tV == t * V
  <1>22. /\ 100 * G <= tV + 100 * n /\ tV - 100 * n <= 100 * G
         /\ B <= V + G + 5000 * n /\ V + G - 5000 * n <= B
    <2>1. tV \in Int /\ 100 * G <= tV + 100 * n /\ tV <= 100 * G + 100 * n
      BY <1>9, <1>19, <1>21
    <2>2. B <= V + G + 5000 * n /\ V + G <= B + 5000 * n
      BY <1>9, <1>20
    <2> HIDE DEF tV
    <2> QED
      BY <1>4, <1>5, <2>1, <2>2
  <1> QED
    BY <1>4, <1>5, <1>22 DEF S, r, t, v, g, b, Q, V, G, B

\* Notes for the whole of a plain line's quantity cancel what it was billed at.
LEMMA PlainCancels ==
    ASSUME NEW l, LineOK(l), PlainLine(l), NEW ret, NEW n \in Nat, DOMAIN ret = 1 .. n,
           \A i \in DOMAIN ret : ret[i] \in Nat,
           l.quantity - SumFunctionOnSet(ret, DOMAIN ret) = 0
    PROVE  LET result == ComputeLine(l)
               S == DOMAIN ret
               V == SumFunctionOnSet(Values(l, ret), S)
               G == SumFunctionOnSet(Taxes(l, ret), S)
               B == SumFunctionOnSet(Totals(l, ret), S)
           IN  /\ V = result.taxable
               /\ Distance(G, GstOf(result)) <= 51 + n
               /\ Distance(B, TotalAmount(result)) <= (n + 1) * 5000 + (51 + n)
  <1> DEFINE result == ComputeLine(l)
             S == DOMAIN ret
             Q == SumFunctionOnSet(ret, S)
             V == SumFunctionOnSet(Values(l, ret), S)
             G == SumFunctionOnSet(Taxes(l, ret), S)
             B == SumFunctionOnSet(Totals(l, ret), S)
             t == RateOn(l)
             T == ValueOf(l)
             x == TaxesOf(l).tax
             total == TotalAmount(result)
  <1>1. /\ Q \in Int /\ V = l.rate * Q /\ G \in Int /\ B \in Int
        /\ 100 * G <= t * V + 100 * n /\ t * V - 100 * n <= 100 * G
        /\ B <= V + G + 5000 * n /\ V + G - 5000 * n <= B
    <2> HIDE DEF t
    <2> QED
      BY NotesAddUp DEF t
  <1>2. l.quantity \in Nat /\ l.rate \in Nat /\ ~ l.inclusive /\ t \in Nat
    BY DEF LineOK, PlainLine, RateOn
  <1>3. l.quantity = Q
    <2> HIDE DEF Q
    <2>1. l.quantity - Q = 0
      BY DEF Q
    <2> QED
      BY <1>1, <1>2, <2>1
  <1>4. T = NetOf(l) /\ NetOf(l) = l.quantity * l.rate
    BY <1>2, NetAmountIs DEF PlainLine, ValueOf
  <1>5. T = V /\ V \in Nat
    <2>1. l.rate * l.quantity = l.quantity * l.rate /\ l.rate * l.quantity \in Nat
      BY <1>2
    <2> QED
      BY <1>1, <1>3, <1>4, <2>1
  <1>6. WholePaise(x) /\ Distance(100 * x, T * t) <= 5100 /\ (~ ChargesTax(l.supply) => x = 0)
    BY <1>2, TaxesAre
  <1>7. TaxesOf(l).cess = 0
    <2>1. CessOn(l) = 0
      BY DEF CessOn, PlainLine
    <2> DEFINE z == 0
    <2>2. TaxesOf(l) = [tax |-> Round2(Portion(T, t)), cess |-> Round2(Portion(T, z))]
      BY <1>2, <2>1 DEF TaxesOf
    <2>3. T \in Nat /\ z \in Nat /\ z = 0
      BY <1>5
    <2> HIDE DEF z
    <2>4. TaxesOf(l).cess = Round2(Portion(T, z))
      BY <2>2
    <2>5. TaxOn(Round2(Portion(T, z)), T, z)
      <3> HIDE DEF T
      <3> QED
        BY <2>3, AddedTaxIs
    <2>6. Round2(Portion(T, z)) = 0
      BY <2>3, <2>5 DEF TaxOn
    <2> QED
      BY <2>4, <2>6
  <1>8. result.taxable = T /\ GstOf(result) = x /\ result.cess = 0
    BY <1>6, <1>7, LineIs
  <1>9. x \in Int
    BY <1>6, PaiseAreInts
  <1> HIDE DEF result, Q, V, G, B, t, T, x
  <1>10. total \in Int /\ V + x - 5000 <= total /\ total <= V + x + 5000
    <2> DEFINE s == V + x
    <2>1. s \in Int /\ s + 0 = s
      BY <1>5, <1>9
    <2>2. total = RoundToRupee(s + 0)
      BY <1>5, <1>8 DEF TotalAmount
    <2> HIDE DEF s, total
    <2>3. total \in Int /\ s - 5000 <= total /\ total <= s + 5000
      BY <2>1, <2>2, RupeeIs
    <2> QED
      BY <1>5, <1>9, <2>3 DEF s
  <1> HIDE DEF total
  <1> DEFINE p == T * t
  <1>11. p \in Int /\ p = t * V
    BY <1>2, <1>5
  <1>12. 100 * x <= p + 5100 /\ p - 5100 <= 100 * x
    <2> HIDE DEF p
    <2>1. Distance(100 * x, p) <= 5100
      BY <1>6 DEF p
    <2> QED
      BY <1>9, <1>11, <2>1 DEF Distance
  <1>13. 100 * G <= p + 100 * n /\ p - 100 * n <= 100 * G
    BY <1>1, <1>11
  <1> HIDE DEF p
  <1>14. G - x <= 51 + n /\ x - G <= 51 + n
    <2>1. G \in Int /\ x \in Int /\ p \in Int /\ n \in Int
      BY <1>1, <1>9, <1>11
    <2> QED
      BY ONLY <2>1, <1>12, <1>13
  <1>15. Distance(G, x) <= 51 + n
    BY <1>1, <1>9, <1>14 DEF Distance
  <1>16. B - total <= (n + 1) * 5000 + (51 + n) /\ total - B <= (n + 1) * 5000 + (51 + n)
    <2>1. /\ G \in Int /\ x \in Int /\ B \in Int /\ V \in Int /\ n \in Int
          /\ B <= V + G + 5000 * n /\ V + G - 5000 * n <= B
      BY <1>1, <1>5, <1>9
    <2>2. B - total <= 5000 * n + 5000 + (51 + n) /\ total - B <= 5000 * n + 5000 + (51 + n)
      BY ONLY <2>1, <1>10, <1>14
    <2>3. (n + 1) * 5000 = 5000 * n + 5000
      OBVIOUS
    <2> QED
      BY <2>2, <2>3
  <1>17. Distance(B, total) <= (n + 1) * 5000 + (51 + n)
    BY <1>1, <1>10, <1>16 DEF Distance
  <1> QED
    BY <1>5, <1>8, <1>15, <1>17 DEF result, S, V, G, B, total

\* What every step keeps: a line that may be keyed in, at a price of whole paise,
\* and credit notes for whole units.
GstInv == LineOK(line) /\ returned \in Seq(Nat)

LEMMA GstStarts == GstInit => GstInv
  <1> SUFFICES ASSUME GstInit PROVE GstInv
    OBVIOUS
  <1>1. PICK registration \in {"REGULAR", "COMPOSITION", "UNREGISTERED", "SEZ"},
             seller \in {"home", Unknown}, buyer \in States \cup {Unknown} :
          /\ line \in [quantity : Quantities, rate : {PAISA * price : price \in Prices},
                       discountPercent : Discounts, taxPercent : TaxRates, cessPercent : CessRates,
                       inclusive : BOOLEAN, supply : {ResolveSupplyType(registration, seller, buyer)}]
          /\ returned = << >>
    BY DEF GstInit
  <1>2. /\ line.quantity \in Quantities /\ line.rate \in {PAISA * price : price \in Prices}
        /\ line.discountPercent \in Discounts /\ line.taxPercent \in TaxRates /\ line.cessPercent \in CessRates
        /\ line.inclusive \in BOOLEAN /\ line.supply = ResolveSupplyType(registration, seller, buyer)
    BY <1>1
  <1>3. ResolveSupplyType(registration, seller, buyer) \in Supplies
    BY DEF ResolveSupplyType, Supplies
  <1>4. PICK price \in Prices : line.rate = 100 * price
    BY <1>2 DEF PAISA
  <1>5. price \in Nat /\ 100 * price \in Nat
    BY GstAssumption
  <1>6. line.rate \in Nat /\ WholePaise(line.rate)
    BY <1>4, <1>5 DEF WholePaise
  <1>7. /\ line.quantity \in Nat /\ line.discountPercent \in 0 .. 100 /\ line.taxPercent \in Nat
        /\ line.cessPercent \in Nat
    BY <1>2, GstAssumption
  <1>8. << >> \in Seq(Nat)
    OBVIOUS
  <1> QED
    BY <1>1, <1>2, <1>3, <1>6, <1>7, <1>8 DEF GstInv, LineOK

LEMMA GstStays == GstInv /\ [GstNext]_gstVars => GstInv'
  <1> SUFFICES ASSUME GstInv, [GstNext]_gstVars PROVE GstInv'
    OBVIOUS
  <1>1. CASE TryDearer
    <2> DEFINE dearer == [line EXCEPT !.rate = @ + 100]
    <2>1. line' = dearer /\ returned' = returned
      BY <1>1 DEF TryDearer, PAISA
    <2>2. LineOK(dearer)
      <3>1. PICK k \in Int : line.rate = 100 * k
        BY DEF GstInv, LineOK, WholePaise
      <3>2. line.rate \in Nat
        BY DEF GstInv, LineOK
      <3>3. line.rate + 100 = 100 * (k + 1) /\ k + 1 \in Int /\ line.rate + 100 \in Nat
        BY <3>1, <3>2
      <3>4. WholePaise(line.rate + 100)
        BY <3>3 DEF WholePaise
      <3>5. dearer.rate = line.rate + 100
        BY DEF GstInv, LineOK
      <3> QED
        BY <3>3, <3>4, <3>5 DEF GstInv, LineOK
    <2> QED
      BY <2>1, <2>2 DEF GstInv
  <1>2. CASE \E quantity \in Quantities : CreateSalesReturn(quantity)
    <2>1. PICK quantity \in Quantities : CreateSalesReturn(quantity)
      BY <1>2
    <2>2. line' = line /\ returned' = Append(returned, quantity) /\ quantity \in Nat
      BY <2>1, GstAssumption DEF CreateSalesReturn
    <2> QED
      BY <2>2 DEF GstInv
  <1>3. CASE UNCHANGED gstVars
    BY <1>3 DEF gstVars, GstInv
  <1> QED
    BY <1>1, <1>2, <1>3 DEF GstNext

LEMMA LinesDoAddUp == GstInv => LinesAddUp
  <1> SUFFICES ASSUME GstInv PROVE LinesAddUp
    OBVIOUS
  <1> DEFINE result == ComputeLine(line)
  <1>1. LineOK(line) /\ returned \in Seq(Nat)
    BY DEF GstInv
  <1>2. InclusivePriceIsPaid
    BY <1>1, LinePaid DEF InclusivePriceIsPaid
  <1>3. TaxIsTheRateOnTheValue
    <2>1. CASE ChargesTax(line.supply)
      <3>1. Slack(result) = IF ~ line.inclusive THEN 5100
                            ELSE Strays(result.charged - result.taxable, line.taxPercent, line.cessPercent)
        BY DEF Slack, Strays, HalfPaisa, PAISA
      <3>2. /\ Distance(100 * GstOf(result), result.taxable * line.taxPercent) <= Slack(result)
            /\ Distance(100 * result.cess, result.taxable * line.cessPercent) <= Slack(result)
            /\ Distance(result.cgst, result.sgst) <= 100
        BY <1>1, <2>1, <3>1, LineTaxed
      <3> QED
        BY <2>1, <3>2 DEF TaxIsTheRateOnTheValue, PAISA
    <2>2. CASE ~ ChargesTax(line.supply)
      BY <1>1, <2>2, LineUntaxed DEF TaxIsTheRateOnTheValue
    <2> QED
      BY <2>1, <2>2
  <1>4. PlainReturnsCancelTheSale
    <2>1. SUFFICES ASSUME Plain, Outstanding = 0
                   PROVE  /\ Credited(TaxableOf) = result.taxable
                          /\ Distance(Credited(GstOf), GstOf(result)) <= HalfPaisa + Len(returned)
                          /\ Distance(Credited(TotalAmount), TotalAmount(result))
                               <= (Len(returned) + 1) * (RUPEE \div 2) + (HalfPaisa + Len(returned))
      BY DEF PlainReturnsCancelTheSale
    <2>2. PlainLine(line)
      BY <2>1 DEF Plain, PlainLine
    <2>3. line.quantity - SumFunctionOnSet(returned, DOMAIN returned) = 0
      BY <2>1 DEF Outstanding
    <2>4. /\ DOMAIN returned = 1 .. Len(returned) /\ Len(returned) \in Nat
          /\ \A i \in DOMAIN returned : returned[i] \in Nat
      BY <1>1
    <2>5. /\ SumFunctionOnSet(Values(line, returned), DOMAIN returned) = result.taxable
          /\ Distance(SumFunctionOnSet(Taxes(line, returned), DOMAIN returned), GstOf(result)) <= 51 + Len(returned)
          /\ Distance(SumFunctionOnSet(Totals(line, returned), DOMAIN returned), TotalAmount(result))
                <= (Len(returned) + 1) * 5000 + (51 + Len(returned))
      BY <1>1, <2>2, <2>3, <2>4, PlainCancels
    <2>6. /\ Credited(TaxableOf) = SumFunctionOnSet(Values(line, returned), DOMAIN returned)
          /\ Credited(GstOf) = SumFunctionOnSet(Taxes(line, returned), DOMAIN returned)
          /\ Credited(TotalAmount) = SumFunctionOnSet(Totals(line, returned), DOMAIN returned)
      BY DEF Credited, Values, Taxes, Totals
    <2>7. HalfPaisa = 51 /\ RUPEE \div 2 = 5000
      BY SMT DEF HalfPaisa, RUPEE, PAISA
    <2> QED
      BY <2>5, <2>6, <2>7
  <1> QED
    BY <1>2, <1>3, <1>4 DEF LinesAddUp

\* Whatever is keyed in and however much of it comes back: a price that includes
\* tax is paid to the paisa, the tax is the rate on the value but for the roundings,
\* and of a plain line the credit notes cancel the sale (computeLine,
\* createSalesReturn).
THEOREM LinesAlwaysAddUp == GstSpec => []LinesAddUp
  <1>1. GstInit => GstInv
    BY GstStarts
  <1>2. GstInv /\ [GstNext]_gstVars => GstInv'
    BY GstStays
  <1>3. GstInv => LinesAddUp
    BY LinesDoAddUp
  <1> QED
    BY <1>1, <1>2, <1>3, PTL DEF GstSpec
=============================================================================
