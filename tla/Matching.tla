------------------------------- MODULE Matching -------------------------------
(* The pairs a bank reconciliation suggests: statement lines against entries   *)
(* in the books, strongest evidence first, neither side used twice             *)
(* (src/src/lib/banking/matching.ts, suggestMatches).                          *)
EXTENDS Integers, Sequences, FiniteSets

CONSTANTS SideDays,    \* the days a line or an entry may be dated
          Amounts,     \* what may be paid or received: amount and direction together
          References,  \* reference numbers long enough to be compared
          NoReference, \* none, or too short
          MaxLines, MaxBooked

ASSUME MatchingAssumption ==
    /\ SideDays \subseteq Nat
    /\ MaxLines \in Nat /\ MaxBooked \in Nat
    /\ NoReference \notin References

VARIABLES statement,  \* the statement lines, in the order of the file
          booked      \* the entries on the bank account, in the order they were posted

matchingVars == <<statement, booked>>

Side == [day : SideDays, amount : Amounts, reference : References \cup {NoReference}]

REFERENCE_WINDOW_DAYS == 40
LIKELY_WINDOW_DAYS == 3
POSSIBLE_WINDOW_DAYS == 10

RANK == [exact |-> 0, likely |-> 1, possible |-> 2]

DaysApart(line, entry) == IF line.day >= entry.day THEN line.day - entry.day ELSE entry.day - line.day

(* The confidence in a pair, or "none".                                       *)
Confidence(line, entry) ==
    LET gap == DaysApart(line, entry)
    IN  CASE line.amount # entry.amount -> "none"
          [] line.amount = entry.amount /\ line.reference # NoReference
             /\ line.reference = entry.reference /\ gap <= REFERENCE_WINDOW_DAYS -> "exact"
          [] OTHER -> IF gap <= LIKELY_WINDOW_DAYS THEN "likely"
                      ELSE IF gap <= POSSIBLE_WINDOW_DAYS THEN "possible" ELSE "none"

(* The candidates between a statement and a book.                             *)
Candidates(lines, entries) ==
    { c \in [line : DOMAIN lines, entry : DOMAIN entries,
             confidence : {Confidence(lines[i], entries[j]) : i \in DOMAIN lines, j \in DOMAIN entries},
             gap : {DaysApart(lines[i], entries[j]) : i \in DOMAIN lines, j \in DOMAIN entries}] :
        /\ c.confidence = Confidence(lines[c.line], entries[c.entry]) /\ c.confidence # "none"
        /\ c.gap = DaysApart(lines[c.line], entries[c.entry]) }

(* Plausible slips: closeness in time before evidence, and the statement's    *)
(* own order before either.                                                   *)
FaultClosestFirst(c) == <<c.gap, RANK[c.confidence], c.line, c.entry>>
FaultFileOrder(c) == <<c.line, RANK[c.confidence], c.gap, c.entry>>

(* The order of the sort: evidence, then days apart, then the older line.     *)
SortKey(c) == <<RANK[c.confidence], c.gap, c.line, c.entry>>

Before(c, d) ==
    \E i \in 1..4 : SortKey(c)[i] < SortKey(d)[i] /\ \A j \in 1..(i - 1) : SortKey(c)[j] = SortKey(d)[j]

First(candidates) == CHOOSE c \in candidates : \A d \in candidates \ {c} : Before(c, d)

(* The best candidate left, and so on while both sides of one are unused.     *)
SuggestMatches(lines, entries) ==
    LET picked[k \in 0..Len(lines)] ==
            IF k = 0 THEN {}
            ELSE LET taken == picked[k - 1]
                     free == { c \in Candidates(lines, entries) :
                                 \A m \in taken : m.line # c.line /\ m.entry # c.entry }
                 IN  IF free = {} THEN taken ELSE taken \cup {First(free)}
    IN  picked[Len(lines)]

-----------------------------------------------------------------------------
MatchingInit == statement = << >> /\ booked = << >>

(* The next line of the statement: a bank lists them by date.                 *)
StatementLine(line) ==
    /\ Len(statement) < MaxLines
    /\ statement # << >> => statement[Len(statement)].day <= line.day
    /\ statement' = Append(statement, line)
    /\ UNCHANGED booked

(* Another entry posted to the bank account, of whatever date.                *)
BookEntry(entry) ==
    /\ Len(booked) < MaxBooked
    /\ booked' = Append(booked, entry)
    /\ UNCHANGED statement

MatchingNext == \E side \in Side : StatementLine(side) \/ BookEntry(side)

MatchingSpec == MatchingInit /\ [][MatchingNext]_matchingVars

-----------------------------------------------------------------------------
Strength(m) == <<RANK[m.confidence], m.gap>>
AtLeastAsStrong(m, n) ==
    \/ Strength(m)[1] < Strength(n)[1]
    \/ Strength(m)[1] = Strength(n)[1] /\ Strength(m)[2] <= Strength(n)[2]

(* No pair that was passed over is better than what both of its sides got: a  *)
(* stronger reading of the evidence is never on the table (matching.ts        *)
(* 107-118, 190-217).                                                         *)
NoStrongerPairLeft ==
    LET matches == SuggestMatches(statement, booked)
    IN  \A c \in Candidates(statement, booked) :
            \E m \in matches : /\ m.line = c.line \/ m.entry = c.entry
                               /\ AtLeastAsStrong(m, c)

(* Booking another entry never weakens what is suggested for a line: every    *)
(* line matched without the last entry is matched with it, on evidence at     *)
(* least as strong, though the new entry may re-pair all of them.             *)
EvidenceOnlyHelps ==
    booked # << >> =>
        LET before == SuggestMatches(statement, SubSeq(booked, 1, Len(booked) - 1))
            now == SuggestMatches(statement, booked)
        IN  \A m \in before : \E n \in now : n.line = m.line /\ AtLeastAsStrong(n, m)

(* The greedy pairing is as good as its evidence: nothing stronger passed     *)
(* over, nothing lost by knowing more (suggestMatches).                       *)
SuggestionsAreTheStrongest == NoStrongerPairLeft /\ EvidenceOnlyHelps
=============================================================================
