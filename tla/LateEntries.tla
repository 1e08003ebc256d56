---------------------------- MODULE LateEntries ----------------------------
(***************************************************************************)
(* Books beside a record of its late entries.  postJournalEntry reads the  *)
(* status of the month and then waits for the number series; an entry let  *)
(* in by that read may commit after the month was closed, and after the    *)
(* closing of its year has read the balances it sweeps.  The two history   *)
(* variables say which requests were let in so and what they brought; no   *)
(* step of Books reads them.                                               *)
(***************************************************************************)
EXTENDS Books

VARIABLES
    overtaken,   \* requests let into a month that was open and is closed now
    arrivedLate  \* year -> what they brought to its last day since its
                 \* balances were read for closing it

lateVars == <<vars, overtaken, arrivedLate>>

\* Past the look at the month and not yet committed.
LetIn(r) == req[r].op \in {"POST", "REVERSE"} /\ req[r].at \in {"numbering", "writing"}
MonthOpen(r) == periodStatus[req[r].period] = "OPEN"

\* The balances of the year were read for a closing that stands or is under way.
BeingClosed(r, y) ==
    /\ req[r].op = "CLOSE_YEAR" /\ YearOf(req[r].period) = y
    /\ req[r].at \in {"posting", "numbering", "writing", "updating"}
BalancesRead(y) == closed[y] \/ \E r \in Admins : BeingClosed(r, y)

\* The step is the commit of an overtaken request.
ComesLate(r) ==
    /\ r \in overtaken
    /\ req[r].at = "writing" /\ req'[r].at = "idle"
    /\ Len(journal') > Len(journal)
Brought(y) ==
    IF \E r \in Requests : ComesLate(r) /\ YearOf(req[r].period) <= y
      THEN journal'[Len(journal')].amount
      ELSE 0

Record ==
    /\ overtaken' =
          {r \in Requests : /\ (LetIn(r) /\ ~ MonthOpen(r))'
                            /\ r \in overtaken \/ (LetIn(r) /\ MonthOpen(r))}
    /\ arrivedLate' =
          [y \in Years |-> IF BalancesRead(y)' THEN arrivedLate[y] + Brought(y) ELSE 0]

LateInit == Init /\ overtaken = {} /\ arrivedLate = [y \in Years |-> 0]
LateSpec == LateInit /\ [][Next /\ Record]_lateVars
FairLateSpec == LateSpec /\ Fairness

---------------------------------------------------------------------------
(* Properties *)

\* What a closed year's income and expense accounts still carry on its last day
\* is what late entries brought, to the rupee: whatever else was posted,
\* reversed, closed, reopened and rolled back beside the closing, in that year or
\* another, was swept, and once (postJournalEntry, postClosingEntry,
\* reopenFiscalYear).
OnlyLateEntriesEscape ==
    \A y \in Years : closed[y] => resultTo[y] = arrivedLate[y]

=============================================================================
