------------------------------ MODULE PeriodEnd ------------------------------
(* What an accountant does when a period ends: agree the bank, look at the     *)
(* reports, and work out tax, depreciation and the GST set-off.  Each is a     *)
(* module with its own machine; none touches another's state, so a behaviour   *)
(* works on one subject and leaves the rest as they were.                      *)
EXTENDS Banking, Statements, IncomeTax, Depreciation, Gst, SetOff, Matching

VARIABLE subject   \* what this behaviour is about

Subjects == {"bank", "reports", "income tax", "depreciation", "gst", "set-off", "matching"}

(* Before anything is keyed in: a blank form of each kind.                     *)
BlankLine == [quantity |-> 1, rate |-> 0, discountPercent |-> 0, taxPercent |-> 0, cessPercent |-> 0,
              inclusive |-> FALSE, supply |-> "NON_GST"]
BlankIncome == assessee = [kind |-> "INDIVIDUAL", regime |-> "NEW", age |-> "BELOW_60"] /\ income = 0 /\ startedAt = 0
BlankGst == line = BlankLine /\ firstPrice = 0 /\ returned = << >>
BlankSetOff == liability = [head \in Heads |-> 0] /\ credit = [head \in Heads |-> 0]

Init ==
    /\ subject \in Subjects
    /\ IF subject = "income tax" THEN IncomeInit ELSE BlankIncome
    /\ IF subject = "gst" THEN GstInit ELSE BlankGst
    /\ IF subject = "set-off" THEN SetOffInit ELSE BlankSetOff
    /\ BankInit /\ ReportsInit /\ BlockInit /\ MatchingInit

machines == <<bankVars, reportVars, incomeVars, blockVars, gstVars, setOffVars, matchingVars>>
vars == <<subject, machines>>

(* The state of every machine but one is kept.                                 *)
Kept(about) ==
    /\ UNCHANGED subject /\ subject = about
    /\ about # "bank" => UNCHANGED bankVars
    /\ about # "reports" => UNCHANGED reportVars
    /\ about # "income tax" => UNCHANGED incomeVars
    /\ about # "depreciation" => UNCHANGED blockVars
    /\ about # "gst" => UNCHANGED gstVars
    /\ about # "set-off" => UNCHANGED setOffVars
    /\ about # "matching" => UNCHANGED matchingVars

Next ==
    \/ Kept("bank") /\ BankNext
    \/ Kept("reports") /\ ReportsNext
    \/ Kept("income tax") /\ EarnMore
    \/ Kept("depreciation") /\ BlockNext
    \/ Kept("gst") /\ GstNext
    \/ Kept("set-off") /\ SetOffNext
    \/ Kept("matching") /\ MatchingNext

Spec == Init /\ [][Next]_vars
=============================================================================
