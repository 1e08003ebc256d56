----------------------------- MODULE MCPeriodEnd -----------------------------
(* Instances of the period-end modules small enough for TLC.                   *)
EXTENDS PeriodEnd

(* Banking: the same payment on two days, so that matches cross the end of a   *)
(* period, and one into the other account.                                     *)
Row(a, day, n) == [account |-> a, day |-> day, amount |-> n, text |-> "t"]
CrossingRows == {Row("A", 1, -1), Row("A", 2, -1), Row("B", 1, 1)}
CrossingFiles == {<<Row("A", 1, -1), Row("A", 1, -1)>>,
                  <<Row("A", 1, -1), Row("A", 2, -1), Row("B", 1, 1)>>}
Paid == [a \in {"A", "B"} |-> IF a = "A" THEN -1 ELSE 0]
(* Movements of one bank account each; a contra voucher between two of the     *)
(* business's own accounts is left out, and the README says what it does.      *)
OneAccountMovements == {Paid, [a \in {"A", "B"} |-> IF a = "B" THEN 1 ELSE 0]}
(* Uploads are told apart by nothing.                                          *)
UploadSymmetry == Permutations(Uploads)

(* Statements: cash sales and a return of them, an expense on an account of    *)
(* its own, depreciation and the owner's drawings.                             *)
Voucher(debit, cr, amount) == [debit |-> debit, credit |-> cr, amount |-> amount]
Trade ==
    {Voucher("CASH", "SALES", 5), Voucher("SALES_RETURNS", "CASH", 2),
     Voucher("OWN_EXPENSE", "LOAN", 3), Voucher("OWN_EXPENSE", "DEPRECIATED", 5),
     Voucher("DRAWINGS", "CASH", 1)}
AcrossTheYearEnd == {<<2, 3>>, <<3, 4>>}

(* From nothing past five crore, and across the company band at ten crore.     *)
EitherSide == {0, 99000000}

(* A rupee fraction, a price whose tax is odd paise and one in the thousands.  *)
OddPrices == {1, 150, 1150}

(* Differences of 0, 3, 5, 8, 33, 38 and 41 days: within and beyond the likely, *)
(* possible and reference windows.                                             *)
SpreadDays == {0, 3, 8, 41}
=============================================================================
