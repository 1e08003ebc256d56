------------------------------- MODULE Ledger -------------------------------
(***************************************************************************)
(* What the general ledger promises an auditor, with no request, lock or    *)
(* transaction in it: each fiscal year has a book of entries numbered from  *)
(* 1 without a gap (an entry's number is its place); entries are only ever  *)
(* added at the end; and the only way to take one back is an entry of the   *)
(* same year with the opposite amount, once.                                *)
(***************************************************************************)
EXTENDS Integers, Sequences

CONSTANT Years
VARIABLE book   \* book[y][n]: entry n of year y and the number it takes back

None == 0       \* takes nothing back

Init == book = [y \in Years |-> << >>]

TakenBack(y, n) == \E m \in 1 .. Len(book[y]) : book[y][m].takesBack = n

Newest(y) == book'[y][Len(book'[y])]
Grows(y) ==
    /\ Len(book'[y]) = Len(book[y]) + 1
    /\ book' = [book EXCEPT ![y] = Append(@, Newest(y))]

Post(y) == Grows(y) /\ Newest(y).takesBack = None

TakeBack(y, n) ==
    /\ ~ TakenBack(y, n)
    /\ Grows(y)
    /\ Newest(y) = [amount |-> - book[y][n].amount, takesBack |-> n]

Next == \E y \in Years : \/ Post(y)
                         \/ \E n \in 1 .. Len(book[y]) : TakeBack(y, n)

Spec == Init /\ [][Next]_book
=============================================================================
