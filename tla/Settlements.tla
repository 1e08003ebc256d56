---------------------------- MODULE Settlements ----------------------------
(***************************************************************************)
(* Settling what is owed: receipts against invoices, their voiding, the    *)
(* voiding of an invoice and returns against it.  The payable side         *)
(* (payments, bills, voidPurchase, purchase returns) is the same code with *)
(* the arrow reversed.                                                     *)
(*                                                                         *)
(* A request is one transaction, READ COMMITTED: what it reads is what was *)
(* committed at that statement, what it writes is seen at its commit, and  *)
(* a row it has updated, or read FOR UPDATE, stays locked until then.      *)
(* paidAmount is written as an absolute figure worked out from an earlier  *)
(* read.                                                                   *)
(*                                                                         *)
(* Money and quantities are small integers: an invoice is for Total units  *)
(* at a price of one, billed on credit and unpaid at the start.  The       *)
(* dates of all documents fall in one fiscal year, so there is one series  *)
(* of each key.                                                            *)
(***************************************************************************)
EXTENDS Integers, Sequences, FiniteSets, Functions

CONSTANTS
    Sales,         \* posted credit invoices of one customer
    Requests,      \* user requests
    Nobody,        \* "nobody holds this row"
    Total,         \* units on an invoice, and so its amount
    Amounts,       \* amounts a receipt may be for
    Operations,    \* the operations users perform in this instance
    MaxReceipts,   \* bound: receipts ever posted
    MaxInFlight    \* bound: requests running at once (1 = one after another)

ASSUME NobodyAssumption == Nobody \notin Requests \union Sales
ASSUME FiniteAssumption == IsFiniteSet(Sales) /\ IsFiniteSet(Requests)
ASSUME SizesAssumption ==
    /\ Total \in Nat \ {0} /\ Amounts \subseteq Nat \ {0}
    /\ MaxReceipts \in Nat /\ MaxInFlight \in Nat \ {0}
    /\ Operations \subseteq {"RECEIVE", "VOID_RECEIPT", "VOID_SALE", "RETURN"}

Rows == Sales \union {"RECEIPT", "SALES_RETURN", "STOCK", "JOURNAL"}

VARIABLES
    sale,      \* sales: status, paidAmount, and what returns took off it
    receipts,  \* receipts with their allocation rows; an id is a position
    control,   \* balance of the accounts-receivable control account
    lock,      \* row -> the request whose transaction holds it
    req        \* what each request is doing and what it has read

vars == <<sale, receipts, control, lock, req>>

Steps == {"idle", "numbering", "reading", "settling", "stock", "journal", "releasing",
          "writing"}
NoAllocation == [s \in Sales |-> 0]
NoJob == [op |-> "NONE", at |-> "idle", doc |-> Nobody, receipt |-> 0, amount |-> 0,
          alloc |-> NoAllocation, paid |-> NoAllocation, todo |-> {}, freed |-> {},
          onAccount |-> FALSE]

InFlight == {r \in Requests : req[r].at # "idle"}
Receipts == 1 .. Len(receipts)

\* What the committed allocation rows say an invoice has received.
Allocated(s) == SumFunctionOnSet([i \in Receipts |-> receipts[i].alloc[s]], Receipts)
Spread(alloc) == SumFunctionOnSet(alloc, Sales)
PutOn(alloc) == {s \in Sales : alloc[s] > 0}

KeepsBooks == UNCHANGED <<sale, receipts, control>>
\* A request that fails its first checks throws and leaves nothing behind.
Begin(r, op, allowed, job) ==
    /\ op \in Operations
    /\ req[r].at = "idle"
    /\ IF allowed THEN Cardinality(InFlight) < MaxInFlight /\ req' = [req EXCEPT ![r] = job]
                  ELSE UNCHANGED req
    /\ KeepsBooks /\ UNCHANGED lock

\* UPDATE and SELECT ... FOR UPDATE wait for the row, then hold it.
CanLock(r, row) == lock[row] \in {Nobody, r}
Take(r, row) == CanLock(r, row) /\ lock' = [lock EXCEPT ![row] = r]
\* (A faulty form of Released, for the check of RequestsFinish.)
FaultLocksKept(r) == lock
Released(r) == [row \in Rows |-> IF lock[row] = r THEN Nobody ELSE lock[row]]

RollBack(r) ==
    /\ req[r].at # "idle"
    /\ req' = [req EXCEPT ![r] = NoJob]
    /\ lock' = Released(r)
    /\ KeepsBooks

---------------------------------------------------------------------------
(* Faulty forms of definitions below, against which the properties are     *)
(* checked; the specification does not use them.                           *)

FaultNotesIgnored(s)        == Total - sale[s].paid
FaultVoidTwice(r)           == TRUE
FaultReturnsIgnored(s)      == sale[s].status = "POSTED"
FaultAllocationsKept(r)     == [receipts EXCEPT ![req[r].receipt].status = "VOIDED"]
FaultPaidKept(r)            ==
    [sale EXCEPT ![req[r].doc].status = "VOIDED"]
FaultRowsKept(r)            == {}
FaultPaidUnchecked(r, s)    == TRUE

---------------------------------------------------------------------------
(* createReceipt *)

\* validateAllocations: no invoice for more than it owes, credit notes counted,
\* and all of them together for no more than was received.
Outstanding(s) == Total - (sale[s].paid + sale[s].credited)
AllocationsValid(alloc, amount) ==
    /\ \A s \in PutOn(alloc) : sale[s].status = "POSTED" /\ alloc[s] <= Outstanding(s)
    /\ Spread(alloc) <= amount

\* The invoices, what is paid on them and their credit notes are read here,
\* before the RECEIPT series is locked.
CreateReceipt(r, alloc, amount) ==
    /\ AllocationsValid(alloc, amount) =>
          Len(receipts) + Cardinality(InFlight) < MaxReceipts
    /\ Begin(r, "RECEIVE", AllocationsValid(alloc, amount),
             [NoJob EXCEPT !.op = "RECEIVE", !.at = "numbering", !.amount = amount,
                           !.alloc = alloc, !.todo = PutOn(alloc),
                           !.paid = [s \in Sales |-> sale[s].paid]])

SeriesOf(op) == IF op = "RECEIVE" THEN "RECEIPT" ELSE "SALES_RETURN"

\* nextVoucher, and the SALES_RETURN number: the series row is held to the end.
AllocateVoucher(r) ==
    /\ req[r].at = "numbering"
    /\ Take(r, SeriesOf(req[r].op))
    /\ req' = [req EXCEPT ![r].at = IF req[r].op = "RETURN" THEN "stock"
                                   ELSE IF req[r].todo = {} THEN "journal" ELSE "settling"]
    /\ KeepsBooks

---------------------------------------------------------------------------
(* voidReceipt *)

VoidReceipt(r, i) ==
    LET todo == PutOn(receipts[i].alloc) IN
       Begin(r, "VOID_RECEIPT", receipts[i].status = "POSTED",
             [NoJob EXCEPT !.op = "VOID_RECEIPT", !.receipt = i, !.todo = todo,
                           !.alloc = receipts[i].alloc, !.amount = receipts[i].amount,
                           !.at = IF todo = {} THEN "journal" ELSE "reading"])

\* The paid figure is read again, invoice by invoice, and not locked.
ReadPaid(r, s) ==
    /\ req[r].at = "reading"
    /\ s \in req[r].todo
    /\ req' = [req EXCEPT ![r].at = "settling", ![r].doc = s, ![r].paid[s] = sale[s].paid]
    /\ KeepsBooks /\ UNCHANGED lock

NewPaid(r, s) == IF req[r].op = "RECEIVE" THEN req[r].paid[s] + req[r].alloc[s]
                                         ELSE req[r].paid[s] - req[r].alloc[s]
\* The checks the database makes on the row.
PaidAllowed(r, s) == 0 <= NewPaid(r, s) /\ NewPaid(r, s) <= Total
\* sale.update of one invoice.
UpdatePaid(r, s) ==
    LET left == req[r].todo \ {s} IN
    /\ req[r].at = "settling"
    /\ s \in req[r].todo
    /\ req[r].op = "VOID_RECEIPT" => s = req[r].doc
    /\ PaidAllowed(r, s)
    /\ Take(r, s)
    /\ req' = [req EXCEPT ![r].todo = left, ![r].paid[s] = NewPaid(r, s),
                          ![r].at = IF left = {} THEN "journal"
                                    ELSE IF req[r].op = "RECEIVE" THEN "settling"
                                    ELSE "reading"]
    /\ KeepsBooks

---------------------------------------------------------------------------
(* voidSale *)

\* The invoice and the returns against it are read first, and not locked.
VoidableSale(s) == sale[s].status = "POSTED" /\ sale[s].returned = 0
VoidSale(r, s) ==
    Begin(r, "VOID_SALE", VoidableSale(s),
          [NoJob EXCEPT !.op = "VOID_SALE", !.at = "stock", !.doc = s, !.amount = Total])

\* recordInward, here and in a return, takes the company's advisory stock lock.
LockStock(r) ==
    /\ req[r].at = "stock"
    /\ Take(r, "STOCK")
    /\ req' = [req EXCEPT ![r].at = "journal"]
    /\ KeepsBooks

\* receiptAllocation.deleteMany sees the rows committed by now.
AllocationRows(s) == {i \in Receipts : receipts[i].alloc[s] > 0}
ReleaseAllocations(r) ==
    /\ req[r].at = "releasing"
    /\ req' = [req EXCEPT ![r].freed = AllocationRows(req[r].doc), ![r].at = "settling"]
    /\ KeepsBooks /\ UNCHANGED lock

LockVoidedSale(r) ==
    /\ req[r].op = "VOID_SALE" /\ req[r].at = "settling"
    /\ Take(r, req[r].doc)
    /\ req' = [req EXCEPT ![r].at = "writing"]
    /\ KeepsBooks

---------------------------------------------------------------------------
(* createSalesReturn *)

\* The invoice and what was returned of it before are read first, unlocked.
Returnable(s, qty) == sale[s].status = "POSTED" /\ qty <= Total - sale[s].returned
CreateSalesReturn(r, s, qty, onAccount) ==
    Begin(r, "RETURN", Returnable(s, qty),
          [NoJob EXCEPT !.op = "RETURN", !.at = "numbering", !.doc = s, !.amount = qty,
                        !.onAccount = onAccount])

---------------------------------------------------------------------------
(* The journal entry and the commit, common to all four. *)

\* postJournalEntry, or reversePostedEntry, whose insert collides when the
\* document's entry has been reversed by now (reversesId is unique).
EntryAccepted(r) ==
    CASE req[r].op = "VOID_RECEIPT" -> receipts[req[r].receipt].status = "POSTED"
      [] req[r].op = "VOID_SALE"    -> sale[req[r].doc].status = "POSTED"
      [] OTHER -> TRUE
PostEntry(r) ==
    /\ req[r].at = "journal"
    /\ EntryAccepted(r)
    /\ Take(r, "JOURNAL")
    /\ req' = [req EXCEPT ![r].at = IF req[r].op = "VOID_SALE" THEN "releasing" ELSE "writing"]
    /\ KeepsBooks

WithPaid(r) ==
    [s \in Sales |-> IF req[r].alloc[s] > 0 THEN [sale[s] EXCEPT !.paid = req[r].paid[s]]
                                           ELSE sale[s]]
WithoutReceipt(r) ==
    [receipts EXCEPT ![req[r].receipt] = [@ EXCEPT !.status = "VOIDED", !.alloc = NoAllocation]]

CommitReceipt(r) ==
    /\ receipts' = Append(receipts, [status |-> "POSTED", amount |-> req[r].amount,
                                     alloc |-> req[r].alloc])
    /\ sale' = WithPaid(r)
    /\ control' = control - req[r].amount

CommitVoidReceipt(r) ==
    /\ receipts' = WithoutReceipt(r)
    /\ sale' = WithPaid(r)
    /\ control' = control + req[r].amount

\* Every unit goes back into stock, the allocation rows go, nothing is paid.
VoidedSale(r) ==
    LET s == req[r].doc IN
    [sale EXCEPT ![s].status = "VOIDED", ![s].paid = 0, ![s].goodsBack = @ + Total]
CommitVoidSale(r) ==
    /\ sale' = VoidedSale(r)
    /\ receipts' = [i \in Receipts |-> IF i \in req[r].freed
                                         THEN [receipts[i] EXCEPT !.alloc[req[r].doc] = 0]
                                         ELSE receipts[i]]
    /\ control' = control - req[r].amount

\* A return on account is a credit note on the invoice; a refund in cash is not.
CommitReturn(r) ==
    LET s   == req[r].doc
        qty == req[r].amount
        credit == IF req[r].onAccount THEN qty ELSE 0 IN
    /\ sale' = [sale EXCEPT ![s].returned = @ + qty, ![s].goodsBack = @ + qty,
                            ![s].credited = @ + credit]
    /\ control' = control - credit
    /\ UNCHANGED receipts

Commit(r) ==
    /\ req[r].at = "writing"
    /\ CASE req[r].op = "RECEIVE"      -> CommitReceipt(r)
         [] req[r].op = "VOID_RECEIPT" -> CommitVoidReceipt(r)
         [] req[r].op = "VOID_SALE"    -> CommitVoidSale(r)
         [] req[r].op = "RETURN"       -> CommitReturn(r)
    /\ req' = [req EXCEPT ![r] = NoJob]
    /\ lock' = Released(r)

---------------------------------------------------------------------------
\* The rows a request is about to lock; PostgreSQL aborts one request of a
\* circle in which everybody waits for a row another of them holds.
WantedRows(r) ==
    CASE req[r].at = "numbering" -> {SeriesOf(req[r].op)}
      [] req[r].at = "settling"  -> IF req[r].op = "RECEIVE" THEN req[r].todo ELSE {req[r].doc}
      [] req[r].at = "stock"     -> {"STOCK"}
      [] req[r].at = "journal"   -> {"JOURNAL"}
      [] OTHER -> {}
HeldBack(r) == WantedRows(r) # {} /\ \A row \in WantedRows(r) : ~ CanLock(r, row)
Deadlocked(group) ==
    \A r \in group : HeldBack(r) /\ \A row \in WantedRows(r) : lock[row] \in group
DeadlockVictim(r) ==
    /\ \E group \in SUBSET Requests : r \in group /\ Deadlocked(group)
    /\ RollBack(r)

\* A statement the database refuses: the collision on reversesId, the check on
\* paidAmount.
Refused(r) ==
    /\ \/ req[r].at = "journal" /\ ~ EntryAccepted(r)
       \/ req[r].at = "settling" /\ \E s \in req[r].todo : ~ PaidAllowed(r, s)
    /\ RollBack(r)

Init ==
    /\ sale = [s \in Sales |-> [status |-> "POSTED", paid |-> 0, credited |-> 0,
                                returned |-> 0, goodsBack |-> 0]]
    /\ receipts = << >>
    /\ control = Total * Cardinality(Sales)
    /\ lock = [row \in Rows |-> Nobody]
    /\ req = [r \in Requests |-> NoJob]

StartSomething(r) ==
    \/ \E alloc \in [Sales -> 0 .. Total], amount \in Amounts : CreateReceipt(r, alloc, amount)
    \/ \E i \in Receipts : VoidReceipt(r, i)
    \/ \E s \in Sales : VoidSale(r, s)
    \/ \E s \in Sales, qty \in 1 .. Total, onAccount \in BOOLEAN :
          CreateSalesReturn(r, s, qty, onAccount)

LockedStep(r) ==
    \/ AllocateVoucher(r)
    \/ \E s \in Sales : UpdatePaid(r, s)
    \/ LockVoidedSale(r)
    \/ LockStock(r)
    \/ PostEntry(r)

FreeStep(r) ==
    \/ \E s \in Sales : ReadPaid(r, s)
    \/ ReleaseAllocations(r)
    \/ Commit(r)

Next == \E r \in Requests : StartSomething(r) \/ LockedStep(r) \/ FreeStep(r) \/ RollBack(r)

Spec == Init /\ [][Next]_vars

\* The server carries a started request on, a lock is granted in turn, and the
\* database ends what it refuses and one victim of every deadlock.
Fairness == \A r \in Requests : /\ SF_vars(LockedStep(r))
                                /\ WF_vars(FreeStep(r))
                                /\ WF_vars(Refused(r) \/ DeadlockVictim(r))
FairSpec == Spec /\ Fairness

---------------------------------------------------------------------------
(* Properties *)

Sale == [status : {"POSTED", "VOIDED"}, paid : 0 .. Total, credited : Nat, returned : Nat,
         goodsBack : Nat]
Receipt == [status : {"POSTED", "VOIDED"}, amount : Amounts, alloc : [Sales -> 0 .. Total]]
Job == [op : {"NONE", "RECEIVE", "VOID_RECEIPT", "VOID_SALE", "RETURN"}, at : Steps,
        doc : Sales \union {Nobody}, receipt : Nat, amount : Nat,
        alloc : [Sales -> 0 .. Total], paid : [Sales -> 0 .. Total], todo : SUBSET Sales,
        freed : SUBSET Nat, onAccount : BOOLEAN]

TypeOK ==
    /\ sale \in [Sales -> Sale]
    /\ receipts \in Seq(Receipt)
    /\ control \in Int
    /\ lock \in [Rows -> Requests \union {Nobody}]
    /\ req \in [Requests -> Job]

\* What an invoice says has been paid on it is what the allocation rows say
\* (createReceipt, voidReceipt and voidSale keep the two by separate writes).
PaidMatchesAllocations == \A s \in Sales : sale[s].paid = Allocated(s)

\* A receipt never takes an invoice past what it owes, counting credit notes
\* (validateAllocations, "at the moment of posting").
AllocationNeverExceedsOwed ==
    [][\A s \in Sales : Allocated(s)' > Allocated(s) =>
         Allocated(s)' + sale'[s].credited <= Total]_vars

\* No money is held against an invoice that has been voided (voidSale releases
\* the allocation rows and zeroes paidAmount).
VoidedSaleHoldsNoMoney ==
    \A s \in Sales : sale[s].status = "VOIDED" => sale[s].paid = 0 /\ Allocated(s) = 0

\* Goods come back from an invoice once, by returns or by its void
\* (ALREADY_RETURNED in voidSale, OVER_RETURN and NOT_POSTED in createSalesReturn).
GoodsComeBackOnce == \A s \in Sales : sale[s].goodsBack <= Total

\* An invoice that leaves the books leaves nothing behind, neither money held
\* against it nor goods counted back twice (voidSale beside createReceipt and
\* createSalesReturn).
VoidedSalesAreSettled == VoidedSaleHoldsNoMoney /\ GoodsComeBackOnce

\* The control account moves by every document in full and once: it carries
\* the invoices that stand, less the receipts that stand and the credit notes.
Charged(s)  == (IF sale[s].status = "POSTED" THEN Total ELSE 0) - sale[s].credited
Received(i) == IF receipts[i].status = "POSTED" THEN receipts[i].amount ELSE 0
ControlAccountAgrees ==
    control = SumFunctionOnSet([s \in Sales |-> Charged(s)], Sales)
              - SumFunctionOnSet([i \in Receipts |-> Received(i)], Receipts)

\* A voided receipt settles nothing, and no receipt settles more than it is for
\* (voidReceipt deletes the rows; ALLOCATION_EXCEEDS_AMOUNT).
ReceiptsCoverAllocations ==
    \A i \in Receipts : Spread(receipts[i].alloc) <= Received(i)

\* And every row is well formed, an invoice's paid amount within nil and its
\* total whatever two requests wrote (sales_paid_not_over_total).
ReceiptsStand == TypeOK /\ ReceiptsCoverAllocations

\* No circle of requests waits for rows they hold among themselves.
NoDeadlock == \A group \in SUBSET Requests : group # {} => ~ Deadlocked(group)

\* Every request ends, committed, refused or aborted.
RequestsFinish == \A r \in Requests : req[r].at # "idle" ~> req[r].at = "idle"

=============================================================================
