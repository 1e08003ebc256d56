------------------------ MODULE Settlements_proofs ------------------------
(***************************************************************************)
(* Proofs about Settlements, for any invoices, any requests and any        *)
(* amounts.                                                                *)
(*                                                                         *)
(* First, with any number of requests in flight: IInv says of every        *)
(* request what it holds of the document it works on (JobStands): past its *)
(* journal entry it holds the journal lock and the document still stands,  *)
(* which is why no document moves the control account twice.  From it      *)
(* follow ControlAccountAgrees and ReceiptsStand.                          *)
(*                                                                         *)
(* Then, with one request after another: InTurn adds that what the request *)
(* in flight has read is still so (Fresh), which is exactly what the code  *)
(* relies on without locking the invoice.  From it follow the properties   *)
(* that two requests at once can break.                                    *)
(***************************************************************************)
EXTENDS Settlements, Sums, SequenceTheorems

---------------------------------------------------------------------------
(* Records. *)

LEMMA NoJobType == NoJob \in Job /\ NoJob.at = "idle" /\ NoJob.op = "NONE"
  BY SizesAssumption DEF NoJob, Job, NoAllocation, Steps

\* What a job is made of.
LEMMA JobFields ==
    ASSUME NEW j \in Job
    PROVE  /\ j.op \in {"NONE", "RECEIVE", "VOID_RECEIPT", "VOID_SALE", "RETURN"}
           /\ j.at \in Steps /\ j.doc \in Sales \union {Nobody} /\ j.receipt \in Nat
           /\ j.amount \in Nat /\ j.alloc \in [Sales -> 0 .. Total]
           /\ j.paid \in [Sales -> 0 .. Total] /\ j.todo \in SUBSET Sales
           /\ j.freed \in SUBSET Nat /\ j.onAccount \in BOOLEAN
  BY DEF Job

LEMMA ReceiptFields ==
    ASSUME TypeOK, NEW i \in Receipts
    PROVE  /\ receipts[i] \in Receipt /\ i \in Nat
           /\ receipts[i].status \in {"POSTED", "VOIDED"} /\ receipts[i].amount \in Amounts
           /\ receipts[i].alloc \in [Sales -> 0 .. Total]
           /\ receipts[i].amount \in Nat
  <1>1. receipts[i] \in Receipt /\ i \in Nat
    BY DEF TypeOK, Receipts
  <1> QED
    BY <1>1, SizesAssumption DEF Receipt

LEMMA SaleFields ==
    ASSUME TypeOK, NEW s \in Sales
    PROVE  /\ sale[s] \in Sale /\ sale[s].status \in {"POSTED", "VOIDED"}
           /\ sale[s].paid \in 0 .. Total /\ sale[s].credited \in Nat
           /\ sale[s].returned \in Nat /\ sale[s].goodsBack \in Nat
  BY DEF TypeOK, Sale

\* What the writes of the commits make of a row.
LEMMA VoidedSaleRow ==
    ASSUME NEW x \in Sale, NEW g \in Nat
    PROVE  LET row == [x EXCEPT !.status = "VOIDED", !.paid = 0, !.goodsBack = g] IN
           /\ row \in Sale /\ row.status = "VOIDED" /\ row.paid = 0
           /\ row.credited = x.credited /\ row.returned = x.returned /\ row.goodsBack = g
  <1> DEFINE row == [x EXCEPT !.status = "VOIDED", !.paid = 0, !.goodsBack = g]
  <1>1. /\ row.status = "VOIDED" /\ row.paid = 0
        /\ row.credited = x.credited /\ row.returned = x.returned /\ row.goodsBack = g
    BY DEF Sale
  <1>2. 0 \in 0 .. Total
    BY SizesAssumption
  <1>3. [[x EXCEPT !.status = "VOIDED"] EXCEPT !.paid = 0] \in Sale
    BY <1>2 DEF Sale
  <1>4. ASSUME NEW y \in Sale PROVE [y EXCEPT !.goodsBack = g] \in Sale
    BY DEF Sale
  <1> QED
    BY <1>1, <1>3, <1>4

ReturnedOf(x, a, g, c) == [x EXCEPT !.returned = a, !.goodsBack = g, !.credited = c]
IsReturned(row, x, a, g, c) ==
    /\ row \in Sale /\ row.status = x.status /\ row.paid = x.paid
    /\ row.returned = a /\ row.goodsBack = g /\ row.credited = c
LEMMA ReturnedSaleRow ==
    ASSUME NEW x \in Sale, NEW a \in Nat, NEW g \in Nat, NEW c \in Nat
    PROVE  IsReturned(ReturnedOf(x, a, g, c), x, a, g, c)
  <1> DEFINE row == ReturnedOf(x, a, g, c)
  <1>1. /\ row.status = x.status /\ row.paid = x.paid
        /\ row.returned = a /\ row.goodsBack = g /\ row.credited = c
    BY DEF Sale, ReturnedOf
  <1>2. row \in Sale
    BY DEF Sale, ReturnedOf
  <1> QED
    BY <1>1, <1>2 DEF IsReturned

LEMMA VoidedReceiptRow ==
    ASSUME NEW x \in Receipt
    PROVE  LET row == [x EXCEPT !.status = "VOIDED", !.alloc = NoAllocation] IN
           /\ row \in Receipt /\ row.status = "VOIDED" /\ row.alloc = NoAllocation
           /\ row.amount = x.amount
  <1> DEFINE row == [x EXCEPT !.status = "VOIDED", !.alloc = NoAllocation]
  <1>1. row.status = "VOIDED" /\ row.alloc = NoAllocation /\ row.amount = x.amount
    BY DEF Receipt
  <1>2. NoAllocation \in [Sales -> 0 .. Total]
    BY SizesAssumption DEF NoAllocation
  <1>3. row \in Receipt
    BY <1>2 DEF Receipt
  <1> QED
    BY <1>1, <1>3

LEMMA FreedReceiptRow ==
    ASSUME NEW x \in Receipt, NEW s \in Sales
    PROVE  LET row == [x EXCEPT !.alloc[s] = 0] IN
           /\ row \in Receipt /\ row.status = x.status /\ row.amount = x.amount
           /\ row.alloc = [x.alloc EXCEPT ![s] = 0]
  <1> DEFINE row == [x EXCEPT !.alloc[s] = 0]
  <1>1. /\ row.status = x.status /\ row.amount = x.amount
        /\ row.alloc = [x.alloc EXCEPT ![s] = 0]
    BY DEF Receipt
  <1>2. [x.alloc EXCEPT ![s] = 0] \in [Sales -> 0 .. Total]
    BY SizesAssumption DEF Receipt
  <1>3. row \in Receipt
    BY <1>2 DEF Receipt
  <1> QED
    BY <1>1, <1>3

---------------------------------------------------------------------------
(* The inductive invariant, with any number of requests in flight. *)

\* The document a void is about still stands.
Accepted(j) ==
    /\ j.op = "VOID_RECEIPT" => receipts[j.receipt].status = "POSTED"
    /\ j.op = "VOID_SALE"    => sale[j.doc].status = "POSTED"

\* Past its entry a request holds the journal's number series to its commit.
PastEntry(j) == \/ j.at \in {"releasing", "writing"}
                \/ j.op = "VOID_SALE" /\ j.at = "settling"

JobStands(j, holds) ==
    /\ j.op = "NONE" => j.at = "idle"
    /\ j.op = "RECEIVE" => /\ j.amount \in Amounts /\ Spread(j.alloc) <= j.amount
                           /\ j.at \in {"numbering", "settling", "journal", "writing"}
    /\ j.op = "VOID_RECEIPT" => /\ j.receipt \in Receipts
                                /\ j.amount = receipts[j.receipt].amount
                                /\ j.at \in {"reading", "settling", "journal", "writing"}
    /\ j.op = "VOID_SALE" => /\ j.doc \in Sales /\ j.amount = Total /\ j.todo = {}
                             /\ j.at \in {"stock", "journal", "releasing", "settling", "writing"}
    /\ j.op = "RETURN" => /\ j.doc \in Sales
                          /\ j.at \in {"numbering", "stock", "journal", "writing"}
    /\ PastEntry(j) => holds /\ Accepted(j)

JobsStand == \A r \in Requests : JobStands(req[r], lock["JOURNAL"] = r)
Books     == <<sale, receipts, control>>
IInv      == ReceiptsStand /\ ControlAccountAgrees /\ JobsStand

---------------------------------------------------------------------------
(* Steps that leave the books alone. *)

LEMMA BooksKept ==
    ASSUME UNCHANGED Books, ReceiptsCoverAllocations, ControlAccountAgrees
    PROVE  ReceiptsCoverAllocations' /\ ControlAccountAgrees'
  BY DEF Books, ReceiptsCoverAllocations, ControlAccountAgrees, Receipts, Charged, Received, Spread

LEMMA JobKept ==
    ASSUME UNCHANGED Books, NEW j, NEW holds
    PROVE  JobStands(j, holds)' = JobStands(j, holds)
  BY DEF Books, JobStands, PastEntry, Accepted, Receipts, Spread

\* Whatever row is taken or let go by one request, the others hold theirs.
OthersHold(r) ==
    /\ lock' \in [Rows -> Requests \union {Nobody}]
    /\ \A row \in Rows, u \in Requests \ {r} : lock'[row] = u <=> lock[row] = u

LEMMA TakeKeeps ==
    ASSUME TypeOK, NEW r \in Requests, NEW row \in Rows, Take(r, row)
    PROVE  OthersHold(r) /\ lock'[row] = r
  BY NobodyAssumption DEF TypeOK, Take, CanLock, OthersHold

LEMMA ReleasedKeeps ==
    ASSUME TypeOK, NEW r \in Requests, lock' = Released(r)
    PROVE  OthersHold(r)
  BY NobodyAssumption DEF TypeOK, Released, OthersHold

LEMMA KeptKeeps ==
    ASSUME TypeOK, NEW r \in Requests, UNCHANGED lock
    PROVE  OthersHold(r)
  BY DEF TypeOK, OthersHold

LEMMA OneJob ==
    ASSUME IInv, UNCHANGED Books, NEW r \in Requests, NEW j \in Job,
           req' = [req EXCEPT ![r] = j], OthersHold(r),
           NEW holds \in BOOLEAN, holds = (lock'["JOURNAL"] = r), JobStands(j, holds)
    PROVE  IInv'
  <1>1. /\ req' \in [Requests -> Job] /\ req'[r] = j
        /\ \A u \in Requests \ {r} : req'[u] = req[u]
    BY DEF IInv, ReceiptsStand, TypeOK
  <1>2. TypeOK'
    BY <1>1 DEF IInv, ReceiptsStand, TypeOK, Books, OthersHold
  <1>3. ReceiptsCoverAllocations' /\ ControlAccountAgrees'
    BY BooksKept DEF IInv, ReceiptsStand
  <1>4. ASSUME NEW u \in Requests PROVE JobStands(req[u], lock["JOURNAL"] = u)'
    <2>1. PICK k, h : k = req'[u] /\ h = (lock'["JOURNAL"] = u)
      OBVIOUS
    <2>2. "JOURNAL" \in Rows
      BY DEF Rows
    <2>3. JobStands(k, h)
      BY <1>1, <2>1, <2>2 DEF IInv, JobsStand, OthersHold
    <2>4. JobStands(k, h)'
      BY <2>3, JobKept
    <2> QED
      BY <2>1, <2>4 DEF JobStands, PastEntry, Accepted
  <1> QED
    BY <1>2, <1>3, <1>4 DEF IInv, ReceiptsStand, JobsStand

LEMMA BeginKeeps ==
    ASSUME IInv, NEW r \in Requests, NEW op, NEW allowed, NEW job \in Job,
           Begin(r, op, allowed, job), allowed => \A h \in BOOLEAN : JobStands(job, h)
    PROVE  IInv'
  <1>1. TypeOK /\ UNCHANGED Books /\ UNCHANGED lock /\ OthersHold(r)
    BY KeptKeeps DEF IInv, ReceiptsStand, Begin, KeepsBooks, Books
  <1>2. PICK j \in Job, holds \in BOOLEAN :
            /\ req' = [req EXCEPT ![r] = j] /\ holds = (lock'["JOURNAL"] = r)
            /\ JobStands(j, holds)
    <2>1. CASE allowed
      BY <2>1 DEF Begin
    <2>2. CASE ~ allowed
      <3>1. req' = [req EXCEPT ![r] = req[r]] /\ req[r] \in Job
        BY <1>1, <2>2 DEF Begin, TypeOK
      <3> QED
        BY <1>1, <3>1 DEF IInv, JobsStand
    <2> QED
      BY <2>1, <2>2
  <1> QED
    BY <1>1, <1>2, OneJob

---------------------------------------------------------------------------
(* One lemma per step. *)

ReceiveJob(alloc, amount) ==
    [NoJob EXCEPT !.op = "RECEIVE", !.at = "numbering", !.amount = amount,
                  !.alloc = alloc, !.todo = PutOn(alloc),
                  !.paid = [s \in Sales |-> sale[s].paid]]
VoidReceiptJob(i) ==
    [NoJob EXCEPT !.op = "VOID_RECEIPT", !.receipt = i, !.todo = PutOn(receipts[i].alloc),
                  !.alloc = receipts[i].alloc, !.amount = receipts[i].amount,
                  !.at = IF PutOn(receipts[i].alloc) = {} THEN "journal" ELSE "reading"]
VoidSaleJob(s) ==
    [NoJob EXCEPT !.op = "VOID_SALE", !.at = "stock", !.doc = s, !.amount = Total]
ReturnJob(s, qty, onAccount) ==
    [NoJob EXCEPT !.op = "RETURN", !.at = "numbering", !.doc = s, !.amount = qty,
                  !.onAccount = onAccount]

LEMMA ReceiveJobIs ==
    ASSUME TypeOK, NEW alloc \in [Sales -> 0 .. Total], NEW amount \in Amounts
    PROVE  LET j == ReceiveJob(alloc, amount) IN
           /\ j \in Job /\ j.op = "RECEIVE" /\ j.at = "numbering" /\ j.amount = amount
           /\ j.alloc = alloc /\ j.todo = PutOn(alloc)
           /\ \A s \in Sales : j.paid[s] = sale[s].paid
  <1> DEFINE j == ReceiveJob(alloc, amount)
  <1>1. PutOn(alloc) \in SUBSET Sales /\ amount \in Nat
    BY SizesAssumption DEF PutOn
  <1>2. PICK paid \in [Sales -> 0 .. Total] : paid = [s \in Sales |-> sale[s].paid]
    BY SaleFields
  <1>3. j \in Job
    BY <1>1, <1>2, NoJobType DEF ReceiveJob, Job, Steps
  <1>4. /\ j.op = "RECEIVE" /\ j.at = "numbering" /\ j.amount = amount
        /\ j.alloc = alloc /\ j.todo = PutOn(alloc) /\ j.paid = paid
    BY <1>2 DEF ReceiveJob, NoJob
  <1> QED
    BY <1>2, <1>3, <1>4

LEMMA VoidReceiptJobIs ==
    ASSUME TypeOK, NEW i \in Receipts
    PROVE  LET j == VoidReceiptJob(i) IN
           /\ j \in Job /\ j.op = "VOID_RECEIPT" /\ j.receipt = i
           /\ j.at = IF j.todo = {} THEN "journal" ELSE "reading"
           /\ j.amount = receipts[i].amount
           /\ j.alloc = receipts[i].alloc /\ j.todo = PutOn(receipts[i].alloc)
  <1> DEFINE j == VoidReceiptJob(i)
  <1>1. PICK amount, alloc : amount = receipts[i].amount /\ alloc = receipts[i].alloc
    OBVIOUS
  <1>2. PICK todo : todo = PutOn(alloc)
    OBVIOUS
  <1>3. todo \in SUBSET Sales /\ amount \in Nat /\ alloc \in [Sales -> 0 .. Total] /\ i \in Nat
    BY <1>1, <1>2, ReceiptFields DEF PutOn
  <1>4. j = [NoJob EXCEPT !.op = "VOID_RECEIPT", !.receipt = i, !.todo = todo, !.alloc = alloc,
                          !.amount = amount, !.at = IF todo = {} THEN "journal" ELSE "reading"]
    BY <1>1, <1>2 DEF VoidReceiptJob
  <1>5. j \in Job
    BY <1>3, <1>4, NoJobType DEF Job, Steps
  <1>6. /\ j.op = "VOID_RECEIPT" /\ j.receipt = i /\ j.todo = todo /\ j.alloc = alloc
        /\ j.amount = amount /\ j.at = IF todo = {} THEN "journal" ELSE "reading"
    BY <1>4 DEF NoJob
  <1> QED
    BY <1>1, <1>2, <1>5, <1>6

LEMMA VoidSaleJobIs ==
    ASSUME NEW s \in Sales
    PROVE  LET j == VoidSaleJob(s) IN
           /\ j \in Job /\ j.op = "VOID_SALE" /\ j.at = "stock" /\ j.doc = s /\ j.amount = Total
           /\ j.todo = {}
  <1> DEFINE j == VoidSaleJob(s)
  <1>1. j \in Job
    BY NoJobType, SizesAssumption DEF VoidSaleJob, Job, Steps
  <1>2. /\ j.op = "VOID_SALE" /\ j.at = "stock" /\ j.doc = s /\ j.amount = Total /\ j.todo = {}
    BY DEF VoidSaleJob, NoJob
  <1> QED
    BY <1>1, <1>2

LEMMA ReturnJobIs ==
    ASSUME NEW s \in Sales, NEW qty \in 1 .. Total, NEW onAccount \in BOOLEAN
    PROVE  LET j == ReturnJob(s, qty, onAccount) IN
           /\ j \in Job /\ j.op = "RETURN" /\ j.at = "numbering" /\ j.doc = s /\ j.amount = qty
           /\ j.onAccount = onAccount
  <1> DEFINE j == ReturnJob(s, qty, onAccount)
  <1>1. j \in Job
    <2>1. qty \in Nat
      BY SizesAssumption
    <2> QED
      BY <2>1, NoJobType DEF ReturnJob, Job, Steps
  <1>2. /\ j.op = "RETURN" /\ j.at = "numbering" /\ j.doc = s /\ j.amount = qty
        /\ j.onAccount = onAccount
    BY DEF ReturnJob, NoJob
  <1> QED
    BY <1>1, <1>2

LEMMA StartKeeps ==
    ASSUME IInv, NEW r \in Requests, StartSomething(r)
    PROVE  IInv'
  <1>1. TypeOK
    BY DEF IInv, ReceiptsStand
  <1>2. ASSUME NEW alloc \in [Sales -> 0 .. Total], NEW amount \in Amounts,
               CreateReceipt(r, alloc, amount)
        PROVE  IInv'
    <2>1. PICK j : j = ReceiveJob(alloc, amount)
      OBVIOUS
    <2>2. /\ j \in Job /\ j.op = "RECEIVE" /\ j.at = "numbering" /\ j.amount = amount
          /\ j.alloc = alloc
      BY <1>1, <2>1, ReceiveJobIs
    <2>3. Begin(r, "RECEIVE", AllocationsValid(alloc, amount), j)
      BY <1>2, <2>1 DEF CreateReceipt, ReceiveJob
    <2>4. AllocationsValid(alloc, amount) => \A h \in BOOLEAN : JobStands(j, h)
      BY <2>2 DEF AllocationsValid, JobStands, PastEntry
    <2> QED
      BY <2>2, <2>3, <2>4, BeginKeeps
  <1>3. ASSUME NEW i \in Receipts, VoidReceipt(r, i) PROVE IInv'
    <2>1. PICK j : j = VoidReceiptJob(i)
      OBVIOUS
    <2>2. /\ j \in Job /\ j.op = "VOID_RECEIPT" /\ j.receipt = i
          /\ j.at = IF j.todo = {} THEN "journal" ELSE "reading"
          /\ j.amount = receipts[i].amount
      BY <1>1, <2>1, VoidReceiptJobIs
    <2>3. Begin(r, "VOID_RECEIPT", receipts[i].status = "POSTED", j)
      BY <1>3, <2>1 DEF VoidReceipt, VoidReceiptJob
    <2>4. \A h \in BOOLEAN : JobStands(j, h)
      BY <2>2 DEF JobStands, PastEntry
    <2> QED
      BY <2>2, <2>3, <2>4, BeginKeeps
  <1>4. ASSUME NEW s \in Sales, VoidSale(r, s) PROVE IInv'
    <2>1. PICK j : j = VoidSaleJob(s)
      OBVIOUS
    <2>2. /\ j \in Job /\ j.op = "VOID_SALE" /\ j.at = "stock" /\ j.doc = s /\ j.amount = Total
          /\ j.todo = {}
      BY <2>1, VoidSaleJobIs
    <2>3. Begin(r, "VOID_SALE", VoidableSale(s), j)
      BY <1>4, <2>1 DEF VoidSale, VoidSaleJob
    <2>4. \A h \in BOOLEAN : JobStands(j, h)
      BY <2>2 DEF JobStands, PastEntry
    <2> QED
      BY <2>2, <2>3, <2>4, BeginKeeps
  <1>5. ASSUME NEW s \in Sales, NEW qty \in 1 .. Total, NEW onAccount \in BOOLEAN,
               CreateSalesReturn(r, s, qty, onAccount)
        PROVE  IInv'
    <2>1. PICK j : j = ReturnJob(s, qty, onAccount)
      OBVIOUS
    <2>2. j \in Job /\ j.op = "RETURN" /\ j.at = "numbering" /\ j.doc = s
      BY <2>1, ReturnJobIs
    <2>3. Begin(r, "RETURN", Returnable(s, qty), j)
      BY <1>5, <2>1 DEF CreateSalesReturn, ReturnJob
    <2>4. \A h \in BOOLEAN : JobStands(j, h)
      BY <2>2 DEF JobStands, PastEntry
    <2> QED
      BY <2>2, <2>3, <2>4, BeginKeeps
  <1> QED
    BY <1>2, <1>3, <1>4, <1>5 DEF StartSomething

\* A step that moves one request on without touching the books.
LEMMA MovesOn ==
    ASSUME IInv, NEW r \in Requests, UNCHANGED Books, OthersHold(r), NEW j \in Job,
           req' = [req EXCEPT ![r] = j], \A h \in BOOLEAN : JobStands(j, h)
    PROVE  IInv'
  <1>1. PICK h \in BOOLEAN : h = (lock'["JOURNAL"] = r)
    OBVIOUS
  <1> QED
    BY <1>1, OneJob

LEMMA AllocateVoucherKeeps ==
    ASSUME IInv, NEW r \in Requests, AllocateVoucher(r)
    PROVE  IInv'
  <1> DEFINE j == [req[r] EXCEPT !.at = IF req[r].op = "RETURN" THEN "stock"
                                        ELSE IF req[r].todo = {} THEN "journal" ELSE "settling"]
  <1>1. TypeOK /\ req[r] \in Job /\ JobStands(req[r], lock["JOURNAL"] = r)
    BY DEF IInv, ReceiptsStand, TypeOK, JobsStand
  <1>2. req' = [req EXCEPT ![r] = j] /\ UNCHANGED Books
    BY <1>1 DEF AllocateVoucher, KeepsBooks, Books, TypeOK
  <1>3. OthersHold(r)
    <2>1. SeriesOf(req[r].op) \in Rows
      BY DEF SeriesOf, Rows
    <2> QED
      BY <1>1, <2>1, TakeKeeps DEF AllocateVoucher
  <1>4. j \in Job
    BY <1>1 DEF Job, Steps
  <1>5. \A h \in BOOLEAN : JobStands(j, h)
    BY <1>1 DEF JobStands, PastEntry, AllocateVoucher, Job
  <1> HIDE DEF j
  <1> QED
    BY <1>2, <1>3, <1>4, <1>5, MovesOn

LEMMA ReadPaidKeeps ==
    ASSUME IInv, NEW r \in Requests, NEW s \in Sales, ReadPaid(r, s)
    PROVE  IInv'
  <1> DEFINE j == [req[r] EXCEPT !.at = "settling", !.doc = s,
                                 !.paid = [req[r].paid EXCEPT ![s] = sale[s].paid]]
  <1>1. TypeOK /\ req[r] \in Job /\ JobStands(req[r], lock["JOURNAL"] = r)
    BY DEF IInv, ReceiptsStand, TypeOK, JobsStand
  <1>2. req' = [req EXCEPT ![r] = j] /\ UNCHANGED Books /\ OthersHold(r)
    BY <1>1, KeptKeeps DEF ReadPaid, KeepsBooks, Books, TypeOK
  <1>3. j \in Job
    BY <1>1, JobFields, SaleFields DEF Job, Steps
  <1>4. \A h \in BOOLEAN : JobStands(j, h)
    BY <1>1 DEF JobStands, PastEntry, ReadPaid, Job
  <1> HIDE DEF j
  <1> QED
    BY <1>2, <1>3, <1>4, MovesOn

LEMMA UpdatePaidKeeps ==
    ASSUME IInv, NEW r \in Requests, NEW s \in Sales, UpdatePaid(r, s)
    PROVE  IInv'
  <1> DEFINE left == req[r].todo \ {s}
             next == IF left = {} THEN "journal"
                     ELSE IF req[r].op = "RECEIVE" THEN "settling" ELSE "reading"
             j == [req[r] EXCEPT !.todo = left, !.at = next,
                                 !.paid = [req[r].paid EXCEPT ![s] = NewPaid(r, s)]]
  <1>1. TypeOK /\ req[r] \in Job /\ JobStands(req[r], lock["JOURNAL"] = r)
    BY DEF IInv, ReceiptsStand, TypeOK, JobsStand
  <1>2. req' = [req EXCEPT ![r] = j] /\ UNCHANGED Books
    BY <1>1 DEF UpdatePaid, KeepsBooks, Books, TypeOK
  <1>3. OthersHold(r)
    <2>1. s \in Rows
      BY DEF Rows
    <2> QED
      BY <1>1, <2>1, TakeKeeps DEF UpdatePaid
  <1>4. NewPaid(r, s) \in 0 .. Total
    BY <1>1, JobFields, SizesAssumption DEF UpdatePaid, PaidAllowed, NewPaid
  <1>5. j \in Job
    BY <1>1, <1>4, JobFields DEF Job, Steps
  <1>6. req[r].op \in {"RECEIVE", "VOID_RECEIPT"} /\ req[r].at = "settling"
    BY <1>1, JobFields DEF JobStands, UpdatePaid
  <1>7. j.op = req[r].op /\ j.at = next /\ j.amount = req[r].amount
        /\ j.alloc = req[r].alloc /\ j.receipt = req[r].receipt
    BY <1>1 DEF Job
  <1> HIDE DEF j, left
  <1>8. \A h \in BOOLEAN : JobStands(j, h)
    BY <1>1, <1>6, <1>7 DEF JobStands, PastEntry
  <1> QED
    BY <1>2, <1>3, <1>5, <1>8, MovesOn

LEMMA LockStockKeeps ==
    ASSUME IInv, NEW r \in Requests, LockStock(r)
    PROVE  IInv'
  <1> DEFINE j == [req[r] EXCEPT !.at = "journal"]
  <1>1. TypeOK /\ req[r] \in Job /\ JobStands(req[r], lock["JOURNAL"] = r)
    BY DEF IInv, ReceiptsStand, TypeOK, JobsStand
  <1>2. req' = [req EXCEPT ![r] = j] /\ UNCHANGED Books
    BY <1>1 DEF LockStock, KeepsBooks, Books, TypeOK
  <1>3. OthersHold(r)
    BY <1>1, TakeKeeps DEF LockStock, Rows
  <1>4. j \in Job
    BY <1>1 DEF Job, Steps
  <1>5. \A h \in BOOLEAN : JobStands(j, h)
    BY <1>1 DEF JobStands, PastEntry, LockStock, Job
  <1> HIDE DEF j
  <1> QED
    BY <1>2, <1>3, <1>4, <1>5, MovesOn

\* A step that leaves a request with the journal's series in its hands.
LEMMA MovesOnHolding ==
    ASSUME IInv, NEW r \in Requests, UNCHANGED Books, OthersHold(r), lock'["JOURNAL"] = r,
           NEW j \in Job, req' = [req EXCEPT ![r] = j], JobStands(j, TRUE)
    PROVE  IInv'
  BY OneJob

LEMMA PostEntryKeeps ==
    ASSUME IInv, NEW r \in Requests, PostEntry(r)
    PROVE  IInv'
  <1> DEFINE j == [req[r] EXCEPT !.at = IF req[r].op = "VOID_SALE" THEN "releasing" ELSE "writing"]
  <1>1. TypeOK /\ req[r] \in Job /\ JobStands(req[r], lock["JOURNAL"] = r)
    BY DEF IInv, ReceiptsStand, TypeOK, JobsStand
  <1>2. req' = [req EXCEPT ![r] = j] /\ UNCHANGED Books
    BY <1>1 DEF PostEntry, KeepsBooks, Books, TypeOK
  <1>3. OthersHold(r) /\ lock'["JOURNAL"] = r
    BY <1>1, TakeKeeps DEF PostEntry, Rows
  <1>4. j \in Job
    BY <1>1 DEF Job, Steps
  <1>5. JobStands(j, TRUE)
    BY <1>1 DEF JobStands, PastEntry, Accepted, PostEntry, EntryAccepted, Job
  <1> HIDE DEF j
  <1> QED
    BY <1>2, <1>3, <1>4, <1>5, MovesOnHolding

LEMMA ReleaseAllocationsKeeps ==
    ASSUME IInv, NEW r \in Requests, ReleaseAllocations(r)
    PROVE  IInv'
  <1> DEFINE j == [req[r] EXCEPT !.freed = AllocationRows(req[r].doc), !.at = "settling"]
  <1>1. TypeOK /\ req[r] \in Job /\ JobStands(req[r], lock["JOURNAL"] = r)
    BY DEF IInv, ReceiptsStand, TypeOK, JobsStand
  <1>2. req' = [req EXCEPT ![r] = j] /\ UNCHANGED Books /\ OthersHold(r) /\ UNCHANGED lock
    BY <1>1, KeptKeeps DEF ReleaseAllocations, KeepsBooks, Books, TypeOK
  <1>3. AllocationRows(req[r].doc) \in SUBSET Nat
    BY DEF AllocationRows, Receipts
  <1>4. j \in Job
    BY <1>1, <1>3 DEF Job, Steps
  <1>5. req[r].op = "VOID_SALE" /\ lock["JOURNAL"] = r /\ Accepted(req[r])
    BY <1>1, JobFields DEF JobStands, PastEntry, ReleaseAllocations
  <1>6. JobStands(j, TRUE)
    BY <1>1, <1>5 DEF JobStands, PastEntry, Accepted, ReleaseAllocations, Job
  <1> HIDE DEF j
  <1> QED
    BY <1>2, <1>4, <1>5, <1>6, MovesOnHolding

LEMMA LockVoidedSaleKeeps ==
    ASSUME IInv, NEW r \in Requests, LockVoidedSale(r)
    PROVE  IInv'
  <1> DEFINE j == [req[r] EXCEPT !.at = "writing"]
  <1>1. TypeOK /\ req[r] \in Job /\ JobStands(req[r], lock["JOURNAL"] = r)
    BY DEF IInv, ReceiptsStand, TypeOK, JobsStand
  <1>2. req' = [req EXCEPT ![r] = j] /\ UNCHANGED Books
    BY <1>1 DEF LockVoidedSale, KeepsBooks, Books, TypeOK
  <1>3. req[r].doc \in Sales /\ lock["JOURNAL"] = r /\ Accepted(req[r]) /\ req[r].op = "VOID_SALE"
    BY <1>1 DEF JobStands, PastEntry, LockVoidedSale
  <1>4. OthersHold(r) /\ lock'["JOURNAL"] = r
    <2>1. req[r].doc \in Rows
      BY <1>3 DEF Rows
    <2>2. lock' = [lock EXCEPT ![req[r].doc] = r]
      BY DEF LockVoidedSale, Take
    <2> QED
      BY <1>1, <1>3, <2>1, <2>2, TakeKeeps DEF LockVoidedSale, TypeOK, Rows
  <1>5. j \in Job
    BY <1>1 DEF Job, Steps
  <1>6. JobStands(j, TRUE)
    BY <1>1, <1>3 DEF JobStands, PastEntry, Accepted, Job
  <1> HIDE DEF j
  <1> QED
    BY <1>2, <1>4, <1>5, <1>6, MovesOnHolding

LEMMA RollBackKeeps ==
    ASSUME IInv, NEW r \in Requests, RollBack(r)
    PROVE  IInv'
  <1>1. req' = [req EXCEPT ![r] = NoJob] /\ UNCHANGED Books /\ OthersHold(r)
    BY ReleasedKeeps DEF RollBack, KeepsBooks, Books, IInv, ReceiptsStand
  <1>2. \A h \in BOOLEAN : JobStands(NoJob, h)
    BY NoJobType DEF JobStands, PastEntry
  <1> QED
    BY <1>1, <1>2, NoJobType, MovesOn

---------------------------------------------------------------------------
(* The commit: the sums the control account is compared with. *)

ChargedTotal  == SumFunctionOnSet([s \in Sales |-> Charged(s)], Sales)
ReceivedTotal == SumFunctionOnSet([i \in Receipts |-> Received(i)], Receipts)

LEMMA FiguresAre ==
    ASSUME TypeOK
    PROVE  /\ \A s \in Sales : Charged(s) \in Int
           /\ \A i \in Receipts : Received(i) \in Nat
           /\ IsFiniteSet(Receipts) /\ Len(receipts) \in Nat
           /\ ChargedTotal \in Int /\ ReceivedTotal \in Int
  <1>1. \A s \in Sales : Charged(s) \in Int
    BY SaleFields, SizesAssumption DEF Charged
  <1>2. \A i \in Receipts : Received(i) \in Nat
    BY ReceiptFields DEF Received
  <1>3. Len(receipts) \in Nat
    BY DEF TypeOK
  <1>4. IsFiniteSet(Receipts)
    BY <1>3, FS_Interval DEF Receipts
  <1>5. ChargedTotal \in Int
    <2> DEFINE f == [s \in Sales |-> Charged(s)]
    <2>1. \A s \in Sales : f[s] \in Int
      BY <1>1
    <2> HIDE DEF f
    <2>2. SumFunctionOnSet(f, Sales) \in Int
      BY <2>1, FiniteAssumption, SumInt
    <2> QED
      BY <2>2 DEF f, ChargedTotal
  <1>6. ReceivedTotal \in Int
    <2> DEFINE f == [i \in Receipts |-> Received(i)]
    <2>1. \A i \in Receipts : f[i] \in Int
      BY <1>2
    <2> HIDE DEF f
    <2>2. SumFunctionOnSet(f, Receipts) \in Int
      BY <2>1, <1>4, SumInt
    <2> QED
      BY <2>2 DEF f, ReceivedTotal
  <1> QED
    BY <1>1, <1>2, <1>3, <1>4, <1>5, <1>6

\* One invoice charged otherwise than before.
LEMMA ChargedMoves ==
    ASSUME TypeOK, NEW s \in Sales, NEW d \in Int, Charged(s)' = Charged(s) + d,
           \A t \in Sales \ {s} : Charged(t)' = Charged(t)
    PROVE  ChargedTotal' = ChargedTotal + d
  <1> DEFINE f == [t \in Sales |-> Charged(t)]
             g == [t \in Sales |-> Charged(t)']
  <1>1. /\ \A t \in Sales : f[t] \in Int
        /\ \A t \in Sales \ {s} : g[t] = f[t]
        /\ g[s] \in Int /\ g[s] = f[s] + d
    BY FiguresAre
  <1>2. ChargedTotal' = SumFunctionOnSet(g, Sales) /\ ChargedTotal = SumFunctionOnSet(f, Sales)
    BY DEF ChargedTotal
  <1> HIDE DEF f, g
  <1>3. SumFunctionOnSet(g, Sales) = SumFunctionOnSet(f, Sales) - f[s] + g[s]
    BY <1>1, FiniteAssumption, SumChanges
  <1>4. SumFunctionOnSet(f, Sales) \in Int
    BY <1>1, FiniteAssumption, SumInt
  <1> QED
    BY <1>1, <1>2, <1>3, <1>4

\* One receipt counted otherwise than before.
LEMMA ReceivedMoves ==
    ASSUME TypeOK, NEW i \in Receipts, NEW d \in Int, Receipts' = Receipts,
           Received(i)' = Received(i) + d,
           \A k \in Receipts \ {i} : Received(k)' = Received(k)
    PROVE  ReceivedTotal' = ReceivedTotal + d
  <1> DEFINE f == [k \in Receipts |-> Received(k)]
             g == [k \in Receipts |-> Received(k)']
  <1>1. /\ \A k \in Receipts : f[k] \in Int
        /\ \A k \in Receipts \ {i} : g[k] = f[k]
        /\ g[i] \in Int /\ g[i] = f[i] + d /\ IsFiniteSet(Receipts)
    BY FiguresAre
  <1>2. /\ ReceivedTotal' = SumFunctionOnSet(g, Receipts)
        /\ ReceivedTotal = SumFunctionOnSet(f, Receipts)
    BY DEF ReceivedTotal
  <1> HIDE DEF f, g
  <1>3. SumFunctionOnSet(g, Receipts) = SumFunctionOnSet(f, Receipts) - f[i] + g[i]
    BY <1>1, SumChanges
  <1>4. SumFunctionOnSet(f, Receipts) \in Int
    BY <1>1, SumInt
  <1> QED
    BY <1>1, <1>2, <1>3, <1>4

\* One receipt more.
LEMMA ReceivedGrows ==
    ASSUME TypeOK, NEW n \in Nat, n = Len(receipts) + 1, NEW d \in Int,
           Receipts' = Receipts \union {n}, Received(n)' = d,
           \A k \in Receipts : Received(k)' = Received(k)
    PROVE  ReceivedTotal' = ReceivedTotal + d
  <1> DEFINE f == [k \in Receipts |-> Received(k)]
             g == [k \in Receipts \union {n} |-> Received(k)']
  <1>1. /\ \A k \in Receipts : f[k] \in Int /\ g[k] = f[k]
        /\ g[n] \in Int /\ g[n] = d /\ IsFiniteSet(Receipts)
    BY FiguresAre
  <1>2. /\ ReceivedTotal' = SumFunctionOnSet(g, Receipts \union {n})
        /\ ReceivedTotal = SumFunctionOnSet(f, Receipts)
    BY DEF ReceivedTotal
  <1>3. n \notin Receipts
    BY FiguresAre DEF Receipts
  <1> HIDE DEF f, g
  <1>4. SumFunctionOnSet(g, Receipts \union {n}) = SumFunctionOnSet(f, Receipts) + g[n]
    BY <1>1, <1>3, SumGrows
  <1> QED
    BY <1>1, <1>2, <1>4

---------------------------------------------------------------------------
(* The commit of each document. *)

\* The request that commits is the one past its entry.
LEMMA CommitFinds ==
    ASSUME IInv, NEW r \in Requests, Commit(r)
    PROVE  /\ TypeOK /\ req[r] \in Job /\ req[r].at = "writing" /\ req[r].op # "NONE"
           /\ JobStands(req[r], TRUE) /\ Accepted(req[r])
           /\ req'[r] = NoJob /\ \A u \in Requests \ {r} : req'[u] = req[u]
           /\ req' \in [Requests -> Job] /\ OthersHold(r)
           /\ \A u \in Requests \ {r} : ~ PastEntry(req[u])
  <1>1. /\ TypeOK /\ req[r] \in Job /\ req[r].at = "writing"
        /\ JobStands(req[r], lock["JOURNAL"] = r)
    BY DEF IInv, ReceiptsStand, TypeOK, JobsStand, Commit
  <1>2. lock["JOURNAL"] = r /\ Accepted(req[r]) /\ req[r].op # "NONE"
    BY <1>1 DEF JobStands, PastEntry
  <1>3. \A u \in Requests \ {r} : ~ PastEntry(req[u])
    BY <1>2 DEF IInv, JobsStand, JobStands
  <1>4. /\ req'[r] = NoJob /\ \A u \in Requests \ {r} : req'[u] = req[u]
        /\ req' \in [Requests -> Job]
    BY <1>1, NoJobType DEF Commit, TypeOK
  <1>5. OthersHold(r)
    BY <1>1, ReleasedKeeps DEF Commit
  <1>6. JobStands(req[r], TRUE)
    BY <1>1, <1>2 DEF JobStands
  <1> QED
    BY <1>1, <1>2, <1>3, <1>4, <1>5, <1>6

\* The others may go on: their receipts are where they were.
LEMMA CommitKeepsJobs ==
    ASSUME IInv, NEW r \in Requests, Commit(r), Receipts \subseteq Receipts',
           \A i \in Receipts : receipts'[i].amount = receipts[i].amount
    PROVE  JobsStand'
  <1> SUFFICES ASSUME NEW u \in Requests PROVE JobStands(req[u], lock["JOURNAL"] = u)'
    BY DEF JobsStand
  <1>1. PICK k, h : k = req'[u] /\ h = (lock'["JOURNAL"] = u)
    OBVIOUS
  <1>2. CASE u = r
    <2>1. k = NoJob
      BY <1>1, <1>2, CommitFinds
    <2>2. JobStands(k, h)'
      BY <2>1, NoJobType DEF JobStands, PastEntry
    <2> QED
      BY <1>1, <2>2 DEF JobStands, PastEntry, Accepted
  <1>3. CASE u # r
    <2>1. k = req[u] /\ ~ PastEntry(k)
      BY <1>1, <1>3, CommitFinds
    <2>2. JobStands(k, lock["JOURNAL"] = u)
      BY <2>1 DEF IInv, JobsStand
    <2>3. JobStands(k, h)'
      BY <2>1, <2>2 DEF JobStands, PastEntry, Spread
    <2> QED
      BY <1>1, <2>3 DEF JobStands, PastEntry, Accepted
  <1> QED
    BY <1>2, <1>3

\* What a commit must leave for the invariant to stand.
LEMMA CommitLeaves ==
    ASSUME IInv, NEW r \in Requests, Commit(r), Receipts \subseteq Receipts',
           \A i \in Receipts : receipts'[i].amount = receipts[i].amount,
           sale' \in [Sales -> Sale], receipts' \in Seq(Receipt), control' \in Int,
           control' = ChargedTotal' - ReceivedTotal',
           ReceiptsCoverAllocations'
    PROVE  IInv'
  <1>1. TypeOK'
    BY CommitFinds DEF TypeOK, OthersHold
  <1>2. ControlAccountAgrees'
    BY DEF ControlAccountAgrees, ChargedTotal, ReceivedTotal
  <1>3. JobsStand'
    BY CommitKeepsJobs
  <1> QED
    BY <1>1, <1>2, <1>3 DEF IInv, ReceiptsStand

\* What createReceipt and voidReceipt write on the invoices changes what is
\* paid and nothing else.
LEMMA WithPaidIs ==
    ASSUME TypeOK, NEW r \in Requests, sale' = WithPaid(r)
    PROVE  /\ sale' \in [Sales -> Sale] /\ ChargedTotal' = ChargedTotal
           /\ \A s \in Sales :
                /\ sale'[s].status = sale[s].status /\ sale'[s].credited = sale[s].credited
                /\ sale'[s].returned = sale[s].returned
                /\ sale'[s].goodsBack = sale[s].goodsBack
                /\ sale'[s].paid = IF req[r].alloc[s] > 0 THEN req[r].paid[s] ELSE sale[s].paid
  <1>1. req[r].paid \in [Sales -> 0 .. Total]
    BY JobFields DEF TypeOK
  <1>2. ASSUME NEW s \in Sales
        PROVE  /\ sale'[s] \in Sale /\ sale'[s].status = sale[s].status
               /\ sale'[s].credited = sale[s].credited
               /\ sale'[s].returned = sale[s].returned
               /\ sale'[s].goodsBack = sale[s].goodsBack
               /\ sale'[s].paid = IF req[r].alloc[s] > 0 THEN req[r].paid[s] ELSE sale[s].paid
    <2>1. sale[s] \in Sale /\ req[r].paid[s] \in 0 .. Total
      BY <1>1, SaleFields
    <2>2. sale'[s] = IF req[r].alloc[s] > 0 THEN [sale[s] EXCEPT !.paid = req[r].paid[s]]
                                            ELSE sale[s]
      BY DEF WithPaid
    <2> QED
      BY <2>1, <2>2 DEF Sale
  <1>3. sale' \in [Sales -> Sale]
    BY <1>2 DEF WithPaid
  <1>4. \A s \in Sales : Charged(s)' = Charged(s)
    BY <1>2 DEF Charged
  <1>5. ChargedTotal' = ChargedTotal
    BY <1>4 DEF ChargedTotal
  <1> QED
    BY <1>2, <1>3, <1>5

LEMMA SpreadIs ==
    ASSUME NEW alloc \in [Sales -> 0 .. Total]
    PROVE  Spread(alloc) \in Nat
  <1>1. \A s \in Sales : alloc[s] \in Nat
    BY SizesAssumption
  <1> QED
    BY <1>1, FiniteAssumption, SumOfNaturals DEF Spread

\* createReceipt: one more receipt, spread over no more than it is for.
LEMMA CommitReceiptIs ==
    ASSUME IInv, NEW r \in Requests, Commit(r), req[r].op = "RECEIVE",
           NEW n \in Nat, n = Len(receipts) + 1
    PROVE  /\ sale' = WithPaid(r) /\ control' = control - req[r].amount
           /\ receipts' \in Seq(Receipt) /\ Receipts' = Receipts \union {n}
           /\ n \notin Receipts /\ \A i \in Receipts : receipts'[i] = receipts[i]
           /\ receipts'[n].status = "POSTED" /\ receipts'[n].amount = req[r].amount
           /\ receipts'[n].alloc = req[r].alloc
  <1> DEFINE row == [status |-> "POSTED", amount |-> req[r].amount, alloc |-> req[r].alloc]
  <1>1. /\ receipts' = Append(receipts, row) /\ sale' = WithPaid(r)
        /\ control' = control - req[r].amount
    BY DEF Commit, CommitReceipt
  <1>2. receipts \in Seq(Receipt) /\ req[r].amount \in Amounts
        /\ req[r].alloc \in [Sales -> 0 .. Total]
    BY CommitFinds, JobFields DEF TypeOK, JobStands
  <1>3. row \in Receipt
    BY <1>2 DEF Receipt
  <1>4. row.status = "POSTED" /\ row.amount = req[r].amount /\ row.alloc = req[r].alloc
    OBVIOUS
  <1> HIDE DEF row
  <1>5. /\ receipts' \in Seq(Receipt) /\ Len(receipts') = n /\ receipts'[n] = row
        /\ \A i \in 1 .. Len(receipts) : receipts'[i] = receipts[i]
    BY <1>1, <1>2, <1>3, AppendProperties
  <1>6. Receipts' = Receipts \union {n} /\ n \notin Receipts
    BY <1>5 DEF Receipts
  <1> QED
    BY <1>1, <1>4, <1>5, <1>6 DEF Receipts

LEMMA CommitReceiptKeeps ==
    ASSUME IInv, NEW r \in Requests, Commit(r), req[r].op = "RECEIVE"
    PROVE  IInv'
  <1>1. TypeOK /\ req[r] \in Job /\ JobStands(req[r], TRUE)
    BY CommitFinds
  <1>2. PICK n \in Nat : n = Len(receipts) + 1
    BY <1>1, FiguresAre
  <1>3. PICK amount, alloc : amount = req[r].amount /\ alloc = req[r].alloc
    OBVIOUS
  <1>4. /\ sale' = WithPaid(r) /\ control' = control - amount
        /\ receipts' \in Seq(Receipt) /\ Receipts' = Receipts \union {n}
        /\ n \notin Receipts /\ \A i \in Receipts : receipts'[i] = receipts[i]
        /\ receipts'[n].status = "POSTED" /\ receipts'[n].amount = amount
        /\ receipts'[n].alloc = alloc
    BY <1>2, <1>3, CommitReceiptIs
  <1>5. amount \in Nat /\ alloc \in [Sales -> 0 .. Total] /\ Spread(alloc) <= amount
    BY <1>1, <1>3, JobFields DEF JobStands
  <1>6. sale' \in [Sales -> Sale] /\ ChargedTotal' = ChargedTotal
    BY <1>1, <1>4, WithPaidIs
  <1>7. Received(n)' = amount /\ \A i \in Receipts : Received(i)' = Received(i)
    BY <1>4 DEF Received
  <1>8. ReceivedTotal' = ReceivedTotal + amount
    BY <1>1, <1>2, <1>4, <1>5, <1>7, ReceivedGrows
  <1>9. control' = ChargedTotal' - ReceivedTotal' /\ control' \in Int
    <2>1. control = ChargedTotal - ReceivedTotal /\ control \in Int
      BY <1>1 DEF IInv, ControlAccountAgrees, ChargedTotal, ReceivedTotal, TypeOK
    <2>2. ChargedTotal \in Int /\ ReceivedTotal \in Int
      BY <1>1, FiguresAre
    <2> QED
      BY <1>4, <1>5, <1>6, <1>8, <2>1, <2>2
  <1>10. ReceiptsCoverAllocations'
    <2>1. \A i \in Receipts : Spread(receipts[i].alloc) <= Received(i)
      BY DEF IInv, ReceiptsStand, ReceiptsCoverAllocations
    <2>2. \A i \in Receipts : Spread(receipts'[i].alloc) <= Received(i)'
      BY <1>4, <1>7, <2>1
    <2>3. Spread(receipts'[n].alloc) <= Received(n)'
      BY <1>4, <1>5, <1>7
    <2> QED
      BY <1>4, <2>2, <2>3 DEF ReceiptsCoverAllocations, Spread
  <1>11. Receipts \subseteq Receipts' /\ \A i \in Receipts : receipts'[i].amount = receipts[i].amount
    BY <1>4
  <1> QED
    BY <1>4, <1>6, <1>9, <1>10, <1>11, CommitLeaves

\* voidReceipt: the receipt stays on record, voided and spread over nothing.
LEMMA CommitVoidReceiptIs ==
    ASSUME IInv, NEW r \in Requests, Commit(r), req[r].op = "VOID_RECEIPT"
    PROVE  /\ sale' = WithPaid(r) /\ control' = control + req[r].amount
           /\ receipts' \in Seq(Receipt) /\ Receipts' = Receipts
           /\ req[r].receipt \in Receipts /\ receipts[req[r].receipt].status = "POSTED"
           /\ req[r].amount = receipts[req[r].receipt].amount
           /\ \A i \in Receipts \ {req[r].receipt} : receipts'[i] = receipts[i]
           /\ receipts'[req[r].receipt].status = "VOIDED"
           /\ receipts'[req[r].receipt].amount = req[r].amount
           /\ receipts'[req[r].receipt].alloc = NoAllocation
  <1>1. PICK k : k = req[r].receipt
    OBVIOUS
  <1>2. /\ k \in Receipts /\ receipts[k].status = "POSTED" /\ req[r].amount = receipts[k].amount
        /\ TypeOK
    BY <1>1, CommitFinds DEF JobStands, Accepted
  <1> DEFINE row == [receipts[k] EXCEPT !.status = "VOIDED", !.alloc = NoAllocation]
  <1>3. receipts[k] \in Receipt /\ receipts \in Seq(Receipt)
    BY <1>2, ReceiptFields DEF TypeOK
  <1>4. row \in Receipt /\ row.status = "VOIDED" /\ row.amount = receipts[k].amount
        /\ row.alloc = NoAllocation
    BY <1>3, VoidedReceiptRow
  <1>5. receipts' = [receipts EXCEPT ![k] = row]
    BY <1>1, <1>2, <1>3 DEF Commit, CommitVoidReceipt, WithoutReceipt, Receipts
  <1> HIDE DEF row
  <1>6. k \in 1 .. Len(receipts)
    BY <1>2 DEF Receipts
  <1>7. /\ receipts' \in Seq(Receipt) /\ Len(receipts') = Len(receipts) /\ receipts'[k] = row
        /\ \A i \in 1 .. Len(receipts) : i # k => receipts'[i] = receipts[i]
    BY <1>3, <1>4, <1>5, <1>6, ExceptSeq
  <1>8. sale' = WithPaid(r) /\ control' = control + req[r].amount
    BY DEF Commit, CommitVoidReceipt
  <1> QED
    BY <1>1, <1>2, <1>4, <1>7, <1>8 DEF Receipts

LEMMA CommitVoidReceiptKeeps ==
    ASSUME IInv, NEW r \in Requests, Commit(r), req[r].op = "VOID_RECEIPT"
    PROVE  IInv'
  <1>1. TypeOK /\ req[r] \in Job
    BY CommitFinds
  <1>2. PICK k, amount : k = req[r].receipt /\ amount = req[r].amount
    OBVIOUS
  <1>3. /\ sale' = WithPaid(r) /\ control' = control + amount
        /\ receipts' \in Seq(Receipt) /\ Receipts' = Receipts
        /\ k \in Receipts /\ receipts[k].status = "POSTED" /\ amount = receipts[k].amount
        /\ \A i \in Receipts \ {k} : receipts'[i] = receipts[i]
        /\ receipts'[k].status = "VOIDED" /\ receipts'[k].amount = amount
        /\ receipts'[k].alloc = NoAllocation
    BY <1>2, CommitVoidReceiptIs
  <1>4. amount \in Nat
    BY <1>1, <1>2, JobFields
  <1>5. sale' \in [Sales -> Sale] /\ ChargedTotal' = ChargedTotal
    BY <1>1, <1>3, WithPaidIs
  <1>6. /\ Received(k)' = 0 /\ Received(k) = amount
        /\ \A i \in Receipts \ {k} : Received(i)' = Received(i)
    BY <1>3 DEF Received
  <1>7. ReceivedTotal' = ReceivedTotal + (- amount)
    <2>1. - amount \in Int /\ Received(k)' = Received(k) + (- amount)
      BY <1>4, <1>6
    <2> QED
      BY <1>1, <1>3, <1>6, <2>1, ReceivedMoves
  <1>8. control' = ChargedTotal' - ReceivedTotal' /\ control' \in Int
    <2>1. control = ChargedTotal - ReceivedTotal /\ control \in Int
      BY <1>1 DEF IInv, ControlAccountAgrees, ChargedTotal, ReceivedTotal, TypeOK
    <2>2. ChargedTotal \in Int /\ ReceivedTotal \in Int
      BY <1>1, FiguresAre
    <2>3. control' = control + amount /\ ReceivedTotal' = ReceivedTotal - amount
      BY <1>3, <1>4, <1>7, <2>2
    <2> QED
      BY <1>4, <1>5, <2>1, <2>2, <2>3
  <1>9. ReceiptsCoverAllocations'
    <2>1. \A i \in Receipts : Spread(receipts[i].alloc) <= Received(i)
      BY DEF IInv, ReceiptsStand, ReceiptsCoverAllocations
    <2>2. \A i \in Receipts \ {k} : Spread(receipts'[i].alloc) <= Received(i)'
      BY <1>3, <1>6, <2>1
    <2>3. Spread(NoAllocation) = 0
      BY FiniteAssumption, SumOfNils DEF Spread, NoAllocation
    <2>4. Spread(receipts'[k].alloc) <= Received(k)'
      BY <1>3, <1>6, <2>3
    <2> QED
      BY <1>3, <2>2, <2>4 DEF ReceiptsCoverAllocations, Spread
  <1>10. Receipts \subseteq Receipts' /\ \A i \in Receipts : receipts'[i].amount = receipts[i].amount
    BY <1>3
  <1> QED
    BY <1>3, <1>5, <1>8, <1>9, <1>10, CommitLeaves

\* voidSale: the invoice goes, and what was allocated to it goes with it.
LEMMA CommitVoidSaleIs ==
    ASSUME IInv, NEW r \in Requests, Commit(r), req[r].op = "VOID_SALE"
    PROVE  LET s == req[r].doc IN
           /\ s \in Sales /\ sale[s].status = "POSTED" /\ control' = control - Total
           /\ sale' \in [Sales -> Sale] /\ \A t \in Sales \ {s} : sale'[t] = sale[t]
           /\ sale'[s].status = "VOIDED" /\ sale'[s].paid = 0
           /\ sale'[s].credited = sale[s].credited /\ sale'[s].returned = sale[s].returned
           /\ sale'[s].goodsBack = sale[s].goodsBack + Total
           /\ receipts' \in Seq(Receipt) /\ Receipts' = Receipts
           /\ \A i \in Receipts :
                /\ receipts'[i].status = receipts[i].status
                /\ receipts'[i].amount = receipts[i].amount
                /\ receipts'[i].alloc = IF i \in req[r].freed
                                        THEN [receipts[i].alloc EXCEPT ![s] = 0]
                                        ELSE receipts[i].alloc
  <1>1. PICK s : s = req[r].doc
    OBVIOUS
  <1>2. s \in Sales /\ sale[s].status = "POSTED" /\ req[r].amount = Total /\ TypeOK
    BY <1>1, CommitFinds DEF JobStands, Accepted
  <1>3. sale[s] \in Sale /\ Total \in Nat /\ sale[s].goodsBack \in Nat /\ sale \in [Sales -> Sale]
    BY <1>2, SaleFields, SizesAssumption DEF TypeOK
  <1>4. sale' = [sale EXCEPT ![s] = [sale[s] EXCEPT !.status = "VOIDED", !.paid = 0,
                                                   !.goodsBack = sale[s].goodsBack + Total]]
    BY <1>1, <1>2, <1>3 DEF Commit, CommitVoidSale, VoidedSale, Sale
  <1> DEFINE row == [sale[s] EXCEPT !.status = "VOIDED", !.paid = 0,
                                    !.goodsBack = sale[s].goodsBack + Total]
  <1>5. /\ row \in Sale /\ row.status = "VOIDED" /\ row.paid = 0
        /\ row.credited = sale[s].credited /\ row.returned = sale[s].returned
        /\ row.goodsBack = sale[s].goodsBack + Total
    <2>1. PICK x, g : x = sale[s] /\ g = sale[s].goodsBack + Total
      OBVIOUS
    <2>2. x \in Sale /\ g \in Nat /\ row = [x EXCEPT !.status = "VOIDED", !.paid = 0, !.goodsBack = g]
      BY <1>3, <2>1
    <2> QED
      BY <2>1, <2>2, VoidedSaleRow
  <1> HIDE DEF row
  <1>6. /\ sale' \in [Sales -> Sale] /\ sale'[s] = row
        /\ \A t \in Sales \ {s} : sale'[t] = sale[t]
    BY <1>2, <1>3, <1>4, <1>5 DEF row
  <1>7. PICK freed : freed = req[r].freed
    OBVIOUS
  <1>8. receipts' = [i \in Receipts |-> IF i \in freed THEN [receipts[i] EXCEPT !.alloc[s] = 0]
                                        ELSE receipts[i]]
    BY <1>1, <1>7 DEF Commit, CommitVoidSale
  <1>9. ASSUME NEW i \in Receipts
        PROVE  /\ receipts'[i] \in Receipt
               /\ receipts'[i].status = receipts[i].status
               /\ receipts'[i].amount = receipts[i].amount
               /\ receipts'[i].alloc = IF i \in freed THEN [receipts[i].alloc EXCEPT ![s] = 0]
                                       ELSE receipts[i].alloc
    <2>1. receipts[i] \in Receipt /\ receipts[i].alloc \in [Sales -> 0 .. Total]
      BY <1>2, ReceiptFields
    <2>2. CASE i \in freed
      <3>1. receipts'[i] = [receipts[i] EXCEPT !.alloc[s] = 0]
        BY <1>8, <2>2
      <3> QED
        BY <1>2, <2>1, <2>2, <3>1, FreedReceiptRow
    <2>3. CASE i \notin freed
      BY <1>8, <2>1, <2>3
    <2> QED
      BY <2>2, <2>3
  <1>10. receipts' \in Seq(Receipt) /\ Receipts' = Receipts
    <2>1. PICK n \in Nat : n = Len(receipts)
      BY <1>2 DEF TypeOK
    <2>2. receipts' \in [1 .. n -> Receipt]
      BY <1>8, <1>9, <2>1 DEF Receipts
    <2>3. receipts' \in Seq(Receipt)
      BY <2>1, <2>2, SeqDef
    <2>4. Len(receipts') = n
      BY <2>1, <2>2, <2>3, LenProperties
    <2> QED
      BY <2>1, <2>3, <2>4 DEF Receipts
  <1>11. control' = control - Total
    BY <1>2 DEF Commit, CommitVoidSale
  <1> QED
    BY <1>1, <1>2, <1>5, <1>6, <1>7, <1>9, <1>10, <1>11

LEMMA CommitVoidSaleKeeps ==
    ASSUME IInv, NEW r \in Requests, Commit(r), req[r].op = "VOID_SALE"
    PROVE  IInv'
  <1>1. TypeOK /\ Total \in Nat
    BY CommitFinds, SizesAssumption
  <1>2. PICK s, freed : s = req[r].doc /\ freed = req[r].freed
    OBVIOUS
  <1>3. /\ s \in Sales /\ sale[s].status = "POSTED" /\ control' = control - Total
        /\ sale' \in [Sales -> Sale] /\ \A t \in Sales \ {s} : sale'[t] = sale[t]
        /\ sale'[s].status = "VOIDED" /\ sale'[s].credited = sale[s].credited
        /\ receipts' \in Seq(Receipt) /\ Receipts' = Receipts
        /\ \A i \in Receipts :
             /\ receipts'[i].status = receipts[i].status
             /\ receipts'[i].amount = receipts[i].amount
             /\ receipts'[i].alloc = IF i \in freed
                                     THEN [receipts[i].alloc EXCEPT ![s] = 0]
                                     ELSE receipts[i].alloc
    BY <1>2, CommitVoidSaleIs
  <1>4. \A i \in Receipts : Received(i)' = Received(i)
    BY <1>3 DEF Received
  <1>5. ReceivedTotal' = ReceivedTotal
    BY <1>3, <1>4 DEF ReceivedTotal
  <1>6. ChargedTotal' = ChargedTotal + (- Total)
    <2>1. - Total \in Int /\ Charged(s)' = Charged(s) + (- Total)
      BY <1>1, <1>3, SaleFields DEF Charged
    <2>2. \A t \in Sales \ {s} : Charged(t)' = Charged(t)
      BY <1>3 DEF Charged
    <2> QED
      BY <1>1, <1>3, <2>1, <2>2, ChargedMoves
  <1>7. control' = ChargedTotal' - ReceivedTotal' /\ control' \in Int
    <2>1. control = ChargedTotal - ReceivedTotal /\ control \in Int
      BY <1>1 DEF IInv, ControlAccountAgrees, ChargedTotal, ReceivedTotal, TypeOK
    <2>2. ChargedTotal \in Int /\ ReceivedTotal \in Int
      BY <1>1, FiguresAre
    <2> QED
      BY <1>1, <1>3, <1>5, <1>6, <2>1, <2>2
  <1>8. ASSUME NEW i \in Receipts PROVE Spread(receipts'[i].alloc) <= Received(i)'
    <2>1. PICK old, new : old = receipts[i].alloc /\ new = receipts'[i].alloc
      OBVIOUS
    <2>2. /\ old \in [Sales -> 0 .. Total]
          /\ new = IF i \in freed THEN [old EXCEPT ![s] = 0] ELSE old
      BY <1>1, <1>3, <2>1, ReceiptFields
    <2>3. \A t \in Sales : new[t] \in Int /\ old[t] \in Int /\ new[t] <= old[t]
      BY <1>1, <1>3, <2>2
    <2>4. Spread(new) <= Spread(old)
      BY <2>3, FiniteAssumption, SumAtMost DEF Spread
    <2>5. Spread(old) <= Received(i) /\ Received(i)' = Received(i)
      BY <1>4, <2>1 DEF IInv, ReceiptsStand, ReceiptsCoverAllocations
    <2>6. Spread(new) \in Int /\ Spread(old) \in Int /\ Received(i) \in Int
      <3>1. Spread(new) \in Int /\ Spread(old) \in Int
        BY <2>3, FiniteAssumption, SumInt DEF Spread
      <3> QED
        BY <1>1, <3>1, FiguresAre
    <2> QED
      BY <2>1, <2>4, <2>5, <2>6
  <1>9. ReceiptsCoverAllocations'
    BY <1>3, <1>8 DEF ReceiptsCoverAllocations, Spread
  <1>10. Receipts \subseteq Receipts' /\ \A i \in Receipts : receipts'[i].amount = receipts[i].amount
    BY <1>3
  <1> QED
    BY <1>3, <1>7, <1>9, <1>10, CommitLeaves

\* createSalesReturn: goods back, and a credit note where it is on account.
LEMMA CommitReturnIs ==
    ASSUME IInv, NEW r \in Requests, Commit(r), req[r].op = "RETURN",
           NEW credit, credit = (IF req[r].onAccount THEN req[r].amount ELSE 0)
    PROVE  LET s == req[r].doc IN
           /\ s \in Sales /\ control' = control - credit /\ UNCHANGED receipts
           /\ credit \in Nat /\ req[r].amount \in Nat
           /\ sale' \in [Sales -> Sale] /\ \A t \in Sales \ {s} : sale'[t] = sale[t]
           /\ sale'[s].status = sale[s].status /\ sale'[s].paid = sale[s].paid
           /\ sale'[s].credited = sale[s].credited + credit
           /\ sale'[s].returned = sale[s].returned + req[r].amount
           /\ sale'[s].goodsBack = sale[s].goodsBack + req[r].amount
  <1>1. PICK s, qty : s = req[r].doc /\ qty = req[r].amount
    OBVIOUS
  <1>2. s \in Sales /\ qty \in Nat /\ TypeOK /\ req[r].onAccount \in BOOLEAN
    BY <1>1, CommitFinds, JobFields DEF JobStands
  <1>3. /\ sale[s] \in Sale /\ sale \in [Sales -> Sale] /\ credit \in Nat
        /\ sale[s].goodsBack \in Nat /\ sale[s].credited \in Nat /\ sale[s].returned \in Nat
    BY <1>1, <1>2, SaleFields DEF TypeOK
  <1> DEFINE row == [sale[s] EXCEPT !.returned = sale[s].returned + qty,
                                    !.goodsBack = sale[s].goodsBack + qty,
                                    !.credited = sale[s].credited + credit]
  <1>4. sale' = [sale EXCEPT ![s] = row]
    BY <1>1, <1>2, <1>3 DEF Commit, CommitReturn, Sale
  <1>5. /\ row \in Sale /\ row.status = sale[s].status /\ row.paid = sale[s].paid
        /\ row.credited = sale[s].credited + credit
        /\ row.returned = sale[s].returned + qty
        /\ row.goodsBack = sale[s].goodsBack + qty
    <2>1. PICK x, a, g, c : /\ x = sale[s] /\ a = sale[s].returned + qty
                           /\ g = sale[s].goodsBack + qty /\ c = sale[s].credited + credit
      OBVIOUS
    <2>2. /\ x \in Sale /\ a \in Nat /\ g \in Nat /\ c \in Nat
          /\ row = ReturnedOf(x, a, g, c)
      BY <1>2, <1>3, <2>1 DEF ReturnedOf
    <2> HIDE DEF row
    <2>3. IsReturned(row, x, a, g, c)
      BY <2>2, ReturnedSaleRow
    <2> QED
      BY <2>1, <2>3 DEF IsReturned
  <1> HIDE DEF row
  <1>6. /\ sale' \in [Sales -> Sale] /\ sale'[s] = row
        /\ \A t \in Sales \ {s} : sale'[t] = sale[t]
    BY <1>2, <1>3, <1>4, <1>5
  <1>7. control' = control - credit /\ UNCHANGED receipts
    BY <1>1 DEF Commit, CommitReturn
  <1> QED
    BY <1>1, <1>2, <1>3, <1>5, <1>6, <1>7

LEMMA CommitReturnKeeps ==
    ASSUME IInv, NEW r \in Requests, Commit(r), req[r].op = "RETURN"
    PROVE  IInv'
  <1>1. TypeOK
    BY CommitFinds
  <1>2. PICK s, credit : /\ s = req[r].doc
                         /\ credit = (IF req[r].onAccount THEN req[r].amount ELSE 0)
    OBVIOUS
  <1>3. /\ s \in Sales /\ control' = control - credit /\ UNCHANGED receipts
        /\ credit \in Nat
        /\ sale' \in [Sales -> Sale] /\ \A t \in Sales \ {s} : sale'[t] = sale[t]
        /\ sale'[s].status = sale[s].status
        /\ sale'[s].credited = sale[s].credited + credit
    BY <1>2, CommitReturnIs
  <1>4. Receipts' = Receipts /\ \A i \in Receipts : Received(i)' = Received(i)
    BY <1>3 DEF Receipts, Received
  <1>5. ReceivedTotal' = ReceivedTotal
    BY <1>4 DEF ReceivedTotal
  <1>6. ChargedTotal' = ChargedTotal + (- credit)
    <2>1. - credit \in Int /\ Charged(s)' = Charged(s) + (- credit)
      BY <1>1, <1>3, SaleFields, SizesAssumption DEF Charged
    <2>2. \A t \in Sales \ {s} : Charged(t)' = Charged(t)
      BY <1>3 DEF Charged
    <2> QED
      BY <1>1, <1>3, <2>1, <2>2, ChargedMoves
  <1>7. control' = ChargedTotal' - ReceivedTotal' /\ control' \in Int
    <2>1. control = ChargedTotal - ReceivedTotal /\ control \in Int
      BY <1>1 DEF IInv, ControlAccountAgrees, ChargedTotal, ReceivedTotal, TypeOK
    <2>2. ChargedTotal \in Int /\ ReceivedTotal \in Int
      BY <1>1, FiguresAre
    <2> QED
      BY <1>3, <1>5, <1>6, <2>1, <2>2
  <1>8. ReceiptsCoverAllocations'
    BY <1>3, <1>4 DEF IInv, ReceiptsStand, ReceiptsCoverAllocations, Spread
  <1>9. receipts' \in Seq(Receipt)
    BY <1>1, <1>3 DEF TypeOK
  <1>10. Receipts \subseteq Receipts' /\ \A i \in Receipts : receipts'[i].amount = receipts[i].amount
    BY <1>3, <1>4
  <1> QED
    BY <1>3, <1>7, <1>8, <1>9, <1>10, CommitLeaves

LEMMA CommitKeeps ==
    ASSUME IInv, NEW r \in Requests, Commit(r)
    PROVE  IInv'
  <1>1. req[r].op \in {"RECEIVE", "VOID_RECEIPT", "VOID_SALE", "RETURN"}
    BY CommitFinds, JobFields
  <1> QED
    BY <1>1, CommitReceiptKeeps, CommitVoidReceiptKeeps, CommitVoidSaleKeeps, CommitReturnKeeps

---------------------------------------------------------------------------
(* The theorems that need no more. *)

LEMMA Initially == Init => IInv
  <1> SUFFICES ASSUME Init PROVE IInv
    OBVIOUS
  <1>1. TypeOK
    <2>1. sale \in [Sales -> Sale]
      BY SizesAssumption DEF Init, Sale
    <2>2. receipts \in Seq(Receipt)
      BY DEF Init
    <2>3. Total * Cardinality(Sales) \in Int
      BY FiniteAssumption, SizesAssumption, FS_CardinalityType
    <2> QED
      BY <2>1, <2>2, <2>3, NoJobType DEF Init, TypeOK
  <1>2. Receipts = {}
    BY DEF Init, Receipts
  <1>3. ChargedTotal = Total * Cardinality(Sales)
    <2> DEFINE f == [s \in Sales |-> Charged(s)]
    <2>1. \A s \in Sales : f[s] = Total
      BY SizesAssumption DEF Init, Charged
    <2> HIDE DEF f
    <2>2. SumFunctionOnSet(f, Sales) = Total * Cardinality(Sales)
      BY <2>1, FiniteAssumption, SizesAssumption, SumOfSame
    <2> QED
      BY <2>2 DEF f, ChargedTotal
  <1>4. ReceivedTotal = 0
    BY <1>2, SumNone DEF ReceivedTotal
  <1>5. ControlAccountAgrees
    <2>1. Total * Cardinality(Sales) \in Int
      BY FiniteAssumption, SizesAssumption, FS_CardinalityType
    <2>2. control = ChargedTotal - ReceivedTotal
      BY <1>3, <1>4, <2>1 DEF Init
    <2> QED
      BY <2>2 DEF ControlAccountAgrees, ChargedTotal, ReceivedTotal
  <1>6. ReceiptsCoverAllocations
    BY <1>2 DEF ReceiptsCoverAllocations
  <1>7. JobsStand
    BY NoJobType DEF Init, JobsStand, JobStands, PastEntry
  <1> QED
    BY <1>1, <1>5, <1>6, <1>7 DEF IInv, ReceiptsStand

LEMMA Inductive == IInv /\ [Next]_vars => IInv'
  <1> SUFFICES ASSUME IInv, [Next]_vars PROVE IInv'
    OBVIOUS
  <1>1. ASSUME NEW r \in Requests, LockedStep(r) PROVE IInv'
    BY <1>1, AllocateVoucherKeeps, UpdatePaidKeeps, LockVoidedSaleKeeps, LockStockKeeps,
       PostEntryKeeps DEF LockedStep
  <1>2. ASSUME NEW r \in Requests, FreeStep(r) PROVE IInv'
    BY <1>2, ReadPaidKeeps, ReleaseAllocationsKeeps, CommitKeeps DEF FreeStep
  <1>3. CASE UNCHANGED vars
    <2>1. UNCHANGED Books
      BY <1>3 DEF vars, Books
    <2>2. TypeOK'
      BY <1>3 DEF IInv, ReceiptsStand, TypeOK, vars
    <2>3. JobsStand'
      BY <1>3 DEF IInv, JobsStand, JobStands, PastEntry, Accepted, Receipts, Spread, vars
    <2> QED
      BY <2>1, <2>2, <2>3, BooksKept DEF IInv, ReceiptsStand
  <1> QED
    BY <1>1, <1>2, <1>3, StartKeeps, RollBackKeeps DEF Next

LEMMA Always == Spec => []IInv
  BY Initially, Inductive, PTL DEF Spec

\* The accounts-receivable control account carries the invoices that stand,
\* less the receipts that stand and the credit notes, whatever any number of
\* requests do at once to any number of invoices: each of createReceipt,
\* voidReceipt, voidSale and createSalesReturn moves it in full and once.
THEOREM ControlAccount == Spec => []ControlAccountAgrees
  <1>1. IInv => ControlAccountAgrees
    BY DEF IInv
  <1> QED
    BY <1>1, Always, PTL

\* A voided receipt settles nothing and no receipt settles more than it is for
\* (validateAllocations, voidReceipt); and the paid amount of an invoice stays
\* within nil and its total (sales_paid_not_over_total), however requests meet.
THEOREM ReceiptsStanding == Spec => []ReceiptsStand
  <1>1. IInv => ReceiptsStand
    BY DEF IInv
  <1> QED
    BY <1>1, Always, PTL

---------------------------------------------------------------------------
(* One request after another: what the one in flight has read is still so.  *)

Alone == \A a, b \in Requests : req[a].at # "idle" /\ req[b].at # "idle" => a = b

SaleStands(s) ==
    /\ sale[s].returned <= Total
    /\ sale[s].status = "POSTED" => sale[s].goodsBack = sale[s].returned
    /\ sale[s].status = "VOIDED" => /\ sale[s].goodsBack <= Total /\ sale[s].paid = 0
                                    /\ \A i \in Receipts : receipts[i].alloc[s] = 0

Fresh(j) ==
    /\ j.op = "RECEIVE" =>
          /\ \A s \in PutOn(j.alloc) : sale[s].status = "POSTED" /\ j.alloc[s] <= Outstanding(s)
          /\ j.todo \subseteq PutOn(j.alloc) /\ (j.at \in {"journal", "writing"} => j.todo = {})
          /\ \A s \in PutOn(j.alloc) :
                j.paid[s] = IF s \in j.todo THEN sale[s].paid ELSE sale[s].paid + j.alloc[s]
    /\ j.op = "VOID_RECEIPT" =>
          /\ receipts[j.receipt].status = "POSTED" /\ j.alloc = receipts[j.receipt].alloc
          /\ j.todo \subseteq PutOn(j.alloc) /\ (j.at \in {"journal", "writing"} => j.todo = {})
          /\ \A s \in PutOn(j.alloc) \ j.todo : j.paid[s] = sale[s].paid - j.alloc[s]
          /\ j.at = "settling" => j.doc \in j.todo /\ j.paid[j.doc] = sale[j.doc].paid
    /\ j.op = "VOID_SALE" =>
          /\ VoidableSale(j.doc)
          /\ j.at \in {"settling", "writing"} => j.freed = AllocationRows(j.doc)
    /\ j.op = "RETURN" => Returnable(j.doc, j.amount)

InTurn ==
    /\ IInv /\ Alone
    /\ PaidMatchesAllocations /\ \A s \in Sales : SaleStands(s)
    /\ \A r \in Requests : Fresh(req[r])

LEMMA IdleHasNone ==
    ASSUME IInv, NEW u \in Requests, req[u].at = "idle"
    PROVE  req[u].op = "NONE"
  <1>1. req[u] \in Job /\ JobStands(req[u], lock["JOURNAL"] = u)
    BY DEF IInv, ReceiptsStand, TypeOK, JobsStand
  <1> QED
    BY <1>1, JobFields DEF JobStands

LEMMA FreshKept ==
    ASSUME UNCHANGED Books, NEW j
    PROVE  Fresh(j)' = Fresh(j)
  BY DEF Books, Fresh, Outstanding, VoidableSale, AllocationRows, Returnable, Receipts, PutOn

\* A step that leaves the books alone and one request in flight.
LEMMA TurnGoesOn ==
    ASSUME InTurn, IInv', UNCHANGED Books, NEW r \in Requests, NEW j \in Job,
           req' = [req EXCEPT ![r] = j], Fresh(j),
           \A u \in Requests \ {r} : req[u].at = "idle"
    PROVE  InTurn'
  <1>1. /\ req'[r] = j /\ \A u \in Requests \ {r} : req'[u] = req[u]
    BY DEF InTurn, IInv, ReceiptsStand, TypeOK
  <1>2. Alone'
    BY <1>1 DEF Alone
  <1>3. PaidMatchesAllocations' /\ \A s \in Sales : SaleStands(s)'
    BY DEF InTurn, Books, PaidMatchesAllocations, Allocated, SaleStands, Receipts
  <1>4. ASSUME NEW u \in Requests PROVE Fresh(req[u])'
    <2>1. PICK k : k = req'[u]
      OBVIOUS
    <2>2. Fresh(k)
      BY <1>1, <2>1 DEF InTurn
    <2>3. Fresh(k)'
      BY <2>2, FreshKept
    <2> QED
      BY <2>1, <2>3 DEF Fresh, Outstanding, VoidableSale, AllocationRows, Returnable, PutOn
  <1> QED
    BY <1>2, <1>3, <1>4 DEF InTurn

LEMMA BeginsAlone ==
    ASSUME InTurn, IInv', MaxInFlight = 1, NEW r \in Requests, NEW op, NEW allowed,
           NEW job \in Job, Begin(r, op, allowed, job), allowed => Fresh(job)
    PROVE  InTurn'
  <1>1. UNCHANGED Books /\ req[r].at = "idle"
    BY DEF Begin, KeepsBooks, Books
  <1>2. CASE allowed
    <2>1. req' = [req EXCEPT ![r] = job] /\ Cardinality(InFlight) < 1
      BY <1>2 DEF Begin
    <2>2. IsFiniteSet(InFlight)
      BY FiniteAssumption, FS_Subset DEF InFlight
    <2>3. InFlight = {}
      BY <2>1, <2>2, FS_EmptySet, FS_CardinalityType
    <2>4. \A u \in Requests \ {r} : req[u].at = "idle"
      BY <2>3 DEF InFlight
    <2> QED
      BY <1>1, <1>2, <2>1, <2>4, TurnGoesOn
  <1>3. CASE ~ allowed
    <2>1. UNCHANGED req
      BY <1>3 DEF Begin
    <2>2. Alone' /\ PaidMatchesAllocations' /\ \A s \in Sales : SaleStands(s)'
      BY <1>1, <2>1 DEF InTurn, Books, Alone, PaidMatchesAllocations, Allocated, SaleStands, Receipts
    <2>3. ASSUME NEW u \in Requests PROVE Fresh(req[u])'
      <3>1. PICK k : k = req[u]
        OBVIOUS
      <3>2. Fresh(k)'
        BY <1>1, <3>1, FreshKept DEF InTurn
      <3> QED
        BY <2>1, <3>1, <3>2
        DEF Fresh, Outstanding, VoidableSale, AllocationRows, Returnable, PutOn
    <2> QED
      BY <2>2, <2>3 DEF InTurn
  <1> QED
    BY <1>2, <1>3

LEMMA StartsInTurn ==
    ASSUME InTurn, IInv', MaxInFlight = 1, NEW r \in Requests, StartSomething(r)
    PROVE  InTurn'
  <1>1. TypeOK
    BY DEF InTurn, IInv, ReceiptsStand
  <1>2. ASSUME NEW alloc \in [Sales -> 0 .. Total], NEW amount \in Amounts,
               CreateReceipt(r, alloc, amount)
        PROVE  InTurn'
    <2>1. PICK j : j = ReceiveJob(alloc, amount)
      OBVIOUS
    <2>2. /\ j \in Job /\ j.op = "RECEIVE" /\ j.at = "numbering" /\ j.alloc = alloc
          /\ j.todo = PutOn(alloc) /\ \A s \in Sales : j.paid[s] = sale[s].paid
      BY <1>1, <2>1, ReceiveJobIs
    <2>3. Begin(r, "RECEIVE", AllocationsValid(alloc, amount), j)
      BY <1>2, <2>1 DEF CreateReceipt, ReceiveJob
    <2>4. AllocationsValid(alloc, amount) => Fresh(j)
      BY <2>2 DEF AllocationsValid, Fresh, PutOn
    <2> QED
      BY <2>2, <2>3, <2>4, BeginsAlone
  <1>3. ASSUME NEW i \in Receipts, VoidReceipt(r, i) PROVE InTurn'
    <2>1. PICK j : j = VoidReceiptJob(i)
      OBVIOUS
    <2>2. /\ j \in Job /\ j.op = "VOID_RECEIPT" /\ j.receipt = i
          /\ j.at = IF j.todo = {} THEN "journal" ELSE "reading"
          /\ j.alloc = receipts[i].alloc /\ j.todo = PutOn(receipts[i].alloc)
      BY <1>1, <2>1, VoidReceiptJobIs
    <2>3. Begin(r, "VOID_RECEIPT", receipts[i].status = "POSTED", j)
      BY <1>3, <2>1 DEF VoidReceipt, VoidReceiptJob
    <2>4. receipts[i].status = "POSTED" => Fresh(j)
      BY <2>2 DEF Fresh
    <2> QED
      BY <2>2, <2>3, <2>4, BeginsAlone
  <1>4. ASSUME NEW s \in Sales, VoidSale(r, s) PROVE InTurn'
    <2>1. PICK j : j = VoidSaleJob(s)
      OBVIOUS
    <2>2. /\ j \in Job /\ j.op = "VOID_SALE" /\ j.at = "stock" /\ j.doc = s
      BY <2>1, VoidSaleJobIs
    <2>3. Begin(r, "VOID_SALE", VoidableSale(s), j)
      BY <1>4, <2>1 DEF VoidSale, VoidSaleJob
    <2>4. VoidableSale(s) => Fresh(j)
      BY <2>2 DEF Fresh
    <2> QED
      BY <2>2, <2>3, <2>4, BeginsAlone
  <1>5. ASSUME NEW s \in Sales, NEW qty \in 1 .. Total, NEW onAccount \in BOOLEAN,
               CreateSalesReturn(r, s, qty, onAccount)
        PROVE  InTurn'
    <2>1. PICK j : j = ReturnJob(s, qty, onAccount)
      OBVIOUS
    <2>2. j \in Job /\ j.op = "RETURN" /\ j.doc = s /\ j.amount = qty
      BY <2>1, ReturnJobIs
    <2>3. Begin(r, "RETURN", Returnable(s, qty), j)
      BY <1>5, <2>1 DEF CreateSalesReturn, ReturnJob
    <2>4. Returnable(s, qty) => Fresh(j)
      BY <2>2 DEF Fresh
    <2> QED
      BY <2>2, <2>3, <2>4, BeginsAlone
  <1> QED
    BY <1>2, <1>3, <1>4, <1>5 DEF StartSomething

\* The request that takes a step is the one in flight.
LEMMA OnlyOne ==
    ASSUME InTurn, NEW r \in Requests, req[r].at # "idle"
    PROVE  /\ TypeOK /\ req[r] \in Job /\ Fresh(req[r])
           /\ JobStands(req[r], lock["JOURNAL"] = r)
           /\ \A u \in Requests \ {r} : req[u].at = "idle"
  BY DEF InTurn, Alone, IInv, ReceiptsStand, TypeOK, JobsStand

\* The steps that only take a lock or move on.
LEMMA StepsInTurn ==
    ASSUME InTurn, IInv', NEW r \in Requests,
           AllocateVoucher(r) \/ LockStock(r) \/ PostEntry(r) \/ LockVoidedSale(r)
    PROVE  InTurn'
  <1>1. req[r].at # "idle"
    BY DEF AllocateVoucher, LockStock, PostEntry, LockVoidedSale
  <1>2. /\ TypeOK /\ req[r] \in Job /\ Fresh(req[r]) /\ JobStands(req[r], lock["JOURNAL"] = r)
        /\ \A u \in Requests \ {r} : req[u].at = "idle"
    BY <1>1, OnlyOne
  <1>3. UNCHANGED Books
    BY DEF AllocateVoucher, LockStock, PostEntry, LockVoidedSale, KeepsBooks, Books
  <1>4. PICK at : /\ req' = [req EXCEPT ![r].at = at]
                  /\ \/ AllocateVoucher(r) /\ at = IF req[r].op = "RETURN" THEN "stock"
                                                   ELSE IF req[r].todo = {} THEN "journal" ELSE "settling"
                     \/ LockStock(r) /\ at = "journal"
                     \/ PostEntry(r) /\ at = IF req[r].op = "VOID_SALE" THEN "releasing" ELSE "writing"
                     \/ LockVoidedSale(r) /\ at = "writing"
    BY DEF AllocateVoucher, LockStock, PostEntry, LockVoidedSale
  <1> DEFINE j == [req[r] EXCEPT !.at = at]
  <1>5. req' = [req EXCEPT ![r] = j] /\ at \in Steps
    BY <1>2, <1>4 DEF TypeOK, Steps
  <1>6. /\ j \in Job /\ j.op = req[r].op /\ j.at = at /\ j.doc = req[r].doc
        /\ j.receipt = req[r].receipt /\ j.amount = req[r].amount /\ j.alloc = req[r].alloc
        /\ j.paid = req[r].paid /\ j.todo = req[r].todo /\ j.freed = req[r].freed
    BY <1>2, <1>5 DEF Job
  <1>7. req[r].op = "RECEIVE" => (at \in {"journal", "writing"} => req[r].todo = {})
    BY <1>2, <1>4 DEF AllocateVoucher, LockStock, PostEntry, LockVoidedSale, Fresh, JobStands
  <1>8. req[r].op = "VOID_RECEIPT" => at \in {"journal", "writing"} /\ req[r].todo = {}
    BY <1>2, <1>4 DEF AllocateVoucher, LockStock, PostEntry, LockVoidedSale, Fresh, JobStands
  <1>9. req[r].op = "VOID_SALE" /\ at \in {"settling", "writing"} =>
           req[r].freed = AllocationRows(req[r].doc)
    BY <1>2, <1>4 DEF AllocateVoucher, LockStock, PostEntry, LockVoidedSale, Fresh, JobStands
  <1> HIDE DEF j
  <1>10. Fresh(j)
    BY <1>2, <1>6, <1>7, <1>8, <1>9 DEF Fresh
  <1> QED
    BY <1>2, <1>3, <1>5, <1>6, <1>10, TurnGoesOn

LEMMA ReadPaidInTurn ==
    ASSUME InTurn, IInv', NEW r \in Requests, NEW s \in Sales, ReadPaid(r, s)
    PROVE  InTurn'
  <1> DEFINE j == [req[r] EXCEPT !.at = "settling", !.doc = s,
                                 !.paid = [req[r].paid EXCEPT ![s] = sale[s].paid]]
  <1>1. /\ TypeOK /\ req[r] \in Job /\ Fresh(req[r]) /\ JobStands(req[r], lock["JOURNAL"] = r)
        /\ \A u \in Requests \ {r} : req[u].at = "idle"
    BY OnlyOne DEF ReadPaid
  <1>2. req' = [req EXCEPT ![r] = j] /\ UNCHANGED Books
    BY <1>1 DEF ReadPaid, KeepsBooks, Books, TypeOK
  <1>3. j \in Job
    BY <1>1, JobFields, SaleFields DEF Job, Steps
  <1>4. /\ j.op = req[r].op /\ j.at = "settling" /\ j.doc = s
        /\ j.receipt = req[r].receipt /\ j.alloc = req[r].alloc /\ j.todo = req[r].todo
        /\ j.paid = [req[r].paid EXCEPT ![s] = sale[s].paid]
    BY <1>1 DEF Job
  <1>5. req[r].op = "VOID_RECEIPT" /\ s \in req[r].todo /\ req[r].paid \in [Sales -> 0 .. Total]
    BY <1>1, JobFields DEF ReadPaid, JobStands
  <1>6. PutOn(req[r].alloc) \subseteq Sales
    BY DEF PutOn
  <1> HIDE DEF j
  <1>7. \A t \in PutOn(j.alloc) \ j.todo : j.paid[t] = sale[t].paid - j.alloc[t]
    BY <1>1, <1>4, <1>5, <1>6 DEF Fresh
  <1>8. j.paid[j.doc] = sale[j.doc].paid /\ j.doc \in j.todo
    BY <1>4, <1>5
  <1>9. Fresh(j)
    BY <1>1, <1>4, <1>5, <1>7, <1>8 DEF Fresh
  <1> QED
    BY <1>1, <1>2, <1>3, <1>9, TurnGoesOn

LEMMA UpdatePaidInTurn ==
    ASSUME InTurn, IInv', NEW r \in Requests, NEW s \in Sales, UpdatePaid(r, s)
    PROVE  InTurn'
  <1> DEFINE left == req[r].todo \ {s}
             next == IF left = {} THEN "journal"
                     ELSE IF req[r].op = "RECEIVE" THEN "settling" ELSE "reading"
             j == [req[r] EXCEPT !.todo = left, !.at = next,
                                 !.paid = [req[r].paid EXCEPT ![s] = NewPaid(r, s)]]
  <1>1. /\ TypeOK /\ req[r] \in Job /\ Fresh(req[r]) /\ JobStands(req[r], lock["JOURNAL"] = r)
        /\ \A u \in Requests \ {r} : req[u].at = "idle"
    BY OnlyOne DEF UpdatePaid
  <1>2. req' = [req EXCEPT ![r] = j] /\ UNCHANGED Books
    BY <1>1 DEF UpdatePaid, KeepsBooks, Books, TypeOK
  <1>3. NewPaid(r, s) \in 0 .. Total
    BY <1>1, JobFields, SizesAssumption DEF UpdatePaid, PaidAllowed, NewPaid
  <1>4. j \in Job
    BY <1>1, <1>3, JobFields DEF Job, Steps
  <1>5. /\ req[r].op \in {"RECEIVE", "VOID_RECEIPT"} /\ req[r].at = "settling"
        /\ s \in req[r].todo /\ req[r].paid \in [Sales -> 0 .. Total]
        /\ req[r].op = "VOID_RECEIPT" => s = req[r].doc
    BY <1>1, JobFields DEF JobStands, UpdatePaid
  <1>6. /\ j.op = req[r].op /\ j.at = next /\ j.receipt = req[r].receipt
        /\ j.alloc = req[r].alloc /\ j.todo = left
        /\ j.paid = [req[r].paid EXCEPT ![s] = NewPaid(r, s)]
    BY <1>1 DEF Job
  <1>7. PutOn(req[r].alloc) \subseteq Sales
    BY DEF PutOn
  <1> HIDE DEF j
  <1>8. j.paid[s] = NewPaid(r, s) /\ \A t \in Sales \ {s} : j.paid[t] = req[r].paid[t]
    BY <1>5, <1>6
  <1>9. j.at \in {"journal", "writing"} => j.todo = {}
    BY <1>6
  <1>10. j.at # "settling" \/ j.op = "RECEIVE"
    BY <1>6
  <1>11. CASE req[r].op = "RECEIVE"
    <2>1. NewPaid(r, s) = sale[s].paid + req[r].alloc[s] /\ req[r].todo \subseteq PutOn(req[r].alloc)
      BY <1>1, <1>5, <1>11 DEF NewPaid, Fresh
    <2>2. \A t \in PutOn(j.alloc) :
             j.paid[t] = IF t \in j.todo THEN sale[t].paid ELSE sale[t].paid + j.alloc[t]
      BY <1>1, <1>6, <1>7, <1>8, <1>11, <2>1 DEF Fresh
    <2>3. Fresh(j)
      BY <1>1, <1>6, <1>9, <1>11, <2>1, <2>2 DEF Fresh
    <2> QED
      BY <1>1, <1>2, <1>4, <2>3, TurnGoesOn
  <1>12. CASE req[r].op = "VOID_RECEIPT"
    <2>1. NewPaid(r, s) = sale[s].paid - req[r].alloc[s] /\ req[r].todo \subseteq PutOn(req[r].alloc)
      BY <1>1, <1>5, <1>12 DEF NewPaid, Fresh
    <2>2. \A t \in PutOn(j.alloc) \ j.todo : j.paid[t] = sale[t].paid - j.alloc[t]
      BY <1>1, <1>6, <1>7, <1>8, <1>12, <2>1 DEF Fresh
    <2>3. Fresh(j)
      BY <1>1, <1>6, <1>9, <1>10, <1>12, <2>1, <2>2 DEF Fresh
    <2> QED
      BY <1>1, <1>2, <1>4, <2>3, TurnGoesOn
  <1> QED
    BY <1>5, <1>11, <1>12

LEMMA ReleaseInTurn ==
    ASSUME InTurn, IInv', NEW r \in Requests, ReleaseAllocations(r)
    PROVE  InTurn'
  <1> DEFINE j == [req[r] EXCEPT !.freed = AllocationRows(req[r].doc), !.at = "settling"]
  <1>1. /\ TypeOK /\ req[r] \in Job /\ Fresh(req[r]) /\ JobStands(req[r], lock["JOURNAL"] = r)
        /\ \A u \in Requests \ {r} : req[u].at = "idle"
    BY OnlyOne DEF ReleaseAllocations
  <1>2. req' = [req EXCEPT ![r] = j] /\ UNCHANGED Books
    BY <1>1 DEF ReleaseAllocations, KeepsBooks, Books, TypeOK
  <1>3. AllocationRows(req[r].doc) \in SUBSET Nat
    BY DEF AllocationRows, Receipts
  <1>4. j \in Job
    BY <1>1, <1>3 DEF Job, Steps
  <1>5. /\ j.op = req[r].op /\ j.at = "settling" /\ j.doc = req[r].doc
        /\ j.freed = AllocationRows(req[r].doc)
    BY <1>1 DEF Job
  <1>6. req[r].op = "VOID_SALE"
    BY <1>1, JobFields DEF ReleaseAllocations, JobStands
  <1> HIDE DEF j
  <1>7. Fresh(j)
    BY <1>1, <1>5, <1>6 DEF Fresh
  <1> QED
    BY <1>1, <1>2, <1>4, <1>7, TurnGoesOn

LEMMA RollBackInTurn ==
    ASSUME InTurn, IInv', NEW r \in Requests, RollBack(r)
    PROVE  InTurn'
  <1>1. \A u \in Requests \ {r} : req[u].at = "idle"
    BY OnlyOne DEF RollBack
  <1>2. req' = [req EXCEPT ![r] = NoJob] /\ UNCHANGED Books
    BY DEF RollBack, KeepsBooks, Books
  <1>3. Fresh(NoJob)
    BY NoJobType DEF Fresh
  <1> QED
    BY <1>1, <1>2, <1>3, NoJobType, TurnGoesOn

---------------------------------------------------------------------------
(* The sums of what is allocated to an invoice. *)

LEMMA AllocatedIs ==
    ASSUME TypeOK, NEW s \in Sales
    PROVE  /\ Allocated(s) \in Nat /\ IsFiniteSet(Receipts)
           /\ \A i \in Receipts : receipts[i].alloc[s] \in Nat
           /\ Allocated(s) = 0 <=> \A i \in Receipts : receipts[i].alloc[s] = 0
  <1> DEFINE f == [i \in Receipts |-> receipts[i].alloc[s]]
  <1>1. \A i \in Receipts : f[i] \in Nat /\ f[i] = receipts[i].alloc[s]
    BY ReceiptFields, SizesAssumption
  <1>2. Allocated(s) = SumFunctionOnSet(f, Receipts)
    BY DEF Allocated
  <1> HIDE DEF f
  <1>3. IsFiniteSet(Receipts)
    BY FiguresAre
  <1>4. SumFunctionOnSet(f, Receipts) \in Nat
    BY <1>1, <1>3, SumOfNaturals
  <1>5. SumFunctionOnSet(f, Receipts) = 0 => \A i \in Receipts : f[i] = 0
    BY <1>1, <1>3, SumOfNaturals
  <1>6. (\A i \in Receipts : f[i] = 0) => SumFunctionOnSet(f, Receipts) = 0
    BY <1>3, SumOfNils
  <1> QED
    BY <1>1, <1>2, <1>3, <1>4, <1>5, <1>6

LEMMA AllocatedGrows ==
    ASSUME TypeOK, NEW s \in Sales, NEW n \in Nat, n \notin Receipts,
           Receipts' = Receipts \union {n}, NEW d \in Int, receipts'[n].alloc[s] = d,
           \A i \in Receipts : receipts'[i].alloc[s] = receipts[i].alloc[s]
    PROVE  Allocated(s)' = Allocated(s) + d
  <1> DEFINE f == [i \in Receipts |-> receipts[i].alloc[s]]
             g == [i \in Receipts \union {n} |-> receipts'[i].alloc[s]]
  <1>1. /\ \A i \in Receipts : f[i] \in Int /\ g[i] = f[i]
        /\ g[n] \in Int /\ g[n] = d /\ IsFiniteSet(Receipts)
    BY AllocatedIs
  <1>2. /\ Allocated(s)' = SumFunctionOnSet(g, Receipts \union {n})
        /\ Allocated(s) = SumFunctionOnSet(f, Receipts)
    BY DEF Allocated
  <1> HIDE DEF f, g
  <1>3. SumFunctionOnSet(g, Receipts \union {n}) = SumFunctionOnSet(f, Receipts) + g[n]
    BY <1>1, SumGrows
  <1> QED
    BY <1>1, <1>2, <1>3

\* The form of it that holds in the next state too.
LEMMA AllocatedInt == TypeOK => \A s \in Sales : Allocated(s) \in Int
  BY AllocatedIs

LEMMA AllocatedMoves ==
    ASSUME TypeOK, NEW s \in Sales, NEW k \in Receipts, Receipts' = Receipts,
           receipts'[k].alloc[s] = 0,
           \A i \in Receipts \ {k} : receipts'[i].alloc[s] = receipts[i].alloc[s]
    PROVE  Allocated(s)' = Allocated(s) - receipts[k].alloc[s]
  <1> DEFINE f == [i \in Receipts |-> receipts[i].alloc[s]]
             g == [i \in Receipts |-> receipts'[i].alloc[s]]
  <1>1. /\ \A i \in Receipts : f[i] \in Int
        /\ \A i \in Receipts \ {k} : g[i] = f[i]
        /\ g[k] = 0 /\ f[k] = receipts[k].alloc[s] /\ IsFiniteSet(Receipts)
    BY AllocatedIs
  <1>2. /\ Allocated(s)' = SumFunctionOnSet(g, Receipts)
        /\ Allocated(s) = SumFunctionOnSet(f, Receipts)
    BY DEF Allocated
  <1> HIDE DEF f, g
  <1>3. g[k] \in Int
    BY <1>1
  <1>4. SumFunctionOnSet(g, Receipts) = SumFunctionOnSet(f, Receipts) - f[k] + g[k]
    BY <1>1, <1>3, SumChanges
  <1>5. SumFunctionOnSet(f, Receipts) \in Int
    BY <1>1, SumInt
  <1> QED
    BY <1>1, <1>2, <1>4, <1>5

LEMMA AllocatedSame ==
    ASSUME NEW s \in Sales, Receipts' = Receipts,
           \A i \in Receipts : receipts'[i].alloc[s] = receipts[i].alloc[s]
    PROVE  Allocated(s)' = Allocated(s)
  BY DEF Allocated

---------------------------------------------------------------------------
(* The commits of one request after another. *)

\* After a commit nothing is in flight.
LEMMA NothingInFlight ==
    ASSUME InTurn, IInv', NEW r \in Requests, Commit(r), PaidMatchesAllocations',
           \A s \in Sales : SaleStands(s)'
    PROVE  InTurn'
  <1>1. \A u \in Requests \ {r} : req[u].at = "idle"
    BY OnlyOne DEF Commit
  <1>2. \A u \in Requests : req'[u].at = "idle" /\ req'[u].op = "NONE"
    BY <1>1, CommitFinds, NoJobType, IdleHasNone DEF InTurn
  <1>3. Alone'
    BY <1>2 DEF Alone
  <1>4. \A u \in Requests : Fresh(req[u])'
    BY <1>2 DEF Fresh
  <1> QED
    BY <1>3, <1>4 DEF InTurn

LEMMA CommitReceiptInTurn ==
    ASSUME InTurn, IInv', NEW r \in Requests, Commit(r), req[r].op = "RECEIVE"
    PROVE  /\ InTurn'
           /\ \A s \in Sales : Allocated(s)' > Allocated(s) =>
                                 Allocated(s)' + sale'[s].credited <= Total
  <1>1. TypeOK /\ IInv /\ req[r] \in Job /\ Fresh(req[r]) /\ req[r].at = "writing"
    BY CommitFinds, OnlyOne DEF InTurn, Commit
  <1>2. PICK n \in Nat : n = Len(receipts) + 1
    BY <1>1, FiguresAre
  <1>3. PICK alloc : alloc = req[r].alloc
    OBVIOUS
  <1>4. /\ sale' = WithPaid(r)
        /\ Receipts' = Receipts \union {n} /\ n \notin Receipts
        /\ \A i \in Receipts : receipts'[i] = receipts[i]
        /\ receipts'[n].alloc = alloc
    BY <1>1, <1>2, <1>3, CommitReceiptIs
  <1>5. /\ alloc \in [Sales -> 0 .. Total] /\ \A s \in Sales : alloc[s] \in Nat
        /\ \A s \in Sales : alloc[s] > 0 => /\ sale[s].status = "POSTED"
                                            /\ alloc[s] <= Outstanding(s)
                                            /\ req[r].paid[s] = sale[s].paid + alloc[s]
    BY <1>1, <1>3, JobFields, SizesAssumption DEF Fresh, PutOn
  <1>6. ASSUME NEW s \in Sales
        PROVE  /\ sale'[s].status = sale[s].status /\ sale'[s].credited = sale[s].credited
               /\ sale'[s].returned = sale[s].returned
               /\ sale'[s].goodsBack = sale[s].goodsBack
               /\ sale'[s].paid = sale[s].paid + alloc[s]
    BY <1>1, <1>3, <1>4, <1>5, WithPaidIs, SaleFields, SizesAssumption
  <1>7. ASSUME NEW s \in Sales PROVE Allocated(s)' = Allocated(s) + alloc[s]
    <2>1. PICK d \in Int : d = alloc[s]
      BY <1>5
    <2>2. Allocated(s)' = Allocated(s) + d
      BY <1>1, <1>4, <2>1, AllocatedGrows
    <2> QED
      BY <2>1, <2>2
  <1>8. PaidMatchesAllocations'
    BY <1>6, <1>7 DEF PaidMatchesAllocations, InTurn
  <1>9. ASSUME NEW s \in Sales PROVE SaleStands(s)'
    <2>1. SaleStands(s)
      BY DEF InTurn
    <2>2. sale[s].status = "VOIDED" => alloc[s] = 0
      BY <1>5
    <2>3. sale[s].status = "VOIDED" => \A i \in Receipts' : receipts'[i].alloc[s] = 0
      BY <1>4, <2>1, <2>2 DEF SaleStands
    <2> QED
      BY <1>6, <2>1, <2>2, <2>3 DEF SaleStands
  <1>10. InTurn'
    BY <1>8, <1>9, NothingInFlight
  <1>11. ASSUME NEW s \in Sales, Allocated(s)' > Allocated(s)
         PROVE  Allocated(s)' + sale'[s].credited <= Total
    <2>1. Allocated(s) \in Nat /\ sale[s].paid = Allocated(s) /\ sale[s].credited \in Nat
      BY <1>1, AllocatedIs, SaleFields DEF InTurn, PaidMatchesAllocations
    <2>2. alloc[s] > 0
      BY <1>5, <1>7, <1>11, <2>1
    <2>3. alloc[s] <= Total - (sale[s].paid + sale[s].credited)
      BY <1>5, <2>2 DEF Outstanding
    <2> QED
      BY <1>5, <1>6, <1>7, <2>1, <2>3, SizesAssumption
  <1> QED
    BY <1>10, <1>11

LEMMA CommitVoidReceiptInTurn ==
    ASSUME InTurn, IInv', NEW r \in Requests, Commit(r), req[r].op = "VOID_RECEIPT"
    PROVE  InTurn' /\ \A s \in Sales : Allocated(s)' <= Allocated(s)
  <1>1. TypeOK /\ IInv /\ req[r] \in Job /\ Fresh(req[r]) /\ req[r].at = "writing"
    BY CommitFinds, OnlyOne DEF InTurn, Commit
  <1>2. PICK k, alloc : k = req[r].receipt /\ alloc = req[r].alloc
    OBVIOUS
  <1>3. /\ sale' = WithPaid(r) /\ Receipts' = Receipts /\ k \in Receipts
        /\ \A i \in Receipts \ {k} : receipts'[i] = receipts[i]
        /\ \A s \in Sales : receipts'[k].alloc[s] = 0
    BY <1>1, <1>2, CommitVoidReceiptIs DEF NoAllocation
  <1>4. /\ alloc = receipts[k].alloc /\ \A s \in Sales : alloc[s] \in Nat
        /\ \A s \in Sales : alloc[s] > 0 => req[r].paid[s] = sale[s].paid - alloc[s]
    BY <1>1, <1>2, JobFields, SizesAssumption DEF Fresh, PutOn
  <1>5. ASSUME NEW s \in Sales
        PROVE  /\ sale'[s].status = sale[s].status
               /\ sale'[s].returned = sale[s].returned
               /\ sale'[s].goodsBack = sale[s].goodsBack
               /\ sale'[s].paid = sale[s].paid - alloc[s]
    <2>1. sale[s].paid \in Int /\ alloc[s] \in Nat
      BY <1>1, <1>4, SaleFields, SizesAssumption
    <2>2. /\ sale'[s].status = sale[s].status
          /\ sale'[s].returned = sale[s].returned
          /\ sale'[s].goodsBack = sale[s].goodsBack
          /\ sale'[s].paid = IF alloc[s] > 0 THEN req[r].paid[s] ELSE sale[s].paid
      BY <1>1, <1>2, <1>3, WithPaidIs
    <2>3. CASE alloc[s] > 0
      BY <1>4, <2>1, <2>2, <2>3
    <2>4. CASE ~ alloc[s] > 0
      BY <2>1, <2>2, <2>4
    <2> QED
      BY <2>3, <2>4
  <1>6. ASSUME NEW s \in Sales PROVE Allocated(s)' = Allocated(s) - alloc[s]
    BY <1>1, <1>3, <1>4, AllocatedMoves
  <1>7. PaidMatchesAllocations'
    BY <1>5, <1>6 DEF PaidMatchesAllocations, InTurn
  <1>8. ASSUME NEW s \in Sales PROVE SaleStands(s)'
    <2>1. SaleStands(s)
      BY DEF InTurn
    <2>2. sale[s].status = "VOIDED" => alloc[s] = 0
      BY <1>3, <1>4, <2>1 DEF SaleStands
    <2>3. sale[s].status = "VOIDED" => \A i \in Receipts' : receipts'[i].alloc[s] = 0
      BY <1>3, <2>1 DEF SaleStands
    <2> QED
      BY <1>5, <2>1, <2>2, <2>3 DEF SaleStands
  <1>9. \A s \in Sales : Allocated(s)' <= Allocated(s)
    BY <1>1, <1>4, <1>6, AllocatedIs
  <1> QED
    BY <1>7, <1>8, <1>9, NothingInFlight

LEMMA CommitVoidSaleInTurn ==
    ASSUME InTurn, IInv', NEW r \in Requests, Commit(r), req[r].op = "VOID_SALE"
    PROVE  InTurn' /\ \A t \in Sales : Allocated(t)' <= Allocated(t)
  <1>1. TypeOK /\ IInv /\ req[r] \in Job /\ Fresh(req[r]) /\ req[r].at = "writing"
    BY CommitFinds, OnlyOne DEF InTurn, Commit
  <1>2. PICK s, freed : s = req[r].doc /\ freed = req[r].freed
    OBVIOUS
  <1>3. /\ s \in Sales /\ \A t \in Sales \ {s} : sale'[t] = sale[t]
        /\ sale'[s].status = "VOIDED" /\ sale'[s].paid = 0
        /\ sale'[s].returned = sale[s].returned
        /\ sale'[s].goodsBack = sale[s].goodsBack + Total
        /\ Receipts' = Receipts
        /\ \A i \in Receipts :
             receipts'[i].alloc = IF i \in freed THEN [receipts[i].alloc EXCEPT ![s] = 0]
                                  ELSE receipts[i].alloc
    BY <1>1, <1>2, CommitVoidSaleIs
  <1>4. /\ sale[s].status = "POSTED" /\ sale[s].returned = 0
        /\ freed = {i \in Receipts : receipts[i].alloc[s] > 0}
    BY <1>1, <1>2 DEF Fresh, VoidableSale, AllocationRows
  <1>5. ASSUME NEW i \in Receipts
        PROVE  /\ receipts'[i].alloc[s] = 0
               /\ \A t \in Sales \ {s} : receipts'[i].alloc[t] = receipts[i].alloc[t]
    <2>1. receipts[i].alloc \in [Sales -> 0 .. Total] /\ receipts[i].alloc[s] \in Nat
      BY <1>1, <1>3, ReceiptFields, SizesAssumption
    <2>2. CASE i \in freed
      <3>1. receipts'[i].alloc = [receipts[i].alloc EXCEPT ![s] = 0]
        BY <1>3, <2>2
      <3> QED
        BY <1>3, <2>1, <3>1
    <2>3. CASE i \notin freed
      <3>1. receipts'[i].alloc = receipts[i].alloc
        BY <1>3, <2>3
      <3>2. receipts[i].alloc[s] = 0
        BY <1>4, <2>1, <2>3
      <3> QED
        BY <3>1, <3>2
    <2> QED
      BY <2>2, <2>3
  <1>6. ASSUME NEW t \in Sales \ {s} PROVE Allocated(t)' = Allocated(t)
    BY <1>3, <1>5, AllocatedSame
  <1>7. Allocated(s)' = 0
    <2> DEFINE now == [i \in Receipts' |-> receipts'[i].alloc[s]]
    <2>1. \A i \in Receipts' : now[i] = 0
      BY <1>3, <1>5
    <2>2. IsFiniteSet(Receipts')
      BY <1>1, <1>3, FiguresAre
    <2>3. SumFunctionOnSet(now, Receipts') = 0
      <3> HIDE DEF now
      <3> QED
        BY <2>1, <2>2, SumOfNils
    <2> QED
      BY <2>3 DEF Allocated
  <1>8. PaidMatchesAllocations'
    BY <1>3, <1>6, <1>7 DEF PaidMatchesAllocations, InTurn
  <1>9. ASSUME NEW t \in Sales PROVE SaleStands(t)'
    <2>1. SaleStands(t)
      BY DEF InTurn
    <2>2. CASE t = s
      <3>1. sale[s].goodsBack = 0
        BY <1>4, <2>1, <2>2 DEF SaleStands
      <3> QED
        BY <1>3, <1>4, <1>5, <2>1, <2>2, <3>1, SizesAssumption DEF SaleStands
    <2>3. CASE t # s
      BY <1>3, <1>5, <2>1, <2>3 DEF SaleStands
    <2> QED
      BY <2>2, <2>3
  <1>10. \A t \in Sales : Allocated(t)' <= Allocated(t)
    BY <1>1, <1>6, <1>7, AllocatedIs
  <1> QED
    BY <1>8, <1>9, <1>10, NothingInFlight

LEMMA CommitReturnInTurn ==
    ASSUME InTurn, IInv', NEW r \in Requests, Commit(r), req[r].op = "RETURN"
    PROVE  InTurn' /\ \A t \in Sales : Allocated(t)' = Allocated(t)
  <1>1. TypeOK /\ IInv /\ req[r] \in Job /\ Fresh(req[r])
    BY CommitFinds, OnlyOne DEF InTurn, Commit
  <1>2. PICK s, qty, credit : /\ s = req[r].doc /\ qty = req[r].amount
                              /\ credit = (IF req[r].onAccount THEN req[r].amount ELSE 0)
    OBVIOUS
  <1>3. /\ s \in Sales /\ UNCHANGED receipts /\ qty \in Nat
        /\ \A t \in Sales \ {s} : sale'[t] = sale[t]
        /\ sale'[s].status = sale[s].status /\ sale'[s].paid = sale[s].paid
        /\ sale'[s].returned = sale[s].returned + qty
        /\ sale'[s].goodsBack = sale[s].goodsBack + qty
    BY <1>1, <1>2, CommitReturnIs
  <1>4. sale[s].status = "POSTED" /\ qty <= Total - sale[s].returned
    BY <1>1, <1>2 DEF Fresh, Returnable
  <1>5. Receipts' = Receipts
    BY <1>3 DEF Receipts
  <1>6. \A t \in Sales : Allocated(t)' = Allocated(t)
    BY <1>3, <1>5, AllocatedSame
  <1>7. PaidMatchesAllocations'
    BY <1>3, <1>6 DEF PaidMatchesAllocations, InTurn
  <1>8. ASSUME NEW t \in Sales PROVE SaleStands(t)'
    <2>1. SaleStands(t)
      BY DEF InTurn
    <2>2. CASE t = s
      <3>1. sale[s].goodsBack = sale[s].returned /\ sale[s].returned \in Nat
        BY <1>1, <1>4, <2>1, <2>2, SaleFields DEF SaleStands
      <3> QED
        BY <1>3, <1>4, <2>2, <3>1, SizesAssumption DEF SaleStands
    <2>3. CASE t # s
      BY <1>3, <1>5, <2>1, <2>3 DEF SaleStands
    <2> QED
      BY <2>2, <2>3
  <1> QED
    BY <1>6, <1>7, <1>8, NothingInFlight

---------------------------------------------------------------------------
(* The theorems about one request after another. *)

LEMMA InTurnInitially == Init => InTurn
  <1> SUFFICES ASSUME Init PROVE InTurn
    OBVIOUS
  <1>1. IInv /\ TypeOK
    BY Initially DEF IInv, ReceiptsStand
  <1>2. Receipts = {}
    BY DEF Init, Receipts
  <1>3. PaidMatchesAllocations
    BY <1>1, <1>2, AllocatedIs DEF Init, PaidMatchesAllocations
  <1>4. \A s \in Sales : SaleStands(s)
    BY <1>2, SizesAssumption DEF Init, SaleStands
  <1>5. Alone /\ \A r \in Requests : Fresh(req[r])
    BY NoJobType DEF Init, Alone, Fresh
  <1> QED
    BY <1>1, <1>3, <1>4, <1>5 DEF InTurn

NeverPastOwed ==
    \A s \in Sales : Allocated(s)' > Allocated(s) =>
                       Allocated(s)' + sale'[s].credited <= Total

LEMMA InTurnInductive ==
    ASSUME MaxInFlight = 1
    PROVE  InTurn /\ [Next]_vars => InTurn' /\ NeverPastOwed
  <1> SUFFICES ASSUME InTurn, [Next]_vars PROVE InTurn' /\ NeverPastOwed
    OBVIOUS
  <1>1. IInv /\ TypeOK /\ IInv' /\ TypeOK'
    BY Inductive DEF InTurn, IInv, ReceiptsStand
  <1>2. \A s \in Sales : Allocated(s) \in Int /\ Allocated(s)' \in Int
    <2>1. \A s \in Sales : Allocated(s) \in Int
      BY <1>1, AllocatedIs
    <2>2. \A s \in Sales : Allocated(s)' \in Int
      <3>1. (\A s \in Sales : Allocated(s) \in Int)'
        BY <1>1, AllocatedInt, PTL
      <3> QED
        BY <3>1
    <2> QED
      BY <2>1, <2>2
  <1>3. ASSUME UNCHANGED receipts PROVE NeverPastOwed
    BY <1>2, <1>3 DEF NeverPastOwed, Allocated, Receipts
  <1>4. ASSUME NEW r \in Requests, StartSomething(r) PROVE InTurn' /\ NeverPastOwed
    <2>1. UNCHANGED receipts
      BY <1>4 DEF StartSomething, CreateReceipt, VoidReceipt, VoidSale, CreateSalesReturn, Begin,
                  KeepsBooks
    <2> QED
      BY <1>1, <1>3, <1>4, <2>1, StartsInTurn
  <1>5. ASSUME NEW r \in Requests, LockedStep(r) PROVE InTurn' /\ NeverPastOwed
    <2>1. UNCHANGED receipts
      BY <1>5 DEF LockedStep, AllocateVoucher, UpdatePaid, LockVoidedSale, LockStock, PostEntry,
                  KeepsBooks
    <2>2. InTurn'
      BY <1>1, <1>5, StepsInTurn, UpdatePaidInTurn DEF LockedStep
    <2> QED
      BY <1>3, <2>1, <2>2
  <1>6. ASSUME NEW r \in Requests, NEW s \in Sales, ReadPaid(r, s) PROVE InTurn' /\ NeverPastOwed
    BY <1>1, <1>3, <1>6, ReadPaidInTurn DEF ReadPaid, KeepsBooks
  <1>7. ASSUME NEW r \in Requests, ReleaseAllocations(r) PROVE InTurn' /\ NeverPastOwed
    BY <1>1, <1>3, <1>7, ReleaseInTurn DEF ReleaseAllocations, KeepsBooks
  <1>8. ASSUME NEW r \in Requests, RollBack(r) PROVE InTurn' /\ NeverPastOwed
    BY <1>1, <1>3, <1>8, RollBackInTurn DEF RollBack, KeepsBooks
  <1>9. ASSUME NEW r \in Requests, Commit(r) PROVE InTurn' /\ NeverPastOwed
    <2>1. req[r].op \in {"RECEIVE", "VOID_RECEIPT", "VOID_SALE", "RETURN"}
      BY <1>1, <1>9, CommitFinds, JobFields
    <2>2. CASE req[r].op = "RECEIVE"
      BY <1>1, <1>9, <2>2, CommitReceiptInTurn DEF NeverPastOwed
    <2>3. CASE req[r].op = "VOID_RECEIPT"
      <3>1. InTurn' /\ \A s \in Sales : Allocated(s)' <= Allocated(s)
        BY <1>1, <1>9, <2>3, CommitVoidReceiptInTurn
      <3> QED
        BY <1>2, <3>1 DEF NeverPastOwed
    <2>4. CASE req[r].op = "VOID_SALE"
      <3>1. InTurn' /\ \A s \in Sales : Allocated(s)' <= Allocated(s)
        BY <1>1, <1>9, <2>4, CommitVoidSaleInTurn
      <3> QED
        BY <1>2, <3>1 DEF NeverPastOwed
    <2>5. CASE req[r].op = "RETURN"
      <3>1. InTurn' /\ \A s \in Sales : Allocated(s)' = Allocated(s)
        BY <1>1, <1>9, <2>5, CommitReturnInTurn
      <3> QED
        BY <1>2, <3>1 DEF NeverPastOwed
    <2> QED
      BY <2>1, <2>2, <2>3, <2>4, <2>5
  <1>10. CASE UNCHANGED vars
    <2>1. UNCHANGED Books /\ UNCHANGED req
      BY <1>10 DEF vars, Books
    <2>2. Alone' /\ PaidMatchesAllocations' /\ \A s \in Sales : SaleStands(s)'
      BY <2>1 DEF InTurn, Books, Alone, PaidMatchesAllocations, Allocated, SaleStands, Receipts
    <2>3. ASSUME NEW u \in Requests PROVE Fresh(req[u])'
      <3>1. PICK k : k = req[u]
        OBVIOUS
      <3>2. Fresh(k)'
        BY <2>1, <3>1, FreshKept DEF InTurn
      <3> QED
        BY <2>1, <3>1, <3>2
        DEF Fresh, Outstanding, VoidableSale, AllocationRows, Returnable, PutOn
    <2> QED
      BY <1>1, <1>3, <2>1, <2>2, <2>3 DEF InTurn, Books
  <1> QED
    BY <1>4, <1>5, <1>6, <1>7, <1>8, <1>9, <1>10 DEF Next, FreeStep

LEMMA AlwaysInTurn ==
    ASSUME MaxInFlight = 1
    PROVE  Spec => []InTurn
  <1>1. InTurn /\ [Next]_vars => InTurn'
    BY InTurnInductive
  <1> QED
    BY <1>1, InTurnInitially, PTL DEF Spec

\* While requests follow one another, the paid amount of every invoice is what
\* its allocation rows add up to, though createReceipt, voidReceipt and voidSale
\* write the two apart and the paid amount as a figure worked out earlier.
THEOREM PaidMatches ==
    ASSUME MaxInFlight = 1
    PROVE  Spec => []PaidMatchesAllocations
  <1>1. InTurn => PaidMatchesAllocations
    BY DEF InTurn
  <1> QED
    BY <1>1, AlwaysInTurn, PTL

\* While requests follow one another, an invoice that was voided holds no money,
\* and no invoice gives back more goods than it sold, by returns and by its void
\* together (ALREADY_RETURNED in voidSale, OVER_RETURN in createSalesReturn).
THEOREM VoidedSalesSettled ==
    ASSUME MaxInFlight = 1
    PROVE  Spec => []VoidedSalesAreSettled
  <1>1. InTurn => VoidedSalesAreSettled
    <2> SUFFICES ASSUME InTurn, NEW s \in Sales
                 PROVE  /\ sale[s].status = "VOIDED" => sale[s].paid = 0 /\ Allocated(s) = 0
                        /\ sale[s].goodsBack <= Total
      BY DEF VoidedSalesAreSettled, VoidedSaleHoldsNoMoney, GoodsComeBackOnce
    <2>1. SaleStands(s) /\ sale[s].paid = Allocated(s) /\ sale[s].status \in {"POSTED", "VOIDED"}
      BY SaleFields DEF InTurn, IInv, ReceiptsStand, PaidMatchesAllocations
    <2> QED
      BY <2>1 DEF SaleStands
  <1> QED
    BY <1>1, AlwaysInTurn, PTL

\* While requests follow one another, no step puts more on an invoice than it
\* owes, what was credited on it counted (validateAllocations).
THEOREM NeverOverAllocated ==
    ASSUME MaxInFlight = 1
    PROVE  Spec => AllocationNeverExceedsOwed
  <1>1. InTurn /\ [Next]_vars => [NeverPastOwed]_vars
    BY InTurnInductive
  <1>2. Spec => [][NeverPastOwed]_vars
    BY <1>1, AlwaysInTurn, PTL DEF Spec
  <1> QED
    BY <1>2 DEF AllocationNeverExceedsOwed, NeverPastOwed
=============================================================================
