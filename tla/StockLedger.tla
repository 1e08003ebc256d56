---------------------------- MODULE StockLedger ----------------------------
(***************************************************************************)
(* What one product at one branch is worth: the cached position, the       *)
(* append-only movement ledger it is a cache of, and the Inventory account *)
(* of the general ledger, under both valuation methods.                    *)
(*                                                                         *)
(* Every document that moves stock is one transaction.  It makes its       *)
(* checks, takes the company's advisory stock lock, works the movement out *)
(* from the position it reads then, and posts its entry; the lock is held  *)
(* to the commit.  What it checks before the lock may be stale by then.    *)
(* A document has one line.                                                *)
(*                                                                         *)
(* Money counts the fourth decimal, the scale of lib/money: a division     *)
(* rounds half up to it.  Movements stand in the order of their createdAt, *)
(* which is taken to be the order of their commits.                        *)
(***************************************************************************)
EXTENDS Integers, Sequences, Functions

CONSTANTS
    Requests,      \* user requests
    Nobody,        \* "nobody holds the stock lock"
    Methods,       \* valuation methods the company may have chosen
    Bills,         \* purchases: <<quantity, cost>>
    Quantities,    \* quantities a customer buys or anyone returns
    Counts,        \* quantities a stock count may find
    LastDate,      \* documents are dated 1 .. LastDate
    Operations,    \* the operations users perform in this instance
    MaxMovements   \* bound: movements ever recorded; past it requests fail

ASSUME NobodyAssumption == Nobody \notin Requests
ASSUME SizesAssumption ==
    /\ Methods \subseteq {"WEIGHTED_AVERAGE", "FIFO"}
    /\ Bills \subseteq (Nat \ {0}) \X Nat
    /\ Quantities \subseteq Nat \ {0} /\ Counts \subseteq Nat
    /\ LastDate \in Nat /\ MaxMovements \in Nat

VARIABLES
    method,     \* company.inventoryMethod, locked once stock has moved
    balance,    \* inventory_balances: the cached position
    movements,  \* inventory_movements; a document is known by its position
    account,    \* balance of the Inventory account
    stockLock,  \* who holds pg_advisory_xact_lock('stock:...')
    req         \* what each request is doing and what it has worked out

vars == <<method, balance, movements, account, stockLock, req>>

Dates     == 1 .. LastDate
Documents == {"PURCHASE", "SALE", "SALES_RETURN", "PURCHASE_RETURN", "COUNT"}
Voids == {"VOID_PURCHASE", "VOID_SALE"}

NoMovement == [kind |-> "NONE", date |-> 0, doc |-> 0, quantity |-> 0, unitCost |-> 0,
               value |-> 0, balanceQuantity |-> 0, balanceValue |-> 0]
\* A job carries what its handler asked of the stock service: how many units
\* (inward positive), and the cost, or NoCost where the method decides.
NoCost == -1
Asked(op, at, doc, date, quantity, cost) ==
    [op |-> op, at |-> at, doc |-> doc, date |-> date, quantity |-> quantity, cost |-> cost,
     movement |-> NoMovement, average |-> 0]
NoJob == Asked("NONE", "idle", 0, 0, 0, NoCost)

Recorded == 1 .. Len(movements)
\* Sums over a set of movements, by their positions.
TotalQuantity(these) == SumFunctionOnSet([i \in Recorded |-> movements[i].quantity], these)
TotalValue(these)    == SumFunctionOnSet([i \in Recorded |-> movements[i].value], these)

Abs(n) == IF n < 0 THEN -n ELSE n
Smaller(m, n) == IF m < n THEN m ELSE n
\* divide of lib/money: rounded half up, away from zero.
Divide(a, b) == IF a < 0 THEN - ((2 * (-a) + b) \div (2 * b)) ELSE (2 * a + b) \div (2 * b)

---------------------------------------------------------------------------
(* Faulty forms of definitions below, against which the properties are     *)
(* checked; the specification does not use them.                           *)

FaultNoLock(r) == TRUE
FaultCostByMethod(r, position) ==
    IF req[r].quantity = - position.quantity THEN position.stockValue
    ELSE Divide(position.stockValue * Abs(req[r].quantity), position.quantity)
FaultAverageStands(position, quantity, value) == position.averageCost
FaultValueUnchecked(r, position) ==
    Abs(req[r].quantity) <= position.quantity

---------------------------------------------------------------------------
(* lib/inventory/valuation *)

\* Drains layers, oldest first: what they cost, what is left of them.
DrainLayer(acc, layer) ==
    LET taken == Smaller(layer.quantity, acc.outstanding)
        left  == layer.quantity - taken IN
    [outstanding |-> acc.outstanding - taken,
     cost        |-> acc.cost + taken * layer.unitCost,
     remaining   |-> IF left = 0 THEN acc.remaining
                     ELSE Append(acc.remaining, [layer EXCEPT !.quantity = left])]
Drain(layers, quantity) ==
    LET after[n \in 0 .. Len(layers)] ==
          IF n = 0 THEN [outstanding |-> quantity, cost |-> 0, remaining |-> << >>]
                   ELSE DrainLayer(after[n - 1], layers[n])
    IN  after[Len(layers)]

\* rebuildLayers replays the movements by date, and those of a day by age.
ReplayMovement(layers, m) ==
    IF m.quantity > 0 THEN Append(layers, [quantity |-> m.quantity, unitCost |-> m.unitCost])
                      ELSE Drain(layers, - m.quantity).remaining
ReplayDay(layers, day) ==
    LET after[n \in 0 .. Len(movements)] ==
          IF n = 0 THEN layers
          ELSE IF movements[n].date # day THEN after[n - 1]
          ELSE ReplayMovement(after[n - 1], movements[n])
    IN  after[Len(movements)]
RebuildLayers ==
    LET upTo[day \in 0 .. LastDate] ==
          IF day = 0 THEN << >> ELSE ReplayDay(upTo[day - 1], day)
    IN  upTo[LastDate]
LayersQuantity(layers) == SumFunction([n \in DOMAIN layers |-> layers[n].quantity])

\* consume: what may leave, and at what cost.
Available(position) == IF method = "FIFO" THEN LayersQuantity(RebuildLayers)
                                          ELSE position.quantity
ConsumeWeightedAverage(position, quantity) ==
    Divide(position.stockValue * quantity, position.quantity)
ConsumeFifo(quantity) == Drain(RebuildLayers, quantity).cost

---------------------------------------------------------------------------
(* stock-service: recordInward and recordOutward *)

LockFree(r) == stockLock \in {Nobody, r}

\* recordOutward refuses more than there is, in units and in value.
OutwardAllowed(r, position) ==
    /\ Abs(req[r].quantity) <= Available(position)
    /\ req[r].cost <= position.stockValue \/ req[r].cost = NoCost

\* The cost the caller names, else all of it for the last unit, else the
\* method's.
OutwardCost(r, position) ==
    LET quantity == Abs(req[r].quantity) IN
    CASE req[r].cost # NoCost -> req[r].cost
      [] req[r].cost = NoCost /\ position.quantity = quantity -> position.stockValue
      [] OTHER -> IF method = "FIFO" THEN ConsumeFifo(quantity)
                                     ELSE ConsumeWeightedAverage(position, quantity)

\* What is left, over what is left of it; the last average where nothing is.
AverageAfter(position, quantity, value) ==
    IF quantity > 0 THEN Divide(value, quantity) ELSE position.averageCost
\* blendAverageCost divides by any total but nil.
BlendedAverage(position, quantity, value) ==
    IF quantity = 0 THEN position.averageCost
    ELSE IF quantity < 0 THEN Divide(- value, - quantity) ELSE Divide(value, quantity)

Worked(r, position, inward) ==
    LET value    == IF inward THEN req[r].cost ELSE - OutwardCost(r, position)
        quantity == position.quantity + req[r].quantity
        worth    == position.stockValue + value IN
    [req EXCEPT ![r].at = "posting",
        ![r].average = IF inward THEN BlendedAverage(position, quantity, worth)
                                 ELSE AverageAfter(position, quantity, worth),
        ![r].movement = [kind |-> req[r].op, date |-> req[r].date, doc |-> req[r].doc,
                         quantity |-> req[r].quantity, value |-> value,
                         unitCost |-> Divide(Abs(value), Abs(req[r].quantity)),
                         balanceQuantity |-> quantity, balanceValue |-> worth]]

\* The lock is granted; readPosition is the next statement.
RecordMovement(r) ==
    /\ req[r].at = "locking"
    /\ LockFree(r)
    /\ req[r].quantity > 0 \/ OutwardAllowed(r, balance)
    /\ stockLock' = r
    /\ req' = Worked(r, balance, req[r].quantity > 0)
    /\ UNCHANGED <<method, balance, movements, account>>

---------------------------------------------------------------------------
(* The documents that move stock.  Each starts with its checks; what fails *)
(* them leaves nothing behind.                                             *)

Begin(r, op, allowed, doc, date, quantity, cost) ==
    /\ op \in Operations
    /\ req[r].at = "idle"
    /\ IF allowed
       THEN req' = [req EXCEPT ![r] = Asked(op, "locking", doc, date, quantity, cost)]
       ELSE UNCHANGED req
    /\ UNCHANGED <<method, balance, movements, account, stockLock>>

Voided(i) == \E j \in Recorded : movements[j].kind \in Voids /\ movements[j].doc = i
ReturnsOf(i) == {j \in Recorded : /\ movements[j].kind \in {"SALES_RETURN", "PURCHASE_RETURN"}
                                  /\ movements[j].doc = i}
Returned(i) == Abs(TotalQuantity(ReturnsOf(i)))

CreatePurchase(r, bill, date) == Begin(r, "PURCHASE", TRUE, 0, date, bill[1], bill[2])
CreateSale(r, quantity, date) == Begin(r, "SALE", TRUE, 0, date, - quantity, NoCost)

\* voidPurchase takes back what the bill brought in, at what the bill said;
\* voidSale puts back what the sale took, at what it cost.
Voidable(i) == ~ Voided(i) /\ ReturnsOf(i) = {}
VoidPurchase(r, i) ==
    /\ movements[i].kind = "PURCHASE"
    /\ Begin(r, "VOID_PURCHASE", Voidable(i), i, movements[i].date, - movements[i].quantity,
             movements[i].value)
VoidSale(r, i) ==
    /\ movements[i].kind = "SALE"
    /\ Begin(r, "VOID_SALE", Voidable(i), i, movements[i].date, - movements[i].quantity,
             - movements[i].value)

\* A sales return comes back at the rounded unit cost of its line; a purchase
\* return leaves at whatever the method says.
Returnable(i, quantity, date) ==
    /\ ~ Voided(i)
    /\ date >= movements[i].date
    /\ quantity <= Abs(movements[i].quantity) - Returned(i)
CreateSalesReturn(r, i, quantity, date) ==
    /\ movements[i].kind = "SALE"
    /\ Begin(r, "SALES_RETURN", Returnable(i, quantity, date), i, date, quantity,
             quantity * movements[i].unitCost)
CreatePurchaseReturn(r, i, quantity, date) ==
    /\ movements[i].kind = "PURCHASE"
    /\ Begin(r, "PURCHASE_RETURN", Returnable(i, quantity, date), i, date, - quantity, NoCost)

\* The difference from the books is worked out before the lock is taken.
CreateStockAdjustment(r, counted, date) ==
    LET difference == counted - balance.quantity IN
    Begin(r, "COUNT", difference # 0, 0, date, difference,
          IF difference < 0 THEN NoCost
          ELSE difference * (IF balance.averageCost > 0 THEN balance.averageCost ELSE 0))

---------------------------------------------------------------------------
(* The entry and the commit. *)

\* The reversal of a document already reversed collides on reversesId.
EntryAccepted(r) == req[r].op \in Voids => ~ Voided(req[r].doc)

\* What the document's entry moves the Inventory account by: a void reverses
\* the entry of its document, the rest post what the stock ledger moved.
EntryValue(r) == IF req[r].op \in Voids THEN - movements[req[r].doc].value
                                        ELSE req[r].movement.value

Commit(r) ==
    LET m == req[r].movement IN
    /\ req[r].at = "posting"
    /\ EntryAccepted(r)
    /\ Len(movements) < MaxMovements
    /\ balance' = [quantity |-> m.balanceQuantity, averageCost |-> req[r].average,
                   stockValue |-> m.balanceValue]
    /\ movements' = Append(movements, m)
    /\ account' = account + EntryValue(r)
    /\ stockLock' = IF stockLock = r THEN Nobody ELSE stockLock
    /\ req' = [req EXCEPT ![r] = NoJob]
    /\ UNCHANGED method

\* A refused movement or entry, a failure or a timeout.
RollBack(r) ==
    /\ req[r].at # "idle"
    /\ stockLock' = IF stockLock = r THEN Nobody ELSE stockLock
    /\ req' = [req EXCEPT ![r] = NoJob]
    /\ UNCHANGED <<method, balance, movements, account>>

Init ==
    /\ method \in Methods
    /\ balance = [quantity |-> 0, averageCost |-> 0, stockValue |-> 0]
    /\ movements = << >>
    /\ account = 0
    /\ stockLock = Nobody
    /\ req = [r \in Requests |-> NoJob]

StartDocument(r) ==
    \E date \in Dates :
        \/ \E bill \in Bills : CreatePurchase(r, bill, date)
        \/ \E quantity \in Quantities : CreateSale(r, quantity, date)
        \/ \E counted \in Counts : CreateStockAdjustment(r, counted, date)
        \/ \E i \in Recorded, quantity \in Quantities :
              CreateSalesReturn(r, i, quantity, date) \/ CreatePurchaseReturn(r, i, quantity, date)
StartVoid(r) == \E i \in Recorded : VoidPurchase(r, i) \/ VoidSale(r, i)

Next == \E r \in Requests :
            StartDocument(r) \/ StartVoid(r) \/ RecordMovement(r) \/ Commit(r) \/ RollBack(r)

Spec == Init /\ [][Next]_vars

---------------------------------------------------------------------------
(* Properties *)

Movement == [kind : Documents \union Voids \union {"NONE"}, date : Nat, doc : Nat, quantity : Int,
             unitCost : Nat, value : Int, balanceQuantity : Int, balanceValue : Int]
Job == [op : Documents \union Voids \union {"NONE"}, at : {"idle", "locking", "posting"}, doc : Nat,
        date : Nat, quantity : Int, cost : Int, movement : Movement, average : Int]

\* Types; and the stock lock is with the one request that has worked a movement
\* out and not committed it (lockStock).
TypeOK ==
    /\ method \in Methods
    /\ balance \in [quantity : Int, averageCost : Int, stockValue : Int]
    /\ movements \in Seq(Movement)
    /\ account \in Int
    /\ stockLock \in Requests \union {Nobody}
    /\ req \in [Requests -> Job]
    /\ \A r \in Requests : req[r].at = "posting" <=> stockLock = r

\* The three figures reconcileStock compares are one: the cached position, the
\* sum of the movements and the Inventory account.
StockReconciles ==
    /\ balance.quantity = TotalQuantity(Recorded)
    /\ balance.stockValue = TotalValue(Recorded)
    /\ account = balance.stockValue

\* A void leaves the shelf as though its document had never been: the position
\* is what the standing documents put there (voidSale, voidPurchase, "a void
\* says the receipt never happened").
Standing == {i \in Recorded : movements[i].kind \in Documents /\ ~ Voided(i)}
VoidsUndoExactly ==
    /\ balance.quantity = TotalQuantity(Standing)
    /\ balance.stockValue = TotalValue(Standing)

\* Under weighted average no shelf goes below nil, in units or in money,
\* whatever is sold, returned, counted or voided in between (recordOutward).
PooledStockNeverNegative ==
    method = "WEIGHTED_AVERAGE" => balance.quantity >= 0 /\ balance.stockValue >= 0

\* The same of both methods: "Refuses to go negative" (recordOutward).
StockNeverNegative == balance.quantity >= 0 /\ balance.stockValue >= 0

\* The average a stock count values its finds at describes the shelf that is
\* there (recordOutward, blendAverageCost).
AverageDescribesShelf ==
    balance.quantity > 0 => balance.averageCost = Divide(balance.stockValue, balance.quantity)

\* The same, of a ledger whose rows are well formed and whose lock is held by
\* the request that is posting and by no other (lockStock).
ShelfIsDescribed == TypeOK /\ AverageDescribesShelf
=============================================================================
