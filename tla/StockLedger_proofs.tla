------------------------- MODULE StockLedger_proofs -------------------------
(***************************************************************************)
(* The shelf proved: for any number of requests, either valuation method   *)
(* and any bills, quantities and dates, the cached position, the movements *)
(* it is a cache of and the Inventory account agree, and a void undoes its *)
(* document exactly.                                                       *)
(*                                                                         *)
(* None of it is inductive alone.  The step that writes is the commit, and *)
(* what it writes was worked out earlier: the invariant says of a request  *)
(* what it asked of the stock service (Asks, TakesBack) and, once it holds *)
(* the stock lock, that what it worked out is about the shelf that is      *)
(* still there (Works); and of every movement on record that a void names  *)
(* a purchase or a sale on record (RowStands).                             *)
(***************************************************************************)
EXTENDS StockLedger, Sums, SequenceTheorems

\* What a layer holds and costs, and what draining layers works out.
Layer == [quantity : Int, unitCost : Int]
Drained == [outstanding : Int, cost : Int, remaining : Seq(Layer)]

---------------------------------------------------------------------------
(* Arithmetic. *)

\* A product of two figures none of which is below nil is not below it.
LEMMA Times == \A a, b \in Nat : a * b \in Nat
  OBVIOUS

LEMMA TimesInt == \A a, b \in Int : a * b \in Int
  OBVIOUS

LEMMA DivideInt ==
    ASSUME NEW a \in Int, NEW b \in Nat \ {0}
    PROVE  Divide(a, b) \in Int
  BY DEF Divide

LEMMA DivideNat ==
    ASSUME NEW a \in Nat, NEW b \in Nat \ {0}
    PROVE  Divide(a, b) \in Nat
  BY DEF Divide

\* Part of a stock costs no more than the stock.
LEMMA PartOfValue ==
    ASSUME NEW v \in Nat, NEW q \in Nat, NEW n \in Nat \ {0}, q <= n
    PROVE  Divide(v * q, n) \in 0 .. v
  <1>1. v * q \in Nat /\ v * n \in Nat /\ v * q <= v * n
    OBVIOUS
  <1>2. Divide(v * q, n) = (2 * (v * q) + n) \div (2 * n)
    BY <1>1 DEF Divide
  <1> QED
    BY <1>1, <1>2

---------------------------------------------------------------------------
(* First in, first out: what consume works out is a figure, whatever was    *)
(* bought and sold before.                                                 *)

LEMMA DrainLayerType ==
    ASSUME NEW acc \in Drained, NEW layer \in Layer
    PROVE  DrainLayer(acc, layer) \in Drained
  <1> DEFINE taken == Smaller(layer.quantity, acc.outstanding)
             left  == layer.quantity - taken
  <1>1. taken \in Int /\ left \in Int /\ layer.unitCost \in Int /\ acc.outstanding \in Int
        /\ acc.cost \in Int
    BY DEF Layer, Drained, Smaller
  <1>2. [layer EXCEPT !.quantity = left] \in Layer /\ acc.remaining \in Seq(Layer)
    BY <1>1 DEF Layer, Drained
  <1>3. Append(acc.remaining, [layer EXCEPT !.quantity = left]) \in Seq(Layer)
    BY <1>2, AppendProperties
  <1>4. taken * layer.unitCost \in Int
    BY <1>1, TimesInt
  <1> QED
    BY <1>1, <1>2, <1>3, <1>4 DEF DrainLayer, Drained

LEMMA DrainType ==
    ASSUME NEW layers \in Seq(Layer), NEW quantity \in Int
    PROVE  Drain(layers, quantity) \in Drained
  <1> DEFINE N     == Len(layers)
             start == [outstanding |-> quantity, cost |-> 0, remaining |-> << >>]
             Step(acc, n) == DrainLayer(acc, layers[n])
             Works(g) == g = [n \in 0 .. N |-> IF n = 0 THEN start ELSE Step(g[n - 1], n)]
             step  == [n \in 1 .. N |-> [acc \in Drained |-> Step(acc, n)]]
             after == CHOOSE g : Works(g)
  <1>1. N \in Nat /\ start \in Drained
    BY DEF Drained
  <1>2. \A n \in 1 .. N, acc \in Drained : Step(acc, n) \in Drained
    BY DrainLayerType
  <1>3. Drain(layers, quantity) = after[N]
    BY DEF Drain
  <1> HIDE DEF N, start, Step
  <1>4. step \in [1 .. N -> [Drained -> Drained]]
    BY <1>2
  <1>5. PICK g : Runs(g, N, Drained, start, step)
    <2> HIDE DEF step
    <2> QED
      BY <1>1, <1>4, StepsExist
  <1>6. g \in [0 .. N -> Drained] /\ g[0] = start
    BY <1>5 DEF Runs
  <1>7. ASSUME NEW n \in 1 .. N PROVE g[n] = Step(g[n - 1], n)
    <2> DEFINE before == g[n - 1]
    <2>1. before \in Drained
      BY <1>1, <1>6
    <2>2. g[n] = step[n][before]
      BY <1>5 DEF Runs
    <2> HIDE DEF before
    <2>3. step[n][before] = Step(before, n)
      BY <2>1
    <2> HIDE DEF step
    <2> QED
      BY <2>2, <2>3 DEF before
  <1>8. Works(after)
    <2>1. Works(g)
      BY <1>1, <1>6, <1>7
    <2> QED
      BY <2>1
  <1> HIDE DEF after
  <1>9. after[0] \in Drained /\ \A n \in 1 .. N : after[n] = Step(after[n - 1], n)
    BY <1>1, <1>8
  <1>10. \A n \in 1 .. N : after[n - 1] \in Drained => after[n] \in Drained
    BY <1>2, <1>9
  <1>11. \A n \in 0 .. N : after[n] \in Drained
    BY <1>1, <1>9, <1>10, StepsStay
  <1> QED
    BY <1>1, <1>3, <1>11

LEMMA ReplayMovementType ==
    ASSUME NEW layers \in Seq(Layer), NEW m \in Movement
    PROVE  ReplayMovement(layers, m) \in Seq(Layer)
  <1>1. m.quantity \in Int /\ m.unitCost \in Int
    BY DEF Movement
  <1>2. [quantity |-> m.quantity, unitCost |-> m.unitCost] \in Layer
    BY <1>1 DEF Layer
  <1>3. Append(layers, [quantity |-> m.quantity, unitCost |-> m.unitCost]) \in Seq(Layer)
    BY <1>2, AppendProperties
  <1>4. Drain(layers, - m.quantity).remaining \in Seq(Layer)
    <2>1. Drain(layers, - m.quantity) \in Drained
      BY <1>1, DrainType
    <2> QED
      BY <2>1 DEF Drained
  <1> QED
    BY <1>3, <1>4 DEF ReplayMovement

LEMMA ReplayDayType ==
    ASSUME movements \in Seq(Movement), NEW layers \in Seq(Layer), NEW day
    PROVE  ReplayDay(layers, day) \in Seq(Layer)
  <1> DEFINE N     == Len(movements)
             start == layers
             Step(acc, n) == IF movements[n].date # day THEN acc
                             ELSE ReplayMovement(acc, movements[n])
             Works(g) == g = [n \in 0 .. N |-> IF n = 0 THEN start ELSE Step(g[n - 1], n)]
             step  == [n \in 1 .. N |-> [acc \in Seq(Layer) |-> Step(acc, n)]]
             after == CHOOSE g : Works(g)
  <1>1. N \in Nat /\ start \in Seq(Layer)
    OBVIOUS
  <1>2. \A n \in 1 .. N, acc \in Seq(Layer) : Step(acc, n) \in Seq(Layer)
    BY ReplayMovementType
  <1>3. ReplayDay(layers, day) = after[N]
    BY DEF ReplayDay
  <1> HIDE DEF N, start, Step
  <1>4. step \in [1 .. N -> [Seq(Layer) -> Seq(Layer)]]
    BY <1>2
  <1>5. PICK g : Runs(g, N, Seq(Layer), start, step)
    <2> HIDE DEF step
    <2> QED
      BY <1>1, <1>4, StepsExist
  <1>6. g \in [0 .. N -> Seq(Layer)] /\ g[0] = start
    BY <1>5 DEF Runs
  <1>7. ASSUME NEW n \in 1 .. N PROVE g[n] = Step(g[n - 1], n)
    <2> DEFINE before == g[n - 1]
    <2>1. before \in Seq(Layer)
      BY <1>1, <1>6
    <2>2. g[n] = step[n][before]
      BY <1>5 DEF Runs
    <2> HIDE DEF before
    <2>3. step[n][before] = Step(before, n)
      BY <2>1
    <2> HIDE DEF step
    <2> QED
      BY <2>2, <2>3 DEF before
  <1>8. Works(after)
    <2>1. Works(g)
      BY <1>1, <1>6, <1>7
    <2> QED
      BY <2>1
  <1> HIDE DEF after
  <1>9. after[0] \in Seq(Layer) /\ \A n \in 1 .. N : after[n] = Step(after[n - 1], n)
    BY <1>1, <1>8
  <1>10. \A n \in 1 .. N : after[n - 1] \in Seq(Layer) => after[n] \in Seq(Layer)
    BY <1>2, <1>9
  <1>11. \A n \in 0 .. N : after[n] \in Seq(Layer)
    BY <1>1, <1>9, <1>10, StepsStay
  <1> QED
    BY <1>1, <1>3, <1>11

LEMMA RebuildLayersType ==
    ASSUME movements \in Seq(Movement)
    PROVE  RebuildLayers \in Seq(Layer)
  <1> DEFINE N     == LastDate
             start == << >>
             Step(acc, n) == ReplayDay(acc, n)
             Works(g) == g = [n \in 0 .. N |-> IF n = 0 THEN start ELSE Step(g[n - 1], n)]
             step  == [n \in 1 .. N |-> [acc \in Seq(Layer) |-> Step(acc, n)]]
             after == CHOOSE g : Works(g)
  <1>1. N \in Nat /\ start \in Seq(Layer)
    BY SizesAssumption
  <1>2. \A n \in 1 .. N, acc \in Seq(Layer) : Step(acc, n) \in Seq(Layer)
    BY ReplayDayType
  <1>3. RebuildLayers = after[N]
    BY DEF RebuildLayers
  <1> HIDE DEF N, start, Step
  <1>4. step \in [1 .. N -> [Seq(Layer) -> Seq(Layer)]]
    BY <1>2
  <1>5. PICK g : Runs(g, N, Seq(Layer), start, step)
    <2> HIDE DEF step
    <2> QED
      BY <1>1, <1>4, StepsExist
  <1>6. g \in [0 .. N -> Seq(Layer)] /\ g[0] = start
    BY <1>5 DEF Runs
  <1>7. ASSUME NEW n \in 1 .. N PROVE g[n] = Step(g[n - 1], n)
    <2> DEFINE before == g[n - 1]
    <2>1. before \in Seq(Layer)
      BY <1>1, <1>6
    <2>2. g[n] = step[n][before]
      BY <1>5 DEF Runs
    <2> HIDE DEF before
    <2>3. step[n][before] = Step(before, n)
      BY <2>1
    <2> HIDE DEF step
    <2> QED
      BY <2>2, <2>3 DEF before
  <1>8. Works(after)
    <2>1. Works(g)
      BY <1>1, <1>6, <1>7
    <2> QED
      BY <2>1
  <1> HIDE DEF after
  <1>9. after[0] \in Seq(Layer) /\ \A n \in 1 .. N : after[n] = Step(after[n - 1], n)
    BY <1>1, <1>8
  <1>10. \A n \in 1 .. N : after[n - 1] \in Seq(Layer) => after[n] \in Seq(Layer)
    BY <1>2, <1>9
  <1>11. \A n \in 0 .. N : after[n] \in Seq(Layer)
    BY <1>1, <1>9, <1>10, StepsStay
  <1> QED
    BY <1>1, <1>3, <1>11

LEMMA ConsumeFifoType ==
    ASSUME movements \in Seq(Movement), NEW quantity \in Int
    PROVE  ConsumeFifo(quantity) \in Int
  BY RebuildLayersType, DrainType DEF ConsumeFifo, Drained

---------------------------------------------------------------------------
(* The inductive invariant: what a request asks of the stock service, what  *)
(* it has worked out under the stock lock, and what is on record.          *)

Pooled == method = "WEIGHTED_AVERAGE"

\* What a handler asks: so many units in, at a cost, or out, at the method's.
Asks(j) ==
    /\ j.op \in Documents \union Voids /\ j.quantity # 0
    /\ j.quantity < 0 => j.cost \in Nat \union {NoCost}
    /\ j.op = "PURCHASE" => j.quantity > 0 /\ j.cost \in Nat
    /\ j.op = "SALE" => j.quantity < 0 /\ j.cost = NoCost
    /\ Pooled /\ j.quantity > 0 => j.cost >= 0

\* A void asks for the mirror image of its document.
Mirrors(j, kind, cost) ==
    /\ j.doc \in Recorded /\ movements[j.doc].kind = kind
    /\ j.quantity = - movements[j.doc].quantity /\ j.cost = cost
TakesBack(j) ==
    /\ j.op = "VOID_PURCHASE" => Mirrors(j, "PURCHASE", movements[j.doc].value)
    /\ j.op = "VOID_SALE"     => Mirrors(j, "SALE", - movements[j.doc].value)

\* A movement fit to be recorded.
Fit(m) ==
    /\ m.kind = "PURCHASE" => m.quantity > 0 /\ m.value \in Nat
    /\ m.kind = "SALE"     => m.quantity < 0 /\ (Pooled => m.value <= 0)

\* What was worked out under the lock is about the shelf that is still there.
Works(j) ==
    LET m == j.movement IN
    /\ m.kind = j.op /\ m.doc = j.doc /\ m.quantity = j.quantity
    /\ m.balanceQuantity = balance.quantity + m.quantity
    /\ m.balanceValue = balance.stockValue + m.value
    /\ j.op \in Voids => m.value = - movements[j.doc].value
    /\ Fit(m)
    /\ m.balanceQuantity > 0 => j.average = Divide(m.balanceValue, m.balanceQuantity)
    /\ Pooled => m.balanceQuantity >= 0 /\ m.balanceValue >= 0

JobStands(j) ==
    /\ j.at # "idle"   => Asks(j) /\ TakesBack(j)
    /\ j.at = "posting" => Works(j)

RowStands(m) ==
    /\ Fit(m)
    /\ m.kind \in Voids => m.doc \in Recorded /\ movements[m.doc].kind \in {"PURCHASE", "SALE"}

ShelfStands ==
    /\ StockReconciles /\ VoidsUndoExactly /\ PooledStockNeverNegative /\ AverageDescribesShelf
    /\ \A i \in Recorded : RowStands(movements[i])

IInv == TypeOK /\ ShelfStands /\ \A r \in Requests : JobStands(req[r])

---------------------------------------------------------------------------
(* The sums, one movement later. *)

Figures ==
    /\ movements \in Seq(Movement)
    /\ IsFiniteSet(Recorded)
    /\ \A i \in Recorded : movements[i].quantity \in Int /\ movements[i].value \in Int

LEMMA AreFigures == ASSUME movements \in Seq(Movement) PROVE Figures
  <1>1. Len(movements) \in Nat
    OBVIOUS
  <1>2. IsFiniteSet(Recorded)
    BY <1>1, FS_Interval DEF Recorded
  <1>3. \A i \in Recorded : movements[i] \in Movement
    BY DEF Recorded
  <1> QED
    BY <1>2, <1>3 DEF Figures, Movement

\* A total over some movements without one of them.
LEMMA TotalWithout ==
    ASSUME Figures, NEW S \in SUBSET Recorded, NEW i \in S
    PROVE  /\ TotalQuantity(S \ {i}) = TotalQuantity(S) - movements[i].quantity
           /\ TotalValue(S \ {i}) = TotalValue(S) - movements[i].value
           /\ TotalQuantity(S) \in Int /\ TotalValue(S) \in Int
  <1> DEFINE q == [k \in Recorded |-> movements[k].quantity]
             v == [k \in Recorded |-> movements[k].value]
  <1>1. IsFiniteSet(S) /\ IsFiniteSet(S \ {i})
    BY FS_Subset DEF Figures
  <1>2. \A k \in S : q[k] \in Int /\ v[k] \in Int
    BY DEF Figures
  <1>3. q[i] = movements[i].quantity /\ v[i] = movements[i].value
    OBVIOUS
  <1> HIDE DEF q, v
  <1>4. /\ SumFunctionOnSet(q, S) = q[i] + SumFunctionOnSet(q, S \ {i})
        /\ SumFunctionOnSet(v, S) = v[i] + SumFunctionOnSet(v, S \ {i})
    BY <1>1, <1>2, SumWithout
  <1>5. /\ SumFunctionOnSet(q, S) \in Int /\ SumFunctionOnSet(q, S \ {i}) \in Int
        /\ SumFunctionOnSet(v, S) \in Int /\ SumFunctionOnSet(v, S \ {i}) \in Int
    BY <1>1, <1>2, SumInt
  <1>6. q[i] \in Int /\ v[i] \in Int
    BY <1>2
  <1>7. /\ SumFunctionOnSet(q, S \ {i}) = SumFunctionOnSet(q, S) - q[i]
        /\ SumFunctionOnSet(v, S \ {i}) = SumFunctionOnSet(v, S) - v[i]
    BY <1>4, <1>5, <1>6
  <1> QED
    BY <1>3, <1>5, <1>7 DEF TotalQuantity, TotalValue, q, v

\* The same movements add up to the same once another has been recorded, and
\* with it to what it moved more.
LEMMA TotalAfter ==
    ASSUME Figures, NEW m \in Movement, movements' = Append(movements, m),
           NEW n \in Nat, n = Len(movements) + 1, NEW S \in SUBSET Recorded
    PROVE  /\ TotalQuantity(S)' = TotalQuantity(S) /\ TotalValue(S)' = TotalValue(S)
           /\ TotalQuantity(S \union {n})' = TotalQuantity(S) + m.quantity
           /\ TotalValue(S \union {n})' = TotalValue(S) + m.value
  <1> DEFINE q  == [k \in Recorded |-> movements[k].quantity]
             v  == [k \in Recorded |-> movements[k].value]
             q2 == [k \in 1 .. n |-> movements'[k].quantity]
             v2 == [k \in 1 .. n |-> movements'[k].value]
  <1>1. IsFiniteSet(S)
    BY FS_Subset DEF Figures
  <1>2. Len(movements) \in Nat /\ Len(movements') = n /\ movements'[n] = m
        /\ \A k \in Recorded : movements'[k] = movements[k]
    BY AppendProperties DEF Figures, Recorded
  <1>3. n \notin S /\ Recorded \subseteq 1 .. n /\ n \in 1 .. n
    BY <1>2 DEF Recorded
  <1>4. \A k \in S : /\ q[k] \in Int /\ v[k] \in Int
                     /\ q2[k] = q[k] /\ v2[k] = v[k]
    BY <1>2, <1>3 DEF Figures
  <1>5. q2[n] = m.quantity /\ v2[n] = m.value /\ m.quantity \in Int /\ m.value \in Int
    BY <1>2, <1>3 DEF Movement
  <1>6. \A T : /\ TotalQuantity(T)' = SumFunctionOnSet(q2, T)
              /\ TotalValue(T)' = SumFunctionOnSet(v2, T)
    BY <1>2 DEF TotalQuantity, TotalValue, Recorded
  <1>7. TotalQuantity(S) = SumFunctionOnSet(q, S) /\ TotalValue(S) = SumFunctionOnSet(v, S)
    BY DEF TotalQuantity, TotalValue
  <1> HIDE DEF q, v, q2, v2
  <1>8. /\ SumFunctionOnSet(q2, S) = SumFunctionOnSet(q, S)
        /\ SumFunctionOnSet(v2, S) = SumFunctionOnSet(v, S)
    BY <1>1, <1>4, SumSame
  <1>9. SumFunctionOnSet(q2, S \union {n}) = SumFunctionOnSet(q, S) + q2[n]
    <2>1. n \notin S /\ q2[n] \in Int /\ \A k \in S : q[k] \in Int /\ q2[k] = q[k]
      BY <1>3, <1>4, <1>5
    <2> QED
      BY <1>1, <2>1, SumGrows
  <1>10. SumFunctionOnSet(v2, S \union {n}) = SumFunctionOnSet(v, S) + v2[n]
    <2>1. n \notin S /\ v2[n] \in Int /\ \A k \in S : v[k] \in Int /\ v2[k] = v[k]
      BY <1>3, <1>4, <1>5
    <2> QED
      BY <1>1, <2>1, SumGrows
  <1>11. TotalQuantity(S)' = TotalQuantity(S) /\ TotalValue(S)' = TotalValue(S)
    BY <1>6, <1>7, <1>8
  <1>12. /\ TotalQuantity(S \union {n})' = TotalQuantity(S) + m.quantity
         /\ TotalValue(S \union {n})' = TotalValue(S) + m.value
    <2>1. /\ TotalQuantity(S \union {n})' = SumFunctionOnSet(q2, S \union {n})
          /\ TotalValue(S \union {n})' = SumFunctionOnSet(v2, S \union {n})
      BY <1>6
    <2> QED
      BY <2>1, <1>5, <1>7, <1>9, <1>10
  <1> QED
    BY <1>11, <1>12

---------------------------------------------------------------------------
(* Steps that touch one request and leave the shelf alone. *)

Shelf == <<method, balance, movements, account>>

LEMMA ShelfKept ==
    ASSUME ShelfStands, UNCHANGED Shelf
    PROVE  ShelfStands'
  <1>1. Recorded' = Recorded /\ Standing' = Standing
    BY DEF Shelf, Recorded, Standing, Voided
  <1>2. /\ \A S : TotalQuantity(S)' = TotalQuantity(S)
        /\ \A S : TotalValue(S)' = TotalValue(S)
    BY <1>1 DEF Shelf, TotalQuantity, TotalValue
  <1>3. StockReconciles' /\ VoidsUndoExactly'
    BY <1>1, <1>2 DEF ShelfStands, StockReconciles, VoidsUndoExactly, Shelf
  <1>4. PooledStockNeverNegative' /\ AverageDescribesShelf'
    BY DEF ShelfStands, PooledStockNeverNegative, AverageDescribesShelf, Shelf
  <1>5. \A i \in Recorded' : RowStands(movements[i])'
    BY <1>1 DEF ShelfStands, RowStands, Fit, Pooled, Shelf
  <1> QED
    BY <1>3, <1>4, <1>5 DEF ShelfStands

LEMMA JobKept ==
    ASSUME UNCHANGED Shelf, NEW j
    PROVE  JobStands(j)' = JobStands(j)
  BY DEF Shelf, JobStands, Asks, TakesBack, Mirrors, Works, Fit, Pooled, Recorded

LEMMA OneJob ==
    ASSUME IInv, UNCHANGED Shelf,
           NEW r \in Requests, NEW j \in Job, JobStands(j), req' = [req EXCEPT ![r] = j],
           stockLock' \in Requests \union {Nobody},
           j.at = "posting" <=> stockLock' = r,
           \A u \in Requests \ {r} : stockLock' = u <=> stockLock = u
    PROVE  IInv'
  <1>1. /\ req' \in [Requests -> Job] /\ req'[r] = j
        /\ \A u \in Requests \ {r} : req'[u] = req[u]
    BY DEF IInv, TypeOK
  <1>2. TypeOK'
    <2>1. \A u \in Requests : req'[u].at = "posting" <=> stockLock' = u
      BY <1>1 DEF IInv, TypeOK
    <2> QED
      BY <1>1, <2>1 DEF IInv, TypeOK, Shelf
  <1>3. ShelfStands'
    BY ShelfKept DEF IInv
  <1>4. ASSUME NEW u \in Requests PROVE JobStands(req[u])'
    <2>1. PICK k : k = req'[u]
      OBVIOUS
    <2>2. JobStands(k)
      BY <1>1, <2>1 DEF IInv
    <2>3. JobStands(k)'
      BY <2>2, JobKept
    <2> QED
      BY <2>1, <2>3 DEF JobStands, Asks, TakesBack, Mirrors, Works, Fit
  <1> QED
    BY <1>2, <1>3, <1>4 DEF IInv

---------------------------------------------------------------------------
(* One lemma per step. *)

Started(op, doc, date, quantity, cost) == Asked(op, "locking", doc, date, quantity, cost)

LEMMA StartedType ==
    ASSUME NEW op \in Documents \union Voids, NEW doc \in Nat, NEW date \in Nat,
           NEW quantity \in Int, NEW cost \in Int
    PROVE  /\ Started(op, doc, date, quantity, cost) \in Job
           /\ Started(op, doc, date, quantity, cost).at = "locking"
           /\ Started(op, doc, date, quantity, cost).op = op
           /\ Started(op, doc, date, quantity, cost).doc = doc
           /\ Started(op, doc, date, quantity, cost).quantity = quantity
           /\ Started(op, doc, date, quantity, cost).cost = cost
  <1> DEFINE j == Started(op, doc, date, quantity, cost)
  <1>1. NoMovement \in Movement
    BY DEF NoMovement, Movement
  <1>2. j = [op |-> op, at |-> "locking", doc |-> doc, date |-> date, quantity |-> quantity,
             cost |-> cost, movement |-> NoMovement, average |-> 0]
    BY DEF Started, Asked
  <1> HIDE DEF j
  <1>3. j \in Job
    BY <1>1, <1>2 DEF Job
  <1> QED
    BY <1>2, <1>3 DEF j

\* A handler that asks for what it may leaves the invariant standing.
LEMMA BeginKeeps ==
    ASSUME IInv, NEW r \in Requests, NEW op \in Documents \union Voids, NEW doc \in Nat,
           NEW date \in Nat, NEW quantity \in Int, NEW cost \in Int, NEW allowed,
           Begin(r, op, allowed, doc, date, quantity, cost),
           allowed => LET j == Started(op, doc, date, quantity, cost) IN Asks(j) /\ TakesBack(j)
    PROVE  IInv'
  <1> DEFINE j == Started(op, doc, date, quantity, cost)
  <1>1. UNCHANGED Shelf /\ UNCHANGED stockLock
    BY DEF Begin, Shelf
  <1>2. CASE allowed
    <2>1. req' = [req EXCEPT ![r] = j]
      BY <1>2 DEF Begin, Started
    <2>2. j \in Job /\ j.at = "locking"
      BY StartedType
    <2>3. Asks(j) /\ TakesBack(j)
      BY <1>2
    <2> HIDE DEF j
    <2>4. JobStands(j)
      BY <2>2, <2>3 DEF JobStands
    <2>5. stockLock # r
      BY DEF IInv, TypeOK, Begin
    <2>6. stockLock' \in Requests \union {Nobody} /\ (j.at = "posting" <=> stockLock' = r)
      BY <1>1, <2>2, <2>5 DEF IInv, TypeOK
    <2> QED
      BY <1>1, <2>1, <2>2, <2>4, <2>6, OneJob
  <1>3. CASE ~ allowed
    <2>1. UNCHANGED req
      BY <1>3 DEF Begin
    <2>2. TypeOK'
      BY <1>1, <2>1 DEF Shelf, IInv, TypeOK
    <2>3. ShelfStands'
      BY <1>1, ShelfKept DEF IInv
    <2>4. ASSUME NEW u \in Requests PROVE JobStands(req[u])'
      <3>1. PICK k : k = req[u]
        OBVIOUS
      <3>2. JobStands(k)'
        BY <1>1, <3>1, JobKept DEF IInv
      <3> QED
        BY <2>1, <3>1, <3>2 DEF JobStands, Asks, TakesBack, Mirrors, Works, Fit
    <2> QED
      BY <2>2, <2>3, <2>4 DEF IInv
  <1> QED
    BY <1>2, <1>3

LEMMA RowType ==
    ASSUME IInv, NEW i \in Recorded
    PROVE  /\ movements[i] \in Movement /\ i \in Nat
           /\ movements[i].quantity \in Int /\ movements[i].value \in Int
           /\ movements[i].unitCost \in Nat /\ movements[i].date \in Nat
           /\ RowStands(movements[i])
  <1>1. movements \in Seq(Movement)
    BY DEF IInv, TypeOK
  <1>2. movements[i] \in Movement /\ i \in Nat
    BY <1>1 DEF Recorded
  <1> QED
    BY <1>2 DEF Movement, IInv, ShelfStands

LEMMA PurchaseKeeps ==
    ASSUME IInv, NEW r \in Requests, NEW bill \in Bills, NEW date \in Dates,
           CreatePurchase(r, bill, date)
    PROVE  IInv'
  <1> DEFINE j == Started("PURCHASE", 0, date, bill[1], bill[2])
  <1>1. bill[1] \in Nat \ {0} /\ bill[2] \in Nat /\ date \in Nat
    BY SizesAssumption DEF Dates
  <1>2. "PURCHASE" \in Documents \union Voids
    BY DEF Documents
  <1>3. Begin(r, "PURCHASE", TRUE, 0, date, bill[1], bill[2])
    BY DEF CreatePurchase
  <1>4. j.op = "PURCHASE" /\ j.quantity = bill[1] /\ j.cost = bill[2]
    BY <1>1, <1>2, StartedType
  <1>5. Asks(j) /\ TakesBack(j)
    BY <1>1, <1>2, <1>4 DEF Asks, TakesBack
  <1>6. bill[1] \in Int /\ bill[2] \in Int
    BY <1>1
  <1> QED
    BY <1>1, <1>2, <1>3, <1>5, <1>6, BeginKeeps

LEMMA SaleKeeps ==
    ASSUME IInv, NEW r \in Requests, NEW quantity \in Quantities, NEW date \in Dates,
           CreateSale(r, quantity, date)
    PROVE  IInv'
  <1> DEFINE j == Started("SALE", 0, date, - quantity, NoCost)
  <1>1. quantity \in Nat \ {0} /\ - quantity \in Int /\ date \in Nat /\ NoCost \in Int
    BY SizesAssumption DEF Dates, NoCost
  <1>2. "SALE" \in Documents \union Voids
    BY DEF Documents
  <1>3. j.op = "SALE" /\ j.quantity = - quantity /\ j.cost = NoCost
    BY <1>1, <1>2, StartedType
  <1>4. Asks(j) /\ TakesBack(j)
    BY <1>1, <1>2, <1>3 DEF Asks, TakesBack
  <1>5. Begin(r, "SALE", TRUE, 0, date, - quantity, NoCost)
    BY DEF CreateSale
  <1> QED
    BY <1>1, <1>2, <1>4, <1>5, BeginKeeps

LEMMA VoidPurchaseKeeps ==
    ASSUME IInv, NEW r \in Requests, NEW i \in Recorded, VoidPurchase(r, i)
    PROVE  IInv'
  <1> DEFINE m == movements[i]
             j == Started("VOID_PURCHASE", i, m.date, - m.quantity, m.value)
  <1>1. /\ i \in Nat /\ m.quantity \in Int /\ m.value \in Int /\ m.date \in Nat
        /\ m.kind = "PURCHASE" /\ m.quantity > 0 /\ m.value \in Nat /\ - m.quantity \in Int
    BY RowType DEF RowStands, Fit, VoidPurchase
  <1>2. "VOID_PURCHASE" \in Documents \union Voids
    BY DEF Voids
  <1>3. /\ j.op = "VOID_PURCHASE" /\ j.doc = i /\ j.quantity = - m.quantity /\ j.cost = m.value
    BY <1>1, <1>2, StartedType
  <1> HIDE DEF j
  <1>4. Asks(j) /\ TakesBack(j)
    BY <1>1, <1>2, <1>3 DEF Asks, TakesBack, Mirrors
  <1>5. Begin(r, "VOID_PURCHASE", Voidable(i), i, m.date, - m.quantity, m.value)
    BY DEF VoidPurchase
  <1> QED
    BY <1>1, <1>2, <1>4, <1>5, BeginKeeps DEF j

LEMMA VoidSaleKeeps ==
    ASSUME IInv, NEW r \in Requests, NEW i \in Recorded, VoidSale(r, i)
    PROVE  IInv'
  <1> DEFINE m == movements[i]
             j == Started("VOID_SALE", i, m.date, - m.quantity, - m.value)
  <1>1. /\ i \in Nat /\ m.quantity \in Int /\ m.value \in Int /\ m.date \in Nat
        /\ m.kind = "SALE" /\ m.quantity < 0 /\ - m.quantity \in Int /\ - m.value \in Int
        /\ Pooled => m.value <= 0
    BY RowType DEF RowStands, Fit, VoidSale
  <1>2. "VOID_SALE" \in Documents \union Voids
    BY DEF Voids
  <1>3. /\ j.op = "VOID_SALE" /\ j.doc = i /\ j.quantity = - m.quantity /\ j.cost = - m.value
    BY <1>1, <1>2, StartedType
  <1> HIDE DEF j
  <1>4. Asks(j) /\ TakesBack(j)
    BY <1>1, <1>2, <1>3 DEF Asks, TakesBack, Mirrors
  <1>5. Begin(r, "VOID_SALE", Voidable(i), i, m.date, - m.quantity, - m.value)
    BY DEF VoidSale
  <1> QED
    BY <1>1, <1>2, <1>4, <1>5, BeginKeeps DEF j

LEMMA SalesReturnKeeps ==
    ASSUME IInv, NEW r \in Requests, NEW i \in Recorded, NEW quantity \in Quantities,
           NEW date \in Dates, CreateSalesReturn(r, i, quantity, date)
    PROVE  IInv'
  <1> DEFINE cost == quantity * movements[i].unitCost
             j == Started("SALES_RETURN", i, date, quantity, cost)
  <1>1. quantity \in Nat \ {0} /\ date \in Nat /\ i \in Nat /\ movements[i].unitCost \in Nat
    BY SizesAssumption, RowType DEF Dates
  <1>2. cost \in Nat
    BY <1>1, Times
  <1>3. "SALES_RETURN" \in Documents \union Voids
    BY DEF Documents
  <1>4. Begin(r, "SALES_RETURN", Returnable(i, quantity, date), i, date, quantity, cost)
    BY DEF CreateSalesReturn
  <1> HIDE DEF cost
  <1>5. j.op = "SALES_RETURN" /\ j.quantity = quantity /\ j.cost = cost
    BY <1>1, <1>2, <1>3, StartedType
  <1>6. Asks(j) /\ TakesBack(j)
    BY <1>1, <1>2, <1>3, <1>5 DEF Asks, TakesBack
  <1>7. quantity \in Int /\ cost \in Int
    BY <1>1, <1>2
  <1> QED
    BY <1>1, <1>3, <1>4, <1>6, <1>7, BeginKeeps

LEMMA PurchaseReturnKeeps ==
    ASSUME IInv, NEW r \in Requests, NEW i \in Recorded, NEW quantity \in Quantities,
           NEW date \in Dates, CreatePurchaseReturn(r, i, quantity, date)
    PROVE  IInv'
  <1> DEFINE j == Started("PURCHASE_RETURN", i, date, - quantity, NoCost)
  <1>1. /\ quantity \in Nat \ {0} /\ - quantity \in Int /\ date \in Nat /\ i \in Nat
        /\ NoCost \in Int
    BY SizesAssumption, RowType DEF Dates, NoCost
  <1>2. "PURCHASE_RETURN" \in Documents \union Voids
    BY DEF Documents
  <1>3. Begin(r, "PURCHASE_RETURN", Returnable(i, quantity, date), i, date, - quantity, NoCost)
    BY DEF CreatePurchaseReturn
  <1>4. j.op = "PURCHASE_RETURN" /\ j.quantity = - quantity /\ j.cost = NoCost
    BY <1>1, <1>2, StartedType
  <1>5. Asks(j) /\ TakesBack(j)
    BY <1>1, <1>2, <1>4 DEF Asks, TakesBack
  <1> QED
    BY <1>1, <1>2, <1>3, <1>5, BeginKeeps

LEMMA AdjustmentKeeps ==
    ASSUME IInv, NEW r \in Requests, NEW counted \in Counts, NEW date \in Dates,
           CreateStockAdjustment(r, counted, date)
    PROVE  IInv'
  <1> DEFINE difference == counted - balance.quantity
             each == IF balance.averageCost > 0 THEN balance.averageCost ELSE 0
             cost == IF difference < 0 THEN NoCost ELSE difference * each
             j == Started("COUNT", 0, date, difference, cost)
  <1>1. /\ difference \in Int /\ date \in Nat /\ each \in Nat /\ NoCost \in Int
    BY SizesAssumption DEF Dates, IInv, TypeOK, NoCost
  <1>2. Begin(r, "COUNT", difference # 0, 0, date, difference, cost)
    BY DEF CreateStockAdjustment
  <1> HIDE DEF difference, each
  <1>3. cost \in Int /\ (difference < 0 => cost = NoCost) /\ (difference > 0 => cost >= 0)
    <2>1. CASE difference < 0
      BY <1>1, <2>1
    <2>2. CASE ~ (difference < 0)
      <3>1. difference \in Nat /\ cost = difference * each
        BY <1>1, <2>2
      <3>2. cost \in Nat
        BY <1>1, <3>1, Times
      <3> QED
        BY <1>1, <2>2, <3>2
    <2> QED
      BY <2>1, <2>2
  <1>4. "COUNT" \in Documents \union Voids
    BY DEF Documents
  <1> HIDE DEF cost
  <1>5. j.op = "COUNT" /\ j.quantity = difference /\ j.cost = cost
    BY <1>1, <1>3, <1>4, StartedType
  <1>6. difference # 0 => Asks(j) /\ TakesBack(j)
    BY <1>1, <1>3, <1>4, <1>5 DEF Asks, TakesBack
  <1> QED
    BY <1>1, <1>2, <1>3, <1>4, <1>6, BeginKeeps

WorkedOut(job, average, m) ==
    [job EXCEPT !.at = "posting", !.average = average, !.movement = m]

LEMMA WorkedJob ==
    ASSUME NEW job \in Job, NEW average \in Int, NEW m \in Movement
    PROVE  LET j == WorkedOut(job, average, m) IN
           /\ j \in Job /\ j.at = "posting" /\ j.average = average /\ j.movement = m
           /\ j.op = job.op /\ j.doc = job.doc /\ j.quantity = job.quantity /\ j.cost = job.cost
  <1> DEFINE j == WorkedOut(job, average, m)
  <1>1. /\ j.at = "posting" /\ j.average = average /\ j.movement = m
        /\ j.op = job.op /\ j.doc = job.doc /\ j.quantity = job.quantity /\ j.cost = job.cost
    BY DEF Job, WorkedOut
  <1>2. j \in Job
    BY DEF Job, WorkedOut
  <1> QED
    BY <1>1, <1>2

\* What leaves is valued at a figure, and of a pooled shelf at no more than it
\* is worth.
LEMMA OutwardFigure ==
    ASSUME IInv, NEW r \in Requests, req[r].at = "locking", req[r].quantity < 0,
           OutwardAllowed(r, balance)
    PROVE  /\ OutwardCost(r, balance) \in Int
           /\ req[r].op = "VOID_PURCHASE" => OutwardCost(r, balance) = req[r].cost
           /\ Pooled => /\ balance.quantity + req[r].quantity >= 0
                        /\ OutwardCost(r, balance) \in 0 .. balance.stockValue
  <1> DEFINE quantity == Abs(req[r].quantity)
  <1>1. /\ req[r].quantity \in Int /\ req[r].cost \in Int /\ req[r].cost \in Nat \union {NoCost}
        /\ Asks(req[r]) /\ TakesBack(req[r])
    BY DEF IInv, TypeOK, Job, JobStands, Asks
  <1>2. quantity \in Nat \ {0} /\ quantity = - req[r].quantity
    BY <1>1 DEF Abs
  <1>3. /\ balance.quantity \in Int /\ balance.stockValue \in Int
        /\ Pooled => balance.quantity >= 0 /\ balance.stockValue >= 0
    BY DEF IInv, TypeOK, ShelfStands, PooledStockNeverNegative, Pooled
  <1>4. Pooled => quantity <= balance.quantity
    BY DEF OutwardAllowed, Available, Pooled
  <1>5. req[r].op = "VOID_PURCHASE" => req[r].cost # NoCost
    <2> SUFFICES ASSUME req[r].op = "VOID_PURCHASE" PROVE req[r].cost # NoCost
      OBVIOUS
    <2>1. PICK i \in Recorded : movements[i].kind = "PURCHASE" /\ req[r].cost = movements[i].value
      BY <1>1 DEF TakesBack, Mirrors
    <2> QED
      BY <2>1, RowType DEF RowStands, Fit, NoCost
  <1>6. CASE req[r].cost # NoCost
    BY <1>1, <1>2, <1>3, <1>4, <1>6 DEF OutwardCost, OutwardAllowed, NoCost
  <1>7. CASE req[r].cost = NoCost /\ balance.quantity = quantity
    BY <1>1, <1>2, <1>3, <1>4, <1>5, <1>7 DEF OutwardCost
  <1>8. CASE req[r].cost = NoCost /\ balance.quantity # quantity
    <2>1. OutwardCost(r, balance) = IF method = "FIFO" THEN ConsumeFifo(quantity)
                                    ELSE ConsumeWeightedAverage(balance, quantity)
      BY <1>8 DEF OutwardCost
    <2>2. CASE method = "FIFO"
      <3>1. quantity \in Int /\ movements \in Seq(Movement)
        BY <1>2 DEF IInv, TypeOK
      <3> HIDE DEF quantity
      <3>2. ConsumeFifo(quantity) \in Int
        BY <3>1, ConsumeFifoType
      <3> QED
        BY <1>5, <1>8, <2>1, <2>2, <3>2 DEF Pooled
    <2>3. CASE method # "FIFO"
      <3>1. Pooled
        BY <2>3, SizesAssumption DEF Pooled, IInv, TypeOK
      <3>2. /\ quantity \in Nat /\ balance.quantity \in Nat \ {0} /\ balance.stockValue \in Nat
            /\ quantity <= balance.quantity
        BY <1>2, <1>3, <1>4, <3>1
      <3> HIDE DEF quantity
      <3>3. ConsumeWeightedAverage(balance, quantity) \in 0 .. balance.stockValue
        BY <3>2, PartOfValue DEF ConsumeWeightedAverage
      <3> QED
        BY <1>1, <1>2, <1>3, <1>5, <1>8, <2>1, <2>3, <3>2, <3>3
    <2> QED
      BY <2>2, <2>3
  <1> QED
    BY <1>6, <1>7, <1>8

LEMMA RecordMovementKeeps ==
    ASSUME IInv, NEW r \in Requests, RecordMovement(r)
    PROVE  IInv'
  <1> DEFINE job      == req[r]
             inward   == job.quantity > 0
             value    == IF inward THEN job.cost ELSE - OutwardCost(r, balance)
             quantity == balance.quantity + job.quantity
             worth    == balance.stockValue + value
             average  == IF inward THEN BlendedAverage(balance, quantity, worth)
                                   ELSE AverageAfter(balance, quantity, worth)
             m == [kind |-> job.op, date |-> job.date, doc |-> job.doc,
                   quantity |-> job.quantity, value |-> value,
                   unitCost |-> Divide(Abs(value), Abs(job.quantity)),
                   balanceQuantity |-> quantity, balanceValue |-> worth]
             j == WorkedOut(job, average, m)
  <1>1. /\ job \in Job /\ job.at = "locking" /\ Asks(job) /\ TakesBack(job)
        /\ job.quantity \in Int /\ job.cost \in Int /\ job.quantity # 0
        /\ balance.quantity \in Int /\ balance.stockValue \in Int /\ balance.averageCost \in Int
    BY DEF IInv, TypeOK, Job, JobStands, Asks, RecordMovement
  <1>2. req' = [req EXCEPT ![r] = j]
    BY <1>1 DEF RecordMovement, Worked, WorkedOut, IInv, TypeOK
  <1>3. ~ inward => /\ OutwardCost(r, balance) \in Int
                    /\ job.op = "VOID_PURCHASE" => OutwardCost(r, balance) = job.cost
                    /\ Pooled => /\ balance.quantity + job.quantity >= 0
                                 /\ OutwardCost(r, balance) \in 0 .. balance.stockValue
    <2>1. ~ inward => job.quantity < 0 /\ OutwardAllowed(r, balance)
      BY <1>1 DEF RecordMovement
    <2> QED
      BY <1>1, <2>1, OutwardFigure
  <1>4. /\ Pooled => balance.quantity >= 0 /\ balance.stockValue >= 0
    BY DEF IInv, ShelfStands, PooledStockNeverNegative, Pooled
  <1>5. value \in Int /\ quantity \in Int /\ worth \in Int
    BY <1>1, <1>3
  <1>6. Pooled => quantity >= 0 /\ worth >= 0
    BY <1>1, <1>3, <1>4 DEF Asks
  <1>7. job.op = "PURCHASE" => job.quantity > 0 /\ value \in Nat
    BY <1>1 DEF Asks
  <1>8. job.op = "SALE" => job.quantity < 0 /\ (Pooled => value <= 0)
    BY <1>1, <1>3 DEF Asks
  <1>9. job.op \in Voids => value = - movements[job.doc].value
    <2>1. CASE job.op = "VOID_PURCHASE"
      <3>1. /\ job.doc \in Recorded /\ movements[job.doc].kind = "PURCHASE"
            /\ job.quantity = - movements[job.doc].quantity
            /\ job.cost = movements[job.doc].value
        BY <1>1, <2>1 DEF TakesBack, Mirrors
      <3>2. movements[job.doc].quantity > 0 /\ movements[job.doc].quantity \in Int
        BY <3>1, RowType DEF RowStands, Fit
      <3>3. ~ inward
        BY <3>1, <3>2
      <3> QED
        BY <1>3, <2>1, <3>1, <3>3
    <2>2. CASE job.op = "VOID_SALE"
      <3>1. /\ job.doc \in Recorded /\ movements[job.doc].kind = "SALE"
            /\ job.quantity = - movements[job.doc].quantity
            /\ job.cost = - movements[job.doc].value
        BY <1>1, <2>2 DEF TakesBack, Mirrors
      <3>2. movements[job.doc].quantity < 0 /\ movements[job.doc].quantity \in Int
        BY <3>1, RowType DEF RowStands, Fit
      <3>3. inward
        BY <3>1, <3>2
      <3> QED
        BY <2>2, <3>1, <3>3
    <2> QED
      BY <2>1, <2>2 DEF Voids
  <1>10. quantity > 0 => average = Divide(worth, quantity)
    BY <1>1, <1>5 DEF BlendedAverage, AverageAfter
  <1>11. average \in Int
    <2>1. CASE quantity > 0
      BY <1>5, <1>10, <2>1, DivideInt
    <2>2. CASE quantity < 0 /\ inward
      <3>1. - worth \in Int /\ - quantity \in Nat \ {0}
        BY <1>5, <2>2
      <3>2. Divide(- worth, - quantity) \in Int
        BY <3>1, DivideInt
      <3> QED
        BY <1>5, <2>2, <3>2 DEF BlendedAverage
    <2>3. CASE ~ (quantity > 0) /\ ~ (quantity < 0 /\ inward)
      BY <1>1, <1>5, <2>3 DEF BlendedAverage, AverageAfter
    <2> QED
      BY <2>1, <2>2, <2>3
  <1>12. Divide(Abs(value), Abs(job.quantity)) \in Nat
    <2>1. Abs(value) \in Nat /\ Abs(job.quantity) \in Nat \ {0}
      BY <1>1, <1>5 DEF Abs
    <2> QED
      BY <2>1, DivideNat
  <1>13. m \in Movement
    <2>1. job.op \in Documents \union Voids \union {"NONE"} /\ job.date \in Nat /\ job.doc \in Nat
      BY <1>1 DEF Job
    <2> HIDE DEF job, value, quantity, worth
    <2> QED
      BY <1>1, <1>5, <1>12, <2>1 DEF Movement
  <1> HIDE DEF average, value, worth, quantity
  <1>14. /\ m.kind = job.op /\ m.doc = job.doc /\ m.quantity = job.quantity /\ m.value = value
         /\ m.balanceQuantity = quantity /\ m.balanceValue = worth
    OBVIOUS
  <1> HIDE DEF m
  <1>15. /\ j \in Job /\ j.at = "posting" /\ j.average = average /\ j.movement = m
         /\ j.op = job.op /\ j.doc = job.doc /\ j.quantity = job.quantity /\ j.cost = job.cost
    <2> HIDE DEF job
    <2>1. job \in Job /\ average \in Int /\ m \in Movement
      BY <1>1, <1>11, <1>13
    <2> QED
      BY <2>1, WorkedJob
  <1> HIDE DEF j, job
  <1>16. Asks(j) /\ TakesBack(j)
    BY <1>1, <1>15 DEF Asks, TakesBack, Mirrors
  <1>17. Fit(m)
    BY <1>7, <1>8, <1>14 DEF Fit
  <1>18. Works(j)
    BY <1>6, <1>9, <1>10, <1>14, <1>15, <1>17 DEF Works, quantity, worth
  <1>19. JobStands(j)
    BY <1>15, <1>16, <1>18 DEF JobStands
  <1>20. stockLock' = r /\ stockLock \in {Nobody, r} /\ UNCHANGED Shelf
    BY DEF RecordMovement, LockFree, Shelf
  <1>21. \A u \in Requests \ {r} : stockLock' = u <=> stockLock = u
    BY <1>20, NobodyAssumption
  <1> QED
    BY <1>2, <1>15, <1>19, <1>20, <1>21, OneJob

LEMMA RollBackKeeps ==
    ASSUME IInv, NEW r \in Requests, RollBack(r)
    PROVE  IInv'
  <1>1. NoJob \in Job /\ NoJob.at = "idle"
    BY DEF NoJob, NoCost, Asked, NoMovement, Movement, Job
  <1>2. req' = [req EXCEPT ![r] = NoJob] /\ UNCHANGED Shelf
    BY DEF RollBack, Shelf
  <1>3. /\ stockLock' \in Requests \union {Nobody} /\ stockLock' # r
        /\ \A u \in Requests \ {r} : stockLock' = u <=> stockLock = u
    BY NobodyAssumption DEF RollBack, IInv, TypeOK
  <1>4. JobStands(NoJob)
    BY <1>1 DEF JobStands
  <1> HIDE DEF NoJob
  <1> QED
    BY <1>1, <1>2, <1>3, <1>4, OneJob

\* Which documents stand once one more movement is on record: the new one, or
\* all but the one it voids.
LEMMA StandingAfter ==
    ASSUME IInv, NEW m \in Movement, movements' = Append(movements, m), RowStands(m),
           NEW n \in Nat, n = Len(movements) + 1
    PROVE  /\ Recorded' = Recorded \union {n} /\ n \notin Recorded
           /\ \A i \in Recorded : movements'[i] = movements[i]
           /\ movements'[n] = m
           /\ m.kind \in Documents => Standing' = Standing \union {n}
           /\ m.kind \in Voids     => Standing' = Standing \ {m.doc}
  <1>1. movements \in Seq(Movement) /\ Len(movements) \in Nat
    BY DEF IInv, TypeOK
  <1>2. /\ Len(movements') = n /\ movements'[n] = m
        /\ \A i \in Recorded : movements'[i] = movements[i]
    BY <1>1, AppendProperties DEF Recorded
  <1>3. Recorded' = Recorded \union {n} /\ n \notin Recorded
    BY <1>1, <1>2 DEF Recorded
  <1>4. ASSUME NEW i \in Recorded
        PROVE  Voided(i)' <=> Voided(i) \/ (m.kind \in Voids /\ m.doc = i)
    BY <1>2, <1>3 DEF Voided
  <1>5. ~ Voided(n)'
    <2>1. \A k \in Recorded : movements[k].kind \in Voids => movements[k].doc \in Recorded
      BY DEF IInv, ShelfStands, RowStands
    <2>2. m.kind \in Voids => m.doc \in Recorded
      BY DEF RowStands
    <2> QED
      BY <1>2, <1>3, <2>1, <2>2 DEF Voided
  <1>6. Documents \intersect Voids = {}
    BY DEF Documents, Voids
  <1>7. m.kind \in Documents => Standing' = Standing \union {n}
    BY <1>2, <1>3, <1>4, <1>5, <1>6 DEF Standing
  <1>8. m.kind \in Voids => Standing' = Standing \ {m.doc}
    BY <1>2, <1>3, <1>4, <1>6 DEF Standing
  <1> QED
    BY <1>2, <1>3, <1>7, <1>8

\* What the commit finds: the movement worked out under the lock, and a
\* document that stands where it is a void.
LEMMA CommitFinds ==
    ASSUME IInv, NEW r \in Requests, Commit(r)
    PROVE  LET m == req[r].movement IN
           /\ m \in Movement /\ RowStands(m) /\ Works(req[r]) /\ stockLock = r
           /\ EntryValue(r) = m.value
           /\ m.kind \in Documents \union Voids
           /\ m.kind \in Voids => /\ m.doc \in Standing
                                  /\ m.quantity = - movements[m.doc].quantity
                                  /\ m.value = - movements[m.doc].value
  <1> DEFINE m == req[r].movement
  <1>1. /\ req[r].at = "posting" /\ stockLock = r /\ m \in Movement
        /\ Asks(req[r]) /\ TakesBack(req[r]) /\ Works(req[r])
    BY DEF Commit, IInv, TypeOK, Job, JobStands
  <1>2. m.kind = req[r].op /\ m.doc = req[r].doc /\ m.quantity = req[r].quantity /\ Fit(m)
        /\ (req[r].op \in Voids => m.value = - movements[req[r].doc].value)
    BY <1>1 DEF Works
  <1>3. m.kind \in Documents \union Voids
    BY <1>1, <1>2 DEF Asks
  <1>4. EntryValue(r) = m.value
    BY <1>2 DEF EntryValue
  <1>5. ASSUME m.kind \in Voids
        PROVE  /\ m.doc \in Recorded /\ movements[m.doc].kind \in {"PURCHASE", "SALE"}
               /\ m.quantity = - movements[m.doc].quantity
    BY <1>1, <1>2, <1>5 DEF TakesBack, Mirrors, Voids
  <1>6. m.kind \in Voids => m.doc \in Standing
    BY <1>2, <1>5 DEF Standing, Commit, EntryAccepted, Documents
  <1>7. RowStands(m)
    BY <1>2, <1>5 DEF RowStands
  <1> QED
    BY <1>1, <1>2, <1>3, <1>4, <1>5, <1>6, <1>7

LEMMA CommitKeepsShelf ==
    ASSUME IInv, NEW r \in Requests, Commit(r)
    PROVE  ShelfStands'
  <1>1. PICK m : m = req[r].movement
    OBVIOUS
  <1>2. /\ m \in Movement /\ RowStands(m) /\ Works(req[r])
        /\ EntryValue(r) = m.value
        /\ m.kind \in Documents \union Voids
        /\ m.kind \in Voids => /\ m.doc \in Standing
                               /\ m.quantity = - movements[m.doc].quantity
                               /\ m.value = - movements[m.doc].value
    BY <1>1, CommitFinds
  <1>3. movements \in Seq(Movement) /\ Len(movements) \in Nat
    BY DEF IInv, TypeOK
  <1>4. Figures
    BY <1>3, AreFigures
  <1>5. PICK n \in Nat : n = Len(movements) + 1
    BY <1>3
  <1>6. movements' = Append(movements, m) /\ account' = account + m.value
    BY <1>1, <1>2 DEF Commit
  <1>7. /\ balance'.quantity = balance.quantity + m.quantity
        /\ balance'.stockValue = balance.stockValue + m.value
        /\ m.quantity \in Int /\ m.value \in Int
        /\ balance.quantity \in Int /\ balance.stockValue \in Int /\ account \in Int
    BY <1>1, <1>2 DEF Commit, Works, Movement, IInv, TypeOK
  <1>8. /\ Recorded' = Recorded \union {n} /\ n \notin Recorded
        /\ \A i \in Recorded : movements'[i] = movements[i]
        /\ movements'[n] = m
        /\ m.kind \in Documents => Standing' = Standing \union {n}
        /\ m.kind \in Voids     => Standing' = Standing \ {m.doc}
    BY <1>2, <1>5, <1>6, StandingAfter
  <1>9. PICK R, S : R = Recorded /\ S = Standing
    OBVIOUS
  <1>10. R \in SUBSET Recorded /\ S \in SUBSET Recorded
    BY <1>9 DEF Standing
  <1>11. /\ balance.quantity = TotalQuantity(R) /\ balance.stockValue = TotalValue(R)
         /\ account = balance.stockValue
         /\ balance.quantity = TotalQuantity(S) /\ balance.stockValue = TotalValue(S)
    BY <1>9 DEF IInv, ShelfStands, StockReconciles, VoidsUndoExactly
  <1>12. StockReconciles'
    <2>1. /\ TotalQuantity(R \union {n})' = TotalQuantity(R) + m.quantity
          /\ TotalValue(R \union {n})' = TotalValue(R) + m.value
      BY <1>2, <1>4, <1>5, <1>6, <1>10, TotalAfter
    <2>2. Recorded' = R \union {n}
      BY <1>8, <1>9
    <2>3. /\ TotalQuantity(Recorded)' = balance'.quantity
          /\ TotalValue(Recorded)' = balance'.stockValue
      BY <1>7, <1>11, <2>1, <2>2
    <2>4. account' = balance'.stockValue
      BY <1>6, <1>7, <1>11
    <2> QED
      BY <2>3, <2>4 DEF StockReconciles
  <1>13. VoidsUndoExactly'
    <2>1. CASE m.kind \in Documents
      <3>1. /\ TotalQuantity(S \union {n})' = TotalQuantity(S) + m.quantity
            /\ TotalValue(S \union {n})' = TotalValue(S) + m.value
        BY <1>2, <1>4, <1>5, <1>6, <1>10, TotalAfter
      <3>2. Standing' = S \union {n}
        BY <1>8, <1>9, <2>1
      <3>3. /\ TotalQuantity(Standing)' = balance'.quantity
            /\ TotalValue(Standing)' = balance'.stockValue
        BY <1>7, <1>11, <3>1, <3>2
      <3> QED
        BY <3>3 DEF VoidsUndoExactly
    <2>2. CASE m.kind \in Voids
      <3>1. PICK d : d = m.doc
        OBVIOUS
      <3>2. PICK T : T = S \ {d}
        OBVIOUS
      <3>3. d \in S /\ T \in SUBSET Recorded /\ Standing' = T
        BY <1>2, <1>8, <1>9, <1>10, <2>2, <3>1, <3>2
      <3>4. /\ TotalQuantity(T) = TotalQuantity(S) - movements[d].quantity
            /\ TotalValue(T) = TotalValue(S) - movements[d].value
        BY <1>4, <1>10, <3>2, <3>3, TotalWithout
      <3>5. /\ TotalQuantity(T)' = TotalQuantity(T)
            /\ TotalValue(T)' = TotalValue(T)
        BY <1>2, <1>4, <1>5, <1>6, <3>3, TotalAfter
      <3>6. m.quantity = - movements[d].quantity /\ m.value = - movements[d].value
            /\ movements[d].quantity \in Int /\ movements[d].value \in Int
        BY <1>2, <1>4, <1>10, <2>2, <3>1, <3>3 DEF Figures
      <3>7. /\ TotalQuantity(Standing)' = balance'.quantity
            /\ TotalValue(Standing)' = balance'.stockValue
        BY <1>7, <1>11, <3>3, <3>4, <3>5, <3>6
      <3> QED
        BY <3>7 DEF VoidsUndoExactly
    <2> QED
      BY <1>2, <2>1, <2>2
  <1>14. PooledStockNeverNegative' /\ AverageDescribesShelf'
    BY <1>1, <1>2, <1>7 DEF PooledStockNeverNegative, AverageDescribesShelf, Pooled, Works, Commit
  <1>15. \A i \in Recorded' : RowStands(movements[i])'
    <2> SUFFICES ASSUME NEW i \in Recorded' PROVE RowStands(movements[i])'
      OBVIOUS
    <2>1. PICK k : k = movements'[i]
      OBVIOUS
    <2>2. RowStands(k)
      BY <1>2, <1>8, <2>1 DEF IInv, ShelfStands
    <2>3. UNCHANGED method
      BY DEF Commit
    <2> QED
      BY <1>8, <2>1, <2>2, <2>3 DEF RowStands, Fit, Pooled
  <1> QED
    BY <1>12, <1>13, <1>14, <1>15 DEF ShelfStands

LEMMA CommitKeeps ==
    ASSUME IInv, NEW r \in Requests, Commit(r)
    PROVE  IInv'
  <1>1. PICK m : m = req[r].movement
    OBVIOUS
  <1>2. /\ m \in Movement /\ RowStands(m) /\ stockLock = r /\ EntryValue(r) = m.value
    BY <1>1, CommitFinds
  <1>3. movements \in Seq(Movement) /\ movements' = Append(movements, m)
    BY <1>1 DEF Commit, IInv, TypeOK
  <1>4. PICK n \in Nat : n = Len(movements) + 1
    BY <1>3
  <1>5. /\ Recorded' = Recorded \union {n}
        /\ \A i \in Recorded : movements'[i] = movements[i]
    BY <1>2, <1>3, <1>4, StandingAfter
  <1>6. NoJob \in Job /\ NoJob.at = "idle"
    BY DEF NoJob, NoCost, Asked, NoMovement, Movement, Job
  <1>7. /\ req' \in [Requests -> Job] /\ req'[r] = NoJob
        /\ \A u \in Requests \ {r} : req'[u] = req[u]
    BY <1>6 DEF Commit, IInv, TypeOK
  <1>8. /\ stockLock' = Nobody /\ UNCHANGED method
        /\ \A u \in Requests \ {r} : req[u].at # "posting"
    BY <1>2 DEF Commit, IInv, TypeOK
  <1>9. TypeOK'
    <2>1. movements' \in Seq(Movement)
      BY <1>2, <1>3, AppendProperties
    <2>2. /\ balance' = [quantity |-> m.balanceQuantity, averageCost |-> req[r].average,
                         stockValue |-> m.balanceValue]
          /\ m.balanceQuantity \in Int /\ m.balanceValue \in Int /\ req[r].average \in Int
      BY <1>1, <1>2 DEF Commit, Movement, IInv, TypeOK, Job
    <2>3. balance' \in [quantity : Int, averageCost : Int, stockValue : Int]
      BY <2>2
    <2>4. account' \in Int
      BY <1>1, <1>2 DEF Commit, Movement, IInv, TypeOK
    <2>5. \A u \in Requests : req'[u].at = "posting" <=> stockLock' = u
      BY <1>6, <1>7, <1>8, NobodyAssumption
    <2> QED
      BY <1>7, <1>8, <2>1, <2>3, <2>4, <2>5 DEF TypeOK, IInv
  <1>10. ShelfStands'
    BY CommitKeepsShelf
  <1>11. ASSUME NEW u \in Requests PROVE JobStands(req[u])'
    <2>1. PICK k : k = req'[u]
      OBVIOUS
    <2>2. k.at = "idle" \/ (k.at # "posting" /\ JobStands(k))
      BY <1>6, <1>7, <1>8, <2>1 DEF IInv
    <2>3. JobStands(k)'
      <3>1. CASE k.at = "idle"
        BY <3>1 DEF JobStands
      <3>2. CASE k.at # "idle"
        <4>1. k.at # "posting" /\ Asks(k) /\ TakesBack(k)
          BY <2>2, <3>2 DEF JobStands
        <4>2. Asks(k)'
          BY <1>8, <4>1 DEF Asks, Pooled
        <4>3. TakesBack(k)'
          BY <1>5, <4>1 DEF TakesBack, Mirrors
        <4> QED
          BY <4>1, <4>2, <4>3 DEF JobStands
      <3> QED
        BY <3>1, <3>2
    <2> QED
      BY <2>1, <2>3 DEF JobStands, Asks, TakesBack, Mirrors, Works, Fit
  <1> QED
    BY <1>9, <1>10, <1>11 DEF IInv

---------------------------------------------------------------------------
(* The theorems. *)

LEMMA Initially == Init => IInv
  <1> SUFFICES ASSUME Init PROVE IInv
    OBVIOUS
  <1>1. NoJob \in Job /\ NoJob.at = "idle"
    BY DEF NoJob, NoCost, Asked, NoMovement, Movement, Job
  <1>2. TypeOK
    <2>1. movements \in Seq(Movement)
      BY DEF Init
    <2>2. balance \in [quantity : Int, averageCost : Int, stockValue : Int]
      BY DEF Init
    <2>3. \A r \in Requests : req[r].at = "posting" <=> stockLock = r
      BY <1>1, NobodyAssumption DEF Init
    <2> QED
      BY <1>1, <2>1, <2>2, <2>3 DEF Init, TypeOK
  <1>3. Recorded = {} /\ Standing = {}
    BY DEF Init, Recorded, Standing
  <1>4. TotalQuantity({}) = 0 /\ TotalValue({}) = 0
    BY SumNone DEF TotalQuantity, TotalValue
  <1>5. StockReconciles /\ VoidsUndoExactly
    BY <1>3, <1>4 DEF Init, StockReconciles, VoidsUndoExactly
  <1>6. PooledStockNeverNegative /\ AverageDescribesShelf
    BY DEF Init, PooledStockNeverNegative, AverageDescribesShelf
  <1>7. \A r \in Requests : JobStands(req[r])
    BY <1>1 DEF Init, JobStands
  <1> QED
    BY <1>2, <1>3, <1>5, <1>6, <1>7 DEF IInv, ShelfStands

LEMMA Inductive == IInv /\ [Next]_vars => IInv'
  <1> SUFFICES ASSUME IInv, [Next]_vars PROVE IInv'
    OBVIOUS
  <1>1. ASSUME NEW r \in Requests, StartDocument(r) PROVE IInv'
    BY <1>1, PurchaseKeeps, SaleKeeps, AdjustmentKeeps, SalesReturnKeeps, PurchaseReturnKeeps
    DEF StartDocument
  <1>2. ASSUME NEW r \in Requests, StartVoid(r) PROVE IInv'
    BY <1>2, VoidPurchaseKeeps, VoidSaleKeeps DEF StartVoid
  <1>3. CASE UNCHANGED vars
    <2>1. UNCHANGED Shelf /\ UNCHANGED <<req, stockLock>>
      BY <1>3 DEF vars, Shelf
    <2>2. TypeOK'
      BY <2>1 DEF Shelf, IInv, TypeOK
    <2>3. ShelfStands'
      BY <2>1, ShelfKept DEF IInv
    <2>4. ASSUME NEW u \in Requests PROVE JobStands(req[u])'
      <3>1. PICK k : k = req[u]
        OBVIOUS
      <3>2. JobStands(k)'
        BY <2>1, <3>1, JobKept DEF IInv
      <3> QED
        BY <2>1, <3>1, <3>2 DEF JobStands, Asks, TakesBack, Mirrors, Works, Fit
    <2> QED
      BY <2>2, <2>3, <2>4 DEF IInv
  <1> QED
    BY <1>1, <1>2, <1>3, RecordMovementKeeps, CommitKeeps, RollBackKeeps DEF Next

LEMMA Always == Spec => []IInv
  BY Initially, Inductive, PTL DEF Spec

\* The cached position of a product (inventory_balances), the sum of its
\* movements (inventory_movements) and the Inventory account of the ledger are
\* one figure, in units and in money, after any history of bills, sales,
\* returns, counts and voids by any number of requests under either valuation
\* method: reconcileStock never finds a difference.
THEOREM Reconciles == Spec => []StockReconciles
  <1>1. IInv => StockReconciles
    BY DEF IInv, ShelfStands
  <1> QED
    BY <1>1, Always, PTL

\* voidSale and voidPurchase leave the shelf at what the documents that still
\* stand put there, to the last unit and the last ten-thousandth of a rupee,
\* whatever was recorded between a document and its void.
THEOREM VoidsUndo == Spec => []VoidsUndoExactly
  <1>1. IInv => VoidsUndoExactly
    BY DEF IInv, ShelfStands
  <1> QED
    BY <1>1, Always, PTL

\* Under weighted average neither the units nor the value of a shelf ever goes
\* below nil (recordOutward).
THEOREM PooledStockStands == Spec => []PooledStockNeverNegative
  <1>1. IInv => PooledStockNeverNegative
    BY DEF IInv, ShelfStands
  <1> QED
    BY <1>1, Always, PTL

\* The average cost a stock count values its finds at is the value of the shelf
\* over its units, rounded as divide rounds; and the stock lock is with the one
\* request that has worked a movement out and not yet committed it (lockStock).
THEOREM ShelfDescribed == Spec => []ShelfIsDescribed
  <1>1. IInv => ShelfIsDescribed
    BY DEF IInv, ShelfStands, ShelfIsDescribed
  <1> QED
    BY <1>1, Always, PTL
=============================================================================
