---------------------------- MODULE Depreciation ----------------------------
(* One block of assets under the Income-tax Act: a running balance that is     *)
(* rolled forward from the year of its oldest member every time a schedule is  *)
(* asked for (src/src/lib/tax/depreciation.ts, computeDepreciation). Nothing   *)
(* is stored but the register of assets: each schedule of each year is         *)
(* recomputed from it, so what one year reports rests on all years before it.  *)
EXTENDS Integers, Sequences, FiniteSets, Functions

CONSTANTS MaxAssets,   \* how many assets the block may come to hold
          RatePercent, \* the rate of the block
          Costs,       \* what an asset may cost
          Proceeds,    \* what an asset may be sold for
          LastYear     \* the last year followed

ASSUME DepreciationAssumption ==
    /\ Costs \cup Proceeds \subseteq Nat
    /\ RatePercent \in 0..100
    /\ LastYear \in Nat \ {0} /\ MaxAssets \in Nat

VARIABLES register,   \* the assets of one class that share a rate, as bought, with their disposal
          fiscalYear, \* the year being lived through
          filed       \* the schedules taken from the working paper as each year ended

blockVars == <<register, fiscalYear, filed>>

DaysInYear == 365
HALF_RATE_DAYS == 180
NoSale == [year |-> 0, value |-> 0]

Asset == [cost : Costs, boughtIn : 1..LastYear, day : 1..DaysInYear,
          sale : [year : 0..LastYear, value : Proceeds \cup {0}]]

(* Days held in the year of purchase, counting the day it was bought.         *)
DaysHeld(asset) == DaysInYear - asset.day + 1

HalfRate(asset) == DaysHeld(asset) < HALF_RATE_DAYS

Owned == DOMAIN register
Bigger(a, b) == IF a >= b THEN a ELSE b

(* What each asset cost and fetched, and a figure added up over some of them.  *)
Cost == [a \in Owned |-> register[a].cost]
SaleValue == [a \in Owned |-> register[a].sale.value]
Total(assets, figure) == SumFunctionOnSet(figure, assets)

BoughtIn(year) == { a \in Owned : register[a].boughtIn = year }

(* A plausible slip: a disposal is taken off whatever its year.               *)
FaultSoldWhenever(year) == { a \in Owned : register[a].sale # NoSale }

SoldIn(year) == { a \in Owned : register[a].sale # NoSale /\ register[a].sale.year = year }

(* A plausible slip: proceeds beyond the full-rate side leave the half-rate   *)
(* additions alone.                                                           *)
FaultNoSpill(fullBase, halfBase) == [full |-> Bigger(fullBase, 0), half |-> halfBase]

(* Proceeds eat the full-rate side first; what is left of them touches the    *)
(* half-rate additions, and the balance stops at nil.                         *)
Bases(fullBase, halfBase) ==
    [full |-> Bigger(fullBase, 0), half |-> Bigger(halfBase + fullBase - Bigger(fullBase, 0), 0)]

(* percentOf, in steps of half a per cent, to the nearest unit and halves up.  *)
HalfPercentsOf(amount, halves) == (amount * halves + 100) \div 200

(* One year of the roll-forward, from last year's balance and live assets.    *)
RollYear(running, year) ==
    LET early == { a \in BoughtIn(year) : ~HalfRate(register[a]) }
        late == BoughtIn(year) \ early
        disposals == Total(SoldIn(year), SaleValue)
        base == Bases(running.closing + Total(early, Cost) - disposals, Total(late, Cost))
        live == running.live + Cardinality(BoughtIn(year)) - Cardinality(SoldIn(year))
        exhausted == live <= 0 \/ base.full + base.half <= 0
        depreciation == IF exhausted THEN 0
                        ELSE HalfPercentsOf(base.full, 2 * RatePercent) + HalfPercentsOf(base.half, RatePercent)
    IN  [opening |-> running.closing, disposals |-> disposals, live |-> live,
         exhausted |-> exhausted, depreciation |-> depreciation,
         closing |-> base.full + base.half - depreciation]

EmptyBlock == [opening |-> 0, disposals |-> 0, live |-> 0, exhausted |-> TRUE,
               depreciation |-> 0, closing |-> 0]

(* The schedules of the years 1..year, each rolled on from the one before.    *)
Schedules(year) ==
    LET rolled[y \in 0..year] == IF y = 0 THEN EmptyBlock ELSE RollYear(rolled[y - 1], y)
    IN  rolled

-----------------------------------------------------------------------------
BlockInit == register = << >> /\ fiscalYear = 1 /\ filed = << >>

Buy(cost, day) ==
    /\ Len(register) < MaxAssets
    /\ register' = Append(register, [cost |-> cost, boughtIn |-> fiscalYear, day |-> day, sale |-> NoSale])
    /\ UNCHANGED <<fiscalYear, filed>>

Sell(a, value) ==
    /\ register[a].sale = NoSale
    /\ register' = [register EXCEPT ![a].sale = [year |-> fiscalYear, value |-> value]]
    /\ UNCHANGED <<fiscalYear, filed>>

YearEnds ==
    /\ fiscalYear < LastYear
    /\ fiscalYear' = fiscalYear + 1
    /\ filed' = Append(filed, Schedules(fiscalYear)[fiscalYear])
    /\ UNCHANGED register

(* The two days on either side of the half-rate line.                         *)
LastFullDay == DaysInYear - HALF_RATE_DAYS + 1

BlockNext == \/ \E cost \in Costs, day \in {LastFullDay, LastFullDay + 1} : Buy(cost, day)
             \/ \E a \in Owned, value \in Proceeds : Sell(a, value)
             \/ YearEnds

BlockSpec == BlockInit /\ [][BlockNext]_blockVars

-----------------------------------------------------------------------------
(* What has been claimed and what remains in the block come to the cost of    *)
(* what was bought less the proceeds, whatever was bought early, late, or     *)
(* sold in which order; only proceeds that ran a block dry can leave more     *)
(* than that, and never more than the cost (depreciation.ts 474-500).         *)
NothingClaimedTwice ==
    LET rolled == Schedules(fiscalYear)
        claimedBy[y \in 0..fiscalYear] ==
            IF y = 0 THEN 0 ELSE claimedBy[y - 1] + rolled[y].depreciation
        paid == Total(Owned, Cost)
        received == Total(Owned, SaleValue)
        accounted == claimedBy[fiscalYear] + rolled[fiscalYear].closing
    IN  /\ accounted >= paid - received /\ accounted <= paid
        /\ accounted # paid - received =>
              \E y \in 1..fiscalYear : rolled[y].disposals > 0 /\ rolled[y].closing = 0

(* A schedule already relied on does not move: buying, selling or the year    *)
(* turning changes no schedule of an earlier year, though each is recomputed  *)
(* from the whole register (depreciation.ts 306-313, 438-446).                *)
PastSchedulesStand ==
    LET rolled == Schedules(fiscalYear) IN \A y \in DOMAIN filed : rolled[y] = filed[y]

(* A claim is made once and stays made, this year's and the past years'       *)
(* (computeDepreciation).                                                     *)
ClaimsStand == NothingClaimedTwice /\ PastSchedulesStand
=============================================================================
