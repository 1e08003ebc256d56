------------------------------ MODULE IncomeTax ------------------------------
(* The estimate of income tax: slabs, the section 87A rebate, surcharge and    *)
(* both marginal reliefs (src/src/lib/tax/income-tax.ts). The computation is   *)
(* a pure function of the assessee and the income; what is checked is how it   *)
(* moves while a year's income is being earned.                                *)
(*                                                                             *)
(* Amounts are rupees. Every income is a multiple of 2,000, which keeps each   *)
(* percentage below exact; the code rounds to the hundredth of a paisa.        *)
EXTENDS Integers, Sequences, Functions

CONSTANTS STEP,          \* what one more sale adds to the year's income
          StartIncomes,  \* the incomes a working paper may start from
          Stretch        \* how far above its start an income is followed

ASSUME IncomeAssumption ==
    /\ STEP \in Nat \ {0} /\ STEP % 2000 = 0
    /\ Stretch \in Nat
    /\ \A start \in StartIncomes : start \in Nat /\ start % 2000 = 0

VARIABLES assessee,   \* who is taxed, under which regime and in which age band
          income,     \* total income so far
          startedAt   \* the income the working paper was opened at

incomeVars == <<assessee, income, startedAt>>

Lakh == 100000
Crore == 10000000
Unbounded == 200 * Crore   \* stands for the `null` bound of the topmost band

Assessees == [kind : {"INDIVIDUAL", "HUF"}, regime : {"NEW"}, age : {"BELOW_60"}]
        \cup [kind : {"INDIVIDUAL", "HUF"}, regime : {"OLD"}, age : {"BELOW_60", "SENIOR", "SUPER_SENIOR"}]
        \cup [kind : {"FIRM", "COMPANY"}, regime : {"NEW"}, age : {"BELOW_60"}]

PercentOf(amount, percent) == (amount \div 100) * percent + ((amount % 100) * percent) \div 100

Lesser(a, b) == IF a <= b THEN a ELSE b
Greater(a, b) == IF a >= b THEN a ELSE b

-----------------------------------------------------------------------------
(* The rate table of assessment year 2026-27                                  *)

Band(upTo, rate) == [upTo |-> upTo, rate |-> rate]

NewSlabs == << Band(4 * Lakh, 0), Band(8 * Lakh, 5), Band(12 * Lakh, 10), Band(16 * Lakh, 15),
               Band(20 * Lakh, 20), Band(24 * Lakh, 25), Band(Unbounded, 30) >>

OldSlabs(exempt) == IF exempt = 5 * Lakh
                    THEN << Band(5 * Lakh, 0), Band(10 * Lakh, 20), Band(Unbounded, 30) >>
                    ELSE << Band(exempt, 0), Band(5 * Lakh, 5), Band(10 * Lakh, 20), Band(Unbounded, 30) >>

Exemption == [BELOW_60 |-> 250000, SENIOR |-> 3 * Lakh, SUPER_SENIOR |-> 5 * Lakh]

Slabs(who) == IF who.regime = "NEW" THEN NewSlabs ELSE OldSlabs(Exemption[who.age])

RebateRule(who) ==
    IF who.regime = "NEW" THEN [upTo |-> 12 * Lakh, most |-> 60000, relief |-> TRUE]
                          ELSE [upTo |-> 5 * Lakh, most |-> 12500, relief |-> FALSE]

Above(threshold, rate) == [above |-> threshold, rate |-> rate]

(* Surcharge bands, lowest first.                                             *)
SurchargeBands(who) ==
    CASE who.kind = "FIRM"    -> << Above(Crore, 12) >>
      [] who.kind = "COMPANY" -> << Above(Crore, 7), Above(10 * Crore, 12) >>
      [] OTHER -> << Above(50 * Lakh, 10), Above(Crore, 15), Above(2 * Crore, 25) >>
                  \o (IF who.regime = "OLD" THEN << Above(5 * Crore, 37) >> ELSE << >>)

-----------------------------------------------------------------------------
(* The computation                                                            *)

(* What falls in the band from `floor` up to its bound, taxed at its rate.    *)
BandTax(amount, floor, band) == PercentOf(Greater(Lesser(amount, band.upTo) - floor, 0), band.rate)

SlabTax(who, amount) ==
    LET slabs == Slabs(who)
        floor(i) == IF i = 1 THEN 0 ELSE slabs[i - 1].upTo
    IN  SumFunctionOnSet([i \in DOMAIN slabs |-> BandTax(amount, floor(i), slabs[i])], DOMAIN slabs)

BaseTax(who, amount) ==
    CASE who.kind = "FIRM"    -> PercentOf(amount, 30)
      [] who.kind = "COMPANY" -> PercentOf(amount, 25)
      [] OTHER                -> SlabTax(who, amount)

Rebate(who, amount, tax) ==
    LET rule == RebateRule(who)
    IN  CASE who.kind # "INDIVIDUAL" -> 0
          [] who.kind = "INDIVIDUAL" /\ amount <= rule.upTo -> Lesser(tax, rule.most)
          [] OTHER -> IF rule.relief THEN Greater(tax - (amount - rule.upTo), 0) ELSE 0

TaxAfterRebate(who, amount) == LET tax == BaseTax(who, amount) IN tax - Rebate(who, amount, tax)

(* Tax and surcharge at a rate, limited to the ceiling: what a total income   *)
(* of the threshold costs, and the income above it.                           *)
Capped(tax, rate, atThreshold, excess) == Lesser(tax + PercentOf(tax, rate), atThreshold + excess)

(* A plausible slip: the ceiling carries the slabs' tax at the threshold and  *)
(* not the surcharge that is already due there.                               *)
FaultSlabsOnly(who) ==
    [k \in DOMAIN SurchargeBands(who) |-> TaxAfterRebate(who, SurchargeBands(who)[k].above)]

(* Tax and surcharge at the threshold of every band. The threshold itself is  *)
(* taxed in the band below, so each figure rests on the previous one.         *)
AtThresholds(who) ==
    LET bands == SurchargeBands(who)
        at[k \in DOMAIN bands] ==
            LET tax == TaxAfterRebate(who, bands[k].above)
            IN  IF k = 1 THEN tax
                ELSE Capped(tax, bands[k - 1].rate, at[k - 1], bands[k].above - bands[k - 1].above)
    IN  at

(* Everything up to but not including cess.                                   *)
BeforeCess(who, amount) ==
    LET bands == SurchargeBands(who)
        tax == TaxAfterRebate(who, amount)
        reached == { k \in DOMAIN bands : amount > bands[k].above }
        top == CHOOSE k \in reached : \A j \in reached : j <= k
    IN  IF reached = {} THEN tax
        ELSE Capped(tax, bands[top].rate, AtThresholds(who)[top], amount - bands[top].above)

(* Cess of 4% and section 288B's nearest ten rupees: 1.04 * tax, in tens.     *)
RoundedTax(tax) == 1040 * (tax \div 1000) + 10 * ((104 * (tax % 1000) + 500) \div 1000)

-----------------------------------------------------------------------------
IncomeInit ==
    /\ assessee \in Assessees
    /\ income \in StartIncomes
    /\ startedAt = income

(* The year earns another STEP and the paper is computed again.               *)
EarnMore ==
    /\ income < startedAt + Stretch
    /\ income' = income + STEP
    /\ UNCHANGED <<assessee, startedAt>>

IncomeSpec == IncomeInit /\ [][EarnMore]_incomeVars

-----------------------------------------------------------------------------
(* The one step the law itself leaves uncushioned: in the old regime the      *)
(* rebate of up to 12,500 vanishes above five lakh (RebateRule.marginalRelief *)
(* is false there).                                                           *)
OldRebateLost ==
    /\ assessee.kind = "INDIVIDUAL" /\ assessee.regime = "OLD"
    /\ income <= 5 * Lakh /\ income' > 5 * Lakh

(* Earning more never lowers the tax, and never costs more than what was      *)
(* earned, across every slab, rebate and surcharge threshold at once          *)
(* (income-tax.ts 377-400: "Crossing a surcharge threshold must never leave   *)
(* the assessee worse off than stopping at it").                              *)
NeverWorseOffForEarning ==
    [][EarnMore /\ ~OldRebateLost =>
         LET now == BeforeCess(assessee, income)
             then == BeforeCess(assessee, income')
         IN  /\ now <= then /\ then <= now + (income' - income)
             /\ RoundedTax(now) <= RoundedTax(then)]_incomeVars
=============================================================================
