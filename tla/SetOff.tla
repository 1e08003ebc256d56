-------------------------------- MODULE SetOff --------------------------------
(* Setting input tax credit off against a month's GST: which credit pays       *)
(* which head, in which order, and what is left to be paid in cash             *)
(* (src/src/lib/tax/set-off.ts, applySetOff).                                  *)
EXTENDS Integers

CONSTANT MaxHead   \* the most owed under, or claimed as credit for, one head

ASSUME SetOffAssumption == MaxHead \in Nat

VARIABLES liability,  \* the tax owed under each head
          credit      \* the credit available under each head

setOffVars == <<liability, credit>>

Heads == {"igst", "cgst", "sgst", "cess"}
TaxHeads == [Heads -> Nat]

Smaller(a, b) == IF a <= b THEN a ELSE b
Excess(a, b) == IF a >= b THEN a - b ELSE 0

TotalHeads(value) == value["igst"] + value["cgst"] + value["sgst"] + value["cess"]

(* What is owed and what is available, as the rules are worked through.       *)
Position == [owed : TaxHeads, available : TaxHeads]

Pay(position, from, against, amount) ==
    [owed |-> [position.owed EXCEPT ![against] = @ - amount],
     available |-> [position.available EXCEPT ![from] = @ - amount]]

(* `apply`: as much of one credit against one head as there is of both.       *)
Apply(position, from, against) ==
    Pay(position, from, against, Smaller(position.available[from], position.owed[against]))

(* A plausible slip: the pool is left to the plain order, which sends it to   *)
(* CGST first.                                                                *)
FaultUndirected(position) == position

(* What the rest of the IGST pool is kept for: the part of CGST, then of SGST *)
(* that the head's own credit will not reach.                                 *)
DirectIgst(position) ==
    LET shortfall(head) == Excess(position.owed[head], position.available[head])
        toCgst == Smaller(position.available["igst"], shortfall("cgst"))
        toSgst == Smaller(position.available["igst"] - toCgst, shortfall("sgst"))
    IN  Pay(Pay(position, "igst", "cgst", toCgst), "igst", "sgst", toSgst)

(* IGST against IGST is not a choice; then the pool is directed.              *)
Directed(owes, has) == DirectIgst(Apply([owed |-> owes, available |-> has], "igst", "igst"))

(* What is left of the pool goes to CGST, then SGST.                          *)
IgstSpent(owes, has) == Apply(Apply(Directed(owes, has), "igst", "cgst"), "igst", "sgst")

(* CGST credit against CGST and then IGST, SGST credit likewise; cess is      *)
(* ring-fenced.                                                               *)
CgstSpent(owes, has) == Apply(Apply(IgstSpent(owes, has), "cgst", "cgst"), "cgst", "igst")
SgstSpent(owes, has) == Apply(Apply(CgstSpent(owes, has), "sgst", "sgst"), "sgst", "igst")
ApplySetOff(owes, has) == Apply(SgstSpent(owes, has), "cess", "cess")

Payable(owes, has) == TotalHeads(ApplySetOff(owes, has).owed)
CarriedForward(owes, has) == TotalHeads(ApplySetOff(owes, has).available)

-----------------------------------------------------------------------------
(* The law the code works within: the ways credit may be spent. IGST credit   *)
(* pays IGST first, then CGST and SGST in any proportion; CGST and SGST       *)
(* credit pay their own head or IGST, never each other; cess pays cess.       *)
Allocation(toIgst, toCgst, toSgst) ==
    [igstToCgst : toCgst, igstToSgst : toSgst, cgstToCgst : toCgst, cgstToIgst : toIgst,
     sgstToSgst : toSgst, sgstToIgst : toIgst]

Lawful(spend, owes, has) ==
    LET igstToIgst == Smaller(has["igst"], owes["igst"])
    IN  /\ igstToIgst + spend.igstToCgst + spend.igstToSgst <= has["igst"]
        /\ spend.cgstToCgst + spend.cgstToIgst <= has["cgst"]
        /\ spend.sgstToSgst + spend.sgstToIgst <= has["sgst"]
        /\ igstToIgst + spend.cgstToIgst + spend.sgstToIgst <= owes["igst"]
        /\ spend.igstToCgst + spend.cgstToCgst <= owes["cgst"]
        /\ spend.igstToSgst + spend.sgstToSgst <= owes["sgst"]

(* The credit a way of spending uses, with what is not a choice.              *)
Spent(spend, owes, has) ==
    Smaller(has["igst"], owes["igst"]) + Smaller(has["cess"], owes["cess"])
    + spend.igstToCgst + spend.igstToSgst + spend.cgstToCgst + spend.cgstToIgst
    + spend.sgstToSgst + spend.sgstToIgst

CashOf(spend, owes, has) == TotalHeads(owes) - Spent(spend, owes, has)

-----------------------------------------------------------------------------
SetOffInit ==
    /\ liability \in [Heads -> 0..MaxHead]
    /\ credit = [head \in Heads |-> 0]

(* One more purchase adds to the credit under a head.                         *)
ClaimCredit(head) ==
    /\ credit[head] < MaxHead
    /\ credit' = [credit EXCEPT ![head] = @ + 1]
    /\ UNCHANGED liability

SetOffNext == \E head \in Heads : ClaimCredit(head)

SetOffSpec == SetOffInit /\ [][SetOffNext]_setOffVars

-----------------------------------------------------------------------------
(* The cash is the least any lawful way of spending the credit would leave,   *)
(* and a lawful way leaves it (set-off.ts 111-132: the IGST pool is spent     *)
(* where a head's own credit cannot follow).                                  *)
LeastCash ==
    LET upTo(head) == 0..liability[head]
        lawful == { spend \in Allocation(upTo("igst"), upTo("cgst"), upTo("sgst")) :
                      Lawful(spend, liability, credit) }
        cash == Payable(liability, credit)
    IN  /\ \A spend \in lawful : cash <= CashOf(spend, liability, credit)
        /\ \E spend \in lawful : cash = CashOf(spend, liability, credit)
=============================================================================
