--------------------------------- MODULE Gst ---------------------------------
(* GST on one invoice line and the credit notes raised against it: which tax   *)
(* a supply bears, what a price with or without tax inside it comes to, the    *)
(* rounding of the bill, and how a sales return prices what comes back         *)
(* (src/src/lib/tax/gst.ts, src/src/server/returns/sales-return-service.ts).   *)
(*                                                                             *)
(* Amounts are integers in the units the code keeps, the hundredth of a paisa  *)
(* (DECIMAL(18,4)): PAISA and RUPEE say how many. Each operator rounds where   *)
(* and as the code does.                                                       *)
EXTENDS Integers, Sequences, Functions

CONSTANTS Prices,     \* the prices per unit a line is tried at, in paise
          PriceStretch, \* a price is followed upwards for this many paise
          Quantities, \* how many units a line may sell
          TaxRates, CessRates, Discounts   \* percentages of the product and the line

ASSUME GstAssumption ==
    /\ Prices \cup Quantities \subseteq Nat \ {0}
    /\ TaxRates \cup CessRates \subseteq Nat /\ Discounts \subseteq 0..100
    /\ PriceStretch \in Nat

VARIABLES line,      \* the line as it was keyed in, and the supply it is part of
          firstPrice, \* the price the line was first tried at
          returned   \* the quantities brought back, one credit note each

gstVars == <<line, firstPrice, returned>>

PAISA == 100
RUPEE == 100 * PAISA

(* a / b to the nearest whole unit, halves up; neither is negative.           *)
Ratio(a, b) == (2 * a + b) \div (2 * b)
Portion(amount, percent) == Ratio(amount * percent, 100)
Round2(amount) == PAISA * Ratio(amount, PAISA)
RoundToRupee(amount) == RUPEE * Ratio(amount, RUPEE)

-----------------------------------------------------------------------------
States == {"home", "away"}
Unknown == "unknown"

ResolveSupplyType(registration, seller, buyer) ==
    LET place == IF buyer = Unknown THEN seller ELSE buyer
    IN  CASE registration \in {"UNREGISTERED", "COMPOSITION"} -> "NON_GST"
          [] registration = "SEZ" -> "EXPORT"
          [] registration = "REGULAR" ->
                 IF Unknown \in {seller, place} \/ seller = place THEN "INTRA_STATE" ELSE "INTER_STATE"

ChargesTax(supply) == supply \in {"INTRA_STATE", "INTER_STATE"}

(* The first half of a tax, rounded; the second takes the odd paisa.          *)
SplitIntoHalves(total) ==
    LET first == PAISA * Ratio(Round2(total), 2 * PAISA)
    IN  <<first, Round2(total) - first>>

NetFromInclusive(amount, percent) == amount - Ratio(amount * percent, 100 + percent)

(* A plausible slip: the rate is taken off the price that contains the tax.   *)
FaultRateOffPrice(net, percent) == Round2(net - Portion(net, percent))

TaxableInside(net, percent) == Round2(NetFromInclusive(net, percent))

(* A plausible slip: the rate is applied to the unwound value once more.      *)
FaultRateAgain(charged, taxable, tax, cess) ==
    [tax |-> Round2(Portion(taxable, tax)), cess |-> Round2(Portion(taxable, cess))]

(* The tax inside a price is what is left of it: cess is rounded out of the   *)
(* remainder and GST takes the rest.                                          *)
SplitInclusiveTax(charged, taxable, tax, cess) ==
    LET combined == charged - taxable
        cessPart == IF cess = 0 \/ combined = 0 THEN 0
                    ELSE Round2(Ratio(combined * Ratio(10000 * cess, tax + cess), 10000))
    IN  IF tax + cess = 0 THEN [tax |-> 0, cess |-> 0]
                          ELSE [tax |-> combined - cessPart, cess |-> cessPart]

(* computeLine: what one line of an invoice comes to.                         *)
ComputeLine(l) ==
    LET tax == IF ChargesTax(l.supply) THEN l.taxPercent ELSE 0
        cess == IF ChargesTax(l.supply) THEN l.cessPercent ELSE 0
        gross == l.quantity * l.rate
        net == gross - Round2(Portion(gross, l.discountPercent))
        charged == Round2(net)
        taxable == IF l.inclusive THEN TaxableInside(net, tax + cess) ELSE charged
        taxes == IF l.inclusive THEN SplitInclusiveTax(charged, taxable, tax, cess)
                 ELSE [tax |-> Round2(Portion(taxable, tax)), cess |-> Round2(Portion(taxable, cess))]
        halves == SplitIntoHalves(taxes.tax)
        intra == l.supply = "INTRA_STATE"
    IN  [charged |-> charged, taxable |-> taxable,
         cgst |-> IF intra THEN halves[1] ELSE 0,
         sgst |-> IF intra THEN halves[2] ELSE 0,
         igst |-> IF l.supply = "INTER_STATE" THEN taxes.tax ELSE 0,
         cess |-> taxes.cess]

GstOf(result) == result.cgst + result.sgst + result.igst

(* totalLines, of an invoice or a credit note with one line.                  *)
TotalAmount(result) == RoundToRupee(result.taxable + GstOf(result) + result.cess)

-----------------------------------------------------------------------------
(* A plausible slip: the central tax of a return at the whole rate.           *)
FaultWholeRate(l, quantity) ==
    LET taxable == quantity * l.rate
    IN  [taxable |-> taxable,
         cgst |-> IF l.supply = "INTRA_STATE" THEN Ratio(taxable * l.taxPercent, 100) ELSE 0,
         sgst |-> IF l.supply = "INTRA_STATE" THEN Ratio(taxable * l.taxPercent, 200) ELSE 0,
         igst |-> IF l.supply = "INTER_STATE" THEN Ratio(taxable * l.taxPercent, 100) ELSE 0,
         cess |-> 0]

(* createSalesReturn: what coming back in this quantity is priced at. It      *)
(* starts from the line's rate, and takes neither its discount, nor the tax   *)
(* inside the rate, nor its cess into account.                                *)
PriceReturn(l, quantity) ==
    LET taxable == quantity * l.rate
    IN  [taxable |-> taxable,
         cgst |-> IF l.supply = "INTRA_STATE" THEN Ratio(taxable * l.taxPercent, 200) ELSE 0,
         sgst |-> IF l.supply = "INTRA_STATE" THEN Ratio(taxable * l.taxPercent, 200) ELSE 0,
         igst |-> IF l.supply = "INTER_STATE" THEN Ratio(taxable * l.taxPercent, 100) ELSE 0,
         cess |-> 0]

(* A figure of the credit notes, added up over all of them.                   *)
Credited(figure(_)) ==
    SumFunctionOnSet([i \in DOMAIN returned |-> figure(PriceReturn(line, returned[i]))], DOMAIN returned)

TaxableOf(result) == result.taxable

Outstanding == line.quantity - SumFunctionOnSet(returned, DOMAIN returned)

-----------------------------------------------------------------------------
GstInit ==
    \E registration \in {"REGULAR", "COMPOSITION", "UNREGISTERED", "SEZ"},
       seller \in {"home", Unknown}, buyer \in States \cup {Unknown} :
        /\ line \in [quantity : Quantities, rate : {PAISA * price : price \in Prices},
                     discountPercent : Discounts, taxPercent : TaxRates, cessPercent : CessRates,
                     inclusive : BOOLEAN, supply : {ResolveSupplyType(registration, seller, buyer)}]
        /\ firstPrice = line.rate
        /\ returned = << >>

(* The same line a paisa dearer: a walk over the prices, not a step of code.  *)
TryDearer ==
    /\ returned = << >> /\ line.rate < firstPrice + PriceStretch * PAISA
    /\ line' = [line EXCEPT !.rate = @ + PAISA]
    /\ UNCHANGED <<firstPrice, returned>>

(* A credit note for some of what is still with the customer.                 *)
CreateSalesReturn(quantity) ==
    /\ quantity <= Outstanding
    /\ returned' = Append(returned, quantity)
    /\ UNCHANGED <<line, firstPrice>>

GstNext == TryDearer \/ \E quantity \in Quantities : CreateSalesReturn(quantity)

GstSpec == GstInit /\ [][GstNext]_gstVars

-----------------------------------------------------------------------------
Distance(a, b) == IF a >= b THEN a - b ELSE b - a

(* A price that includes tax is the whole of what is paid: value, GST and     *)
(* cess add back to it to the paisa at every price, rate, cess and discount   *)
(* (gst.ts 115-142, 165-177).                                                 *)
InclusivePriceIsPaid ==
    LET result == ComputeLine(line)
    IN  line.inclusive => result.taxable + GstOf(result) + result.cess = result.charged

(* How far a hundred times a tax may stray from the rate on the value. Each    *)
(* figure is rounded to the paisa and its quotient to the unit, together just *)
(* over half a paisa. Unwinding a price weighs that up by the rate, and a      *)
(* share of cess, kept to four decimals, strays with the tax it is a share of.*)
HalfPaisa == PAISA \div 2 + 1
Slack(result) ==
    IF ~line.inclusive THEN 100 * HalfPaisa
    ELSE (100 + line.taxPercent + line.cessPercent) * HalfPaisa
            + (IF line.cessPercent = 0 THEN 0
               ELSE 100 * HalfPaisa + (result.charged - result.taxable) \div 200)

(* However the tax was arrived at, it is the rate on the taxable value but    *)
(* for the roundings, and the halves of an in-state line are within a paisa   *)
(* of each other (gst.ts 101-113, 127-142, 158-191).                          *)
TaxIsTheRateOnTheValue ==
    LET result == ComputeLine(line)
        within(tax, percent) == Distance(100 * tax, result.taxable * percent) <= Slack(result)
    IN  IF ChargesTax(line.supply)
        THEN /\ within(GstOf(result), line.taxPercent)
             /\ within(result.cess, line.cessPercent)
             /\ Distance(result.cgst, result.sgst) <= PAISA
        ELSE GstOf(result) = 0 /\ result.cess = 0

Plain == ~line.inclusive /\ line.discountPercent = 0 /\ line.cessPercent = 0

(* Of a plain line, everything brought back in however many pieces cancels    *)
(* the sale: the same value, the same tax but for half a paisa on the bill    *)
(* and a unit on each note, and a total that differs by no more than that and *)
(* half a rupee for each document rounded (sales-return-service.ts 211-247).  *)
PlainReturnsCancelTheSale ==
    LET result == ComputeLine(line)
        taxStrays == HalfPaisa + Len(returned)
    IN  Plain /\ Outstanding = 0 =>
            /\ Credited(TaxableOf) = result.taxable
            /\ Distance(Credited(GstOf), GstOf(result)) <= taxStrays
            /\ Distance(Credited(TotalAmount), TotalAmount(result))
                  <= (Len(returned) + 1) * (RUPEE \div 2) + taxStrays

(* The three together: what is charged, taxed and taken back of one line adds *)
(* up to the paisa (computeLine, createSalesReturn).                          *)
LinesAddUp == InclusivePriceIsPaid /\ TaxIsTheRateOnTheValue /\ PlainReturnsCancelTheSale

(* What a return is claimed to do: mirror the sale it reverses, so that no    *)
(* line is ever credited with more value than it was billed                   *)
(* (sales-return-service.ts 38: "exactly mirroring the sale it reverses").    *)
ReturnsMirrorTheSale == Credited(TaxableOf) <= ComputeLine(line).taxable
=============================================================================
