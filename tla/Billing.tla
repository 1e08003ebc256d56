------------------------------ MODULE Billing ------------------------------
(***************************************************************************)
(* Paying for a plan: the checkout that opens an order at the payment       *)
(* provider, the webhook that applies what the provider reports, and the    *)
(* plan changes that need no payment.  One company, one subscription.       *)
(*                                                                         *)
(* Nothing here holds a lock and only applyCapture runs in a transaction,   *)
(* so one action is one statement (or that transaction's read, or its       *)
(* commit).  The provider delivers an event again until it is answered; a   *)
(* handler may die between any two statements.                              *)
(***************************************************************************)
EXTENDS Integers, Sequences, FiniteSets

CONSTANTS
    Prices,       \* priceMinor of each plan, cheapest first
    TrialPlan,    \* the plan a new company is put on
    Users,        \* requests of the people who look after the subscription
    Handlers,     \* requests the provider's deliveries are served by
    MaxInvoices,  \* bound: checkouts that reach an invoice
    MaxAttempts,  \* bound: reported attempts that do not bring the full money,
                  \* all but one of which fail
    MaxCrashes    \* bound: requests and deliveries that die half way

ASSUME PricesAssumption == Prices \in Seq(Nat) /\ Prices # << >>
ASSUME BoundsAssumption == MaxInvoices \in Nat /\ MaxAttempts \in Nat /\ MaxCrashes \in Nat

Plans == 1 .. Len(Prices)
ASSUME TrialAssumption == TrialPlan \in Plans
Price(p) == Prices[p]
NoOrder == 0

VARIABLES
    plan,      \* Subscription.planId
    invoices,  \* subscription_invoices, in the order they were created
    orders,    \* the provider's orders: what was asked for, and whether it was paid
    shown,     \* orders whose checkout a browser can open
    sent,      \* events the provider has to deliver
    answered,  \* events answered 2xx, not delivered again
    recorded,  \* payment_events: events written down before they were acted on
    job,       \* what each user's request is doing and has read
    hook,      \* the same of each delivery
    crashes

vars == <<plan, invoices, orders, shown, sent, answered, recorded, job, hook, crashes>>
books == <<plan, invoices>>
provider == <<orders, shown, sent, answered>>

Invoice == [status : {"PENDING", "PAID", "FAILED"}, target : Plans, order : Nat]
Order   == [target : Plans, status : {"created", "paid"}]
\* What an event reports; a captured event of a payment that is only authorized
\* is of its own type here.  The attempts that bring no money are numbered.
Event   == [type : {"payment.failed", "authorized", "payment.captured", "order.paid"},
            order : Nat \ {0}, full : BOOLEAN, attempt : Nat]
Job     == [op : {"NONE", "UPGRADE", "CHANGE"}, target : Plans, invoice : Nat, order : Nat,
            at : {"idle", "finding", "invoicing", "ordering", "failing", "storing",
                  "returning", "updating"}]

NoJob  == [op |-> "NONE", target |-> 1, invoice |-> 0, order |-> NoOrder, at |-> "idle"]
NoHook == [at |-> "idle"]
Hook   == {NoHook} \union [at : {"reading", "finishing"}, event : Event]
                   \union [at : {"applying"}, event : Event, invoice : Nat, planRead : Plans]

Idle(u) == job[u] = NoJob
\* The bounded invoices have room for what the running requests may create.
HasRoom == Len(invoices) + Cardinality({u \in Users : ~ Idle(u)}) < MaxInvoices
Goto(u, step) == job' = [job EXCEPT ![u].at = step]
Done(u) == job' = [job EXCEPT ![u] = NoJob]
KeepsProvider == UNCHANGED provider
KeepsHooks == UNCHANGED <<recorded, hook, crashes>>

---------------------------------------------------------------------------
(* Faulty forms of definitions below, against which the properties are     *)
(* checked; the specification does not use them.                           *)

FaultNoReuse(u)        == {}
FaultOrderLost(u)      == invoices
FaultFailPaid(e)       == {i \in 1 .. Len(invoices) : invoices[i].order = e.order}
FaultUnpaidUpgrade(e)  == TRUE
FaultStopAtFirst(e)    == recorded \union {x \in sent : x.order = e.order}

---------------------------------------------------------------------------
(* Checkout: startPlanUpgrade. *)

CostsMore(p, q) == Price(p) > Price(q)

StartPlanUpgrade(u, t) ==
    /\ Idle(u) /\ HasRoom
    /\ t # plan /\ CostsMore(t, plan)
    /\ job' = [job EXCEPT ![u] = [NoJob EXCEPT !.op = "UPGRADE", !.target = t, !.at = "finding"]]
    /\ UNCHANGED books /\ KeepsProvider /\ KeepsHooks

\* findFirst by createdAt descending: the newest open order for that plan.
OpenInvoices(u) == {i \in 1 .. Len(invoices) : /\ invoices[i].status = "PENDING"
                                               /\ invoices[i].order # NoOrder
                                               /\ invoices[i].target = job[u].target}

FindPending(u) ==
    /\ job[u].at = "finding"
    /\ IF OpenInvoices(u) = {}
         THEN Goto(u, "invoicing")
         ELSE \E i \in OpenInvoices(u) :
                 /\ \A m \in OpenInvoices(u) : m <= i
                 /\ job' = [job EXCEPT ![u].at = "returning", ![u].order = invoices[i].order]
    /\ UNCHANGED books /\ KeepsProvider /\ KeepsHooks

CreateInvoice(u) ==
    /\ job[u].at = "invoicing"
    /\ invoices' = Append(invoices, [status |-> "PENDING", target |-> job[u].target,
                                     order |-> NoOrder])
    /\ job' = [job EXCEPT ![u].at = "ordering", ![u].invoice = Len(invoices) + 1]
    /\ UNCHANGED plan /\ KeepsProvider /\ KeepsHooks

\* The provider creates the order and its answer arrives, ...
CreateOrder(u) ==
    /\ job[u].at = "ordering"
    /\ orders' = Append(orders, [target |-> job[u].target, status |-> "created"])
    /\ job' = [job EXCEPT ![u].at = "storing", ![u].order = Len(orders) + 1]
    /\ UNCHANGED <<plan, invoices, shown, sent, answered>> /\ KeepsHooks

\* ... or it refuses, answers for another amount, or its answer is lost.
OrderFails(u) ==
    /\ job[u].at = "ordering"
    /\ \/ UNCHANGED orders
       \/ orders' = Append(orders, [target |-> job[u].target, status |-> "created"])
    /\ Goto(u, "failing")
    /\ UNCHANGED <<plan, invoices, shown, sent, answered>> /\ KeepsHooks

FailCheckout(u) ==
    /\ job[u].at = "failing"
    /\ invoices' = [invoices EXCEPT ![job[u].invoice].status = "FAILED"]
    /\ Done(u)
    /\ UNCHANGED plan /\ KeepsProvider /\ KeepsHooks

OrderStored(u) == [invoices EXCEPT ![job[u].invoice].order = job[u].order]

StoreOrder(u) ==
    /\ job[u].at = "storing"
    /\ invoices' = OrderStored(u)
    /\ Goto(u, "returning")
    /\ UNCHANGED plan /\ KeepsProvider /\ KeepsHooks

ReturnSession(u) ==
    /\ job[u].at = "returning"
    /\ shown' = shown \union {job[u].order}
    /\ Done(u)
    /\ UNCHANGED <<orders, sent, answered>> /\ UNCHANGED books /\ KeepsHooks

---------------------------------------------------------------------------
(* Changes that cost nothing: changePlan. *)

ChangePlan(u, t) ==
    /\ Idle(u)
    /\ t # plan /\ ~ CostsMore(t, plan)
    /\ job' = [job EXCEPT ![u] = [NoJob EXCEPT !.op = "CHANGE", !.target = t, !.at = "updating"]]
    /\ UNCHANGED books /\ KeepsProvider /\ KeepsHooks

UpdatePlan(u) ==
    /\ job[u].at = "updating"
    /\ plan' = job[u].target
    /\ Done(u)
    /\ UNCHANGED invoices /\ KeepsProvider /\ KeepsHooks

---------------------------------------------------------------------------
(* The provider and the customer's bank. *)

Failure(e)  == e.type = "payment.failed"
Captured(e) == e.type \in {"payment.captured", "order.paid"}

NotInFull  == {e \in sent : e.attempt # 0 \/ (e.type = "order.paid" /\ ~ e.full)}
MayFail    == Cardinality(NotInFull) < MaxAttempts
MayBeShort == MayFail /\ \A e \in NotInFull : Failure(e)

\* The next attempt fails, or the bank holds the money and it is not captured.
Report(type, o, n) == [type |-> type, order |-> o, full |-> TRUE, attempt |-> n]
Attempt(o, type, n) ==
    /\ o \in shown /\ orders[o].status = "created"
    /\ IF type = "authorized" THEN MayBeShort ELSE MayFail
    /\ \A m \in 1 .. MaxAttempts : Report(type, o, m) \in sent <=> m < n
    /\ sent' = sent \union {Report(type, o, n)}
    /\ UNCHANGED <<orders, shown, answered, recorded, job, hook, crashes>> /\ UNCHANGED books

\* One payment is reported twice, as a payment and as an order.
Pay(o, full) ==
    /\ o \in shown /\ orders[o].status = "created"
    /\ full \/ MayBeShort
    /\ orders' = [orders EXCEPT ![o].status = "paid"]
    /\ sent' = sent \union {[type |-> t, order |-> o, full |-> full, attempt |-> 0] :
                              t \in {"payment.captured", "order.paid"}}
    /\ UNCHANGED <<shown, answered, recorded, job, hook, crashes>> /\ UNCHANGED books

---------------------------------------------------------------------------
(* The webhook: handleRazorpayWebhook. *)

\* recordEvent: the unique (provider, eventId) lets one delivery through.
Recording(e) == recorded \union {e}
Deliver(h, e) ==
    /\ hook[h].at = "idle" /\ e \in sent \ answered
    /\ IF e \in recorded
         THEN answered' = answered \union {e} /\ UNCHANGED <<recorded, hook>>
         ELSE /\ recorded' = Recording(e)
              /\ hook' = [hook EXCEPT ![h] = [at |-> "reading", event |-> e]]
              /\ UNCHANGED answered
    /\ UNCHANGED <<orders, shown, sent, job, crashes>> /\ UNCHANGED books

InvoicesOf(e) == {i \in 1 .. Len(invoices) : invoices[i].order = e.order}
NotPaid(e)    == {i \in InvoicesOf(e) : invoices[i].status # "PAID"}

\* applyCapture and applyFailure read the invoice; a paid one, or none, ends it.
ReadInvoice(h) ==
    LET e == hook[h].event IN
    /\ hook[h].at = "reading"
    /\ \/ /\ NotPaid(e) = {}
          /\ hook' = [hook EXCEPT ![h].at = "finishing"]
       \/ \E i \in NotPaid(e) :
             hook' = [hook EXCEPT ![h] = [at |-> "applying", event |-> e, invoice |-> i,
                                          planRead |-> plan]]
    /\ UNCHANGED <<recorded, job, crashes>> /\ UNCHANGED books /\ KeepsProvider

Target(i) == invoices[i].target
AmountMatches(e) == e.full

\* The commit of applyCapture: another amount fails the invoice, money that is
\* only authorized changes nothing, and the plan, unless an administrator has
\* retired it, is compared with the one read before.
ApplyCapture(h) ==
    LET e == hook[h].event
        i == hook[h].invoice IN
    /\ hook[h].at = "applying" /\ ~ Failure(e)
    /\ \/ /\ ~ AmountMatches(e)
          /\ invoices' = [invoices EXCEPT ![i].status = "FAILED"] /\ UNCHANGED plan
       \/ /\ AmountMatches(e) /\ ~ Captured(e)
          /\ UNCHANGED books
       \/ /\ AmountMatches(e) /\ Captured(e)
          /\ invoices' = [invoices EXCEPT ![i].status = "PAID"]
          /\ plan' \in IF Target(i) # hook[h].planRead THEN {Target(i), plan} ELSE {plan}
    /\ hook' = [hook EXCEPT ![h] = [at |-> "finishing", event |-> e]]
    /\ UNCHANGED <<recorded, job, crashes>> /\ KeepsProvider

\* The update of applyFailure does not look at the status again.
ApplyFailure(h) ==
    /\ hook[h].at = "applying" /\ Failure(hook[h].event)
    /\ invoices' = [invoices EXCEPT ![hook[h].invoice].status = "FAILED"]
    /\ hook' = [hook EXCEPT ![h] = [at |-> "finishing", event |-> @.event]]
    /\ UNCHANGED <<plan, recorded, job, crashes>> /\ KeepsProvider

Answer(h) == answered \union {hook[h].event}
FinishEvent(h) ==
    /\ hook[h].at = "finishing"
    /\ answered' = Answer(h)
    /\ hook' = [hook EXCEPT ![h] = NoHook]
    /\ UNCHANGED <<orders, shown, sent, recorded, job, crashes>> /\ UNCHANGED books

---------------------------------------------------------------------------
(* A request dies between two statements; what is committed stays. *)

UserCrash(u) ==
    /\ ~ Idle(u) /\ crashes < MaxCrashes
    /\ Done(u) /\ crashes' = crashes + 1
    /\ UNCHANGED <<recorded, hook>> /\ UNCHANGED books /\ KeepsProvider

HandlerCrash(h) ==
    /\ hook[h].at # "idle" /\ crashes < MaxCrashes
    /\ hook' = [hook EXCEPT ![h] = NoHook] /\ crashes' = crashes + 1
    /\ UNCHANGED <<recorded, job>> /\ UNCHANGED books /\ KeepsProvider

---------------------------------------------------------------------------
Init ==
    /\ plan = TrialPlan
    /\ invoices = << >> /\ orders = << >>
    /\ shown = {} /\ sent = {} /\ answered = {} /\ recorded = {}
    /\ job = [u \in Users |-> NoJob]
    /\ hook = [h \in Handlers |-> NoHook]
    /\ crashes = 0

UserStep(u) ==
    \/ FindPending(u) \/ CreateInvoice(u) \/ CreateOrder(u) \/ OrderFails(u)
    \/ FailCheckout(u) \/ StoreOrder(u) \/ ReturnSession(u) \/ UpdatePlan(u)
UserStart(u) == \E t \in Plans : StartPlanUpgrade(u, t) \/ ChangePlan(u, t)
Customer == \E o \in 1 .. Len(orders) :
    \/ \E type \in {"payment.failed", "authorized"}, n \in 1 .. MaxAttempts : Attempt(o, type, n)
    \/ \E full \in BOOLEAN : Pay(o, full)
HandlerStep(h) == ReadInvoice(h) \/ ApplyCapture(h) \/ ApplyFailure(h) \/ FinishEvent(h)

Next ==
    \/ \E u \in Users : UserStart(u) \/ UserStep(u) \/ UserCrash(u)
    \/ Customer
    \/ \E h \in Handlers : HandlerStep(h) \/ HandlerCrash(h)
    \/ \E h \in Handlers, e \in sent : Deliver(h, e)

Spec == Init /\ [][Next]_vars

\* The server carries on what it has started, and the provider delivers an
\* event again until it is answered.
Fairness ==
    /\ \A h \in Handlers : WF_vars(HandlerStep(h))
    /\ \A t \in {"payment.captured", "order.paid"}, o \in 1 .. MaxInvoices :
          WF_vars(\E h \in Handlers, e \in sent : e.type = t /\ e.order = o /\ Deliver(h, e))
FairSpec == Spec /\ Fairness

---------------------------------------------------------------------------
(* Properties *)

TypeOK ==
    /\ plan \in Plans
    /\ invoices \in Seq(Invoice) /\ orders \in Seq(Order)
    /\ shown \subseteq 1 .. Len(orders)
    /\ sent \subseteq Event /\ recorded \subseteq sent /\ answered \subseteq recorded
    /\ job \in [Users -> Job]
    /\ hook \in [Handlers -> Hook]

\* The provider has the full money for an order and says so.
FullMoney(o) == [type |-> "order.paid", order |-> o, full |-> TRUE, attempt |-> 0]

\* A payment never arrives for something there is no record of: an order a
\* browser can pay belongs to an invoice for its plan before it is shown
\* (startPlanUpgrade stores the order id and only then returns the session).
PaymentFindsItsInvoice ==
    \A o \in shown : \E i \in 1 .. Len(invoices) :
        invoices[i].order = o /\ invoices[i].target = orders[o].target

\* Nothing grants an upgrade nobody has paid for: the plan only gets dearer in
\* the step that marks paid an invoice for that very plan, whose order the
\* provider has the full money for (changePlan, applyCapture).
UpgradesArePaid ==
    [][CostsMore(plan', plan) =>
         \E i \in 1 .. Len(invoices) :
            /\ invoices[i].status # "PAID" /\ invoices'[i].status = "PAID"
            /\ invoices[i].target = plan'
            /\ orders[invoices[i].order].status = "paid"
            /\ FullMoney(invoices[i].order) \in sent]_vars

\* A failure delivered after the capture is out-of-order delivery and not a
\* reversal: the paid invoice stands (applyFailure).
PaidStaysPaid ==
    [][\A i \in 1 .. Len(invoices) :
         invoices[i].status = "PAID" => invoices'[i].status = "PAID"]_vars

\* An upgrade that waits for its payment is reused and not duplicated: no two
\* invoices with an order wait for one plan (startPlanUpgrade).
OneOrderWaitsPerPlan ==
    \A i, j \in 1 .. Len(invoices) :
        /\ i # j /\ invoices[i].target = invoices[j].target
        /\ invoices[i].status = "PENDING" /\ invoices[i].order # NoOrder
        => ~ (invoices[j].status = "PENDING" /\ invoices[j].order # NoOrder)

\* No invoice is marked paid without the full money for the very plan it is
\* for, whichever of the two events was applied (applyCapture).
PaidInvoicesHaveMoney ==
    \A i \in 1 .. Len(invoices) :
        invoices[i].status = "PAID" =>
          /\ FullMoney(invoices[i].order) \in sent
          /\ orders[invoices[i].order].target = invoices[i].target

\* Every order somebody could pay is accounted for: well formed, known to an
\* invoice for its plan, and that invoice paid only by its money
\* (startPlanUpgrade, applyCapture).
OrdersAreKnown == TypeOK /\ PaymentFindsItsInvoice /\ PaidInvoicesHaveMoney

\* Money the provider has is applied: an order paid in full has its invoice
\* paid in the end, although the event is recorded before it is applied and a
\* delivery may die in between, because the provider reports a payment under
\* two events (handleRazorpayWebhook).
PaidOrdersAreApplied ==
    \A o \in 1 .. MaxInvoices :
        FullMoney(o) \in sent
          ~> \E i \in 1 .. Len(invoices) : invoices[i].order = o /\ invoices[i].status = "PAID"

\* What two open orders for one upgrade would do: an invoice is paid for the
\* plan the company is already on (startPlanUpgrade, applyCapture).
NothingPaidTwice ==
    [][\A i \in 1 .. Len(invoices) :
         invoices[i].status # "PAID" /\ invoices'[i].status = "PAID"
           => plan # invoices[i].target]_vars
=============================================================================
