--------------------------- MODULE Billing_proofs ---------------------------
(* Theorems about Billing, for every number of users, deliveries and crashes: *)
(* the TLC run has one user and one delivery at a time.                       *)
EXTENDS Billing, SequenceTheorems, TLAPS

USE PricesAssumption, BoundsAssumption, TrialAssumption

---------------------------------------------------------------------------
(* The inductive invariant.                                                  *)

\* An invoice that has an order has one the provider knows, for its own plan.
Ordered(i) ==
    invoices[i].order # NoOrder =>
      /\ invoices[i].order \in 1 .. Len(orders)
      /\ orders[invoices[i].order].target = invoices[i].target

\* Between its invoice and its order a request is the only one to know either.
Holding(j) == j.at \in {"ordering", "failing", "storing"}
Opening(j) ==
    Holding(j) => /\ j.invoice \in 1 .. Len(invoices)
                  /\ invoices[j.invoice].order = NoOrder
                  /\ invoices[j.invoice].target = j.target
Storing(j) ==
    j.at = "storing" => /\ j.order \in 1 .. Len(orders)
                        /\ orders[j.order].target = j.target

\* What a browser is about to be shown belongs to an invoice.
Belongs(o) == \E i \in 1 .. Len(invoices) :
                 invoices[i].order = o /\ invoices[i].target = orders[o].target
Returning(j) == j.at = "returning" => j.order \in 1 .. Len(orders) /\ Belongs(j.order)

Checkout(j) == Opening(j) /\ Storing(j) /\ Returning(j)
OwnInvoices ==
    \A u, v \in Users :
        u # v /\ Holding(job[u]) /\ Holding(job[v]) => job[u].invoice # job[v].invoice

\* A delivery acts on an event that was sent, and on an invoice for its order.
Delivery(k) ==
    /\ k.at # "idle" => k.event \in recorded
    /\ k.at = "applying" => /\ k.invoice \in 1 .. Len(invoices)
                            /\ invoices[k.invoice].order = k.event.order

\* The provider reports a payment as an order too, and of an order it has.
Reported ==
    \A e \in sent : /\ e.order \in 1 .. Len(orders)
                    /\ Captured(e) /\ e.full => FullMoney(e.order) \in sent

IInv ==
    /\ TypeOK /\ PaymentFindsItsInvoice /\ PaidInvoicesHaveMoney
    /\ \A i \in 1 .. Len(invoices) : Ordered(i)
    /\ \A u \in Users : Checkout(job[u])
    /\ OwnInvoices
    /\ \A h \in Handlers : Delivery(hook[h])
    /\ Reported

---------------------------------------------------------------------------
(* What never goes back: an invoice keeps its plan and, once it has one, its *)
(* order; an order keeps its plan; an event stays sent and recorded.         *)

Kept ==
    /\ invoices' \in Seq(Invoice) /\ orders' \in Seq(Order)
    /\ Len(invoices) <= Len(invoices') /\ Len(orders) <= Len(orders')
    /\ \A i \in 1 .. Len(invoices) :
          /\ invoices'[i].target = invoices[i].target
          /\ invoices[i].order # NoOrder => invoices'[i].order = invoices[i].order
    /\ \A o \in 1 .. Len(orders) : orders'[o].target = orders[o].target
    /\ sent \subseteq sent' /\ recorded \subseteq recorded'

LEMMA SizeFacts ==
  ASSUME TypeOK
  PROVE  /\ Len(invoices) \in Nat /\ Len(orders) \in Nat
         /\ \A i \in 1 .. Len(invoices) : invoices[i] \in Invoice
         /\ \A o \in 1 .. Len(orders) : orders[o] \in Order
  BY DEF TypeOK

LEMMA NoJobFacts ==
  /\ NoJob \in Job /\ NoJob.at = "idle" /\ Checkout(NoJob) /\ ~ Holding(NoJob)
  BY DEF NoJob, Job, NoOrder, Plans, Checkout, Opening, Storing, Returning, Holding

LEMMA BelongsStays ==
  ASSUME TypeOK, Kept, NEW o \in 1 .. Len(orders), Belongs(o)
  PROVE  Belongs(o)'
  <1>1. PICK i \in 1 .. Len(invoices) :
           invoices[i].order = o /\ invoices[i].target = orders[o].target
    BY DEF Belongs
  <1>2. invoices[i].order # NoOrder
    BY <1>1 DEF NoOrder
  <1>3. i \in 1 .. Len(invoices') /\ invoices'[i].order = o
        /\ invoices'[i].target = orders'[o].target
    BY <1>1, <1>2, SizeFacts DEF Kept
  <1> QED
    BY <1>3 DEF Belongs

\* A request that does not hold an invoice stays sound whatever others do.
LEMMA ReturningStays ==
  ASSUME TypeOK, Kept, NEW j \in Job, Returning(j)
  PROVE  Returning(j)'
  BY BelongsStays, SizeFacts DEF Returning, Kept

LEMMA StoringStays ==
  ASSUME TypeOK, Kept, NEW j \in Job, Storing(j)
  PROVE  Storing(j)'
  BY SizeFacts DEF Storing, Kept

\* One that holds its invoice is, as long as nobody else gives it an order.
LEMMA CheckoutStays ==
  ASSUME TypeOK, Kept, NEW j \in Job, Checkout(j),
         Holding(j) => invoices'[j.invoice].order = invoices[j.invoice].order
  PROVE  Checkout(j)'
  <1>1. Opening(j)'
    BY SizeFacts DEF Checkout, Opening, Holding, Kept
  <1> QED
    BY <1>1, ReturningStays, StoringStays DEF Checkout

LEMMA EventFacts ==
  ASSUME TypeOK, Reported
  PROVE  \A e \in sent : e \in Event /\ e.order \in Nat \ {0} /\ e.order # NoOrder
  BY DEF TypeOK, Event, NoOrder

LEMMA DeliveryStays ==
  ASSUME TypeOK, Reported, Kept, NEW k, Delivery(k)
  PROVE  Delivery(k)'
  <1>1. CASE k.at = "applying"
    <2>1. k.event \in sent /\ k.invoice \in 1 .. Len(invoices)
          /\ invoices[k.invoice].order = k.event.order
      BY <1>1 DEF Delivery, TypeOK
    <2>2. invoices[k.invoice].order # NoOrder
      BY <2>1, EventFacts
    <2> QED
      BY <1>1, <2>1, <2>2, SizeFacts DEF Delivery, Kept
  <1>2. CASE k.at # "applying"
    BY <1>2 DEF Delivery, Kept
  <1> QED
    BY <1>1, <1>2

\* A paid invoice has an order the provider knows.
LEMMA PaidFacts ==
  ASSUME IInv, NEW i \in 1 .. Len(invoices), invoices[i].status = "PAID"
  PROVE  /\ FullMoney(invoices[i].order) \in sent
         /\ invoices[i].order \in 1 .. Len(orders) /\ invoices[i].order # NoOrder
         /\ orders[invoices[i].order].target = invoices[i].target
  <1>1. FullMoney(invoices[i].order) \in sent
    BY DEF IInv, PaidInvoicesHaveMoney, FullMoney
  <1>2. FullMoney(invoices[i].order).order = invoices[i].order
    BY DEF FullMoney
  <1>3. invoices[i].order # NoOrder
    BY <1>1, <1>2, EventFacts DEF IInv
  <1> QED
    BY <1>1, <1>3 DEF IInv, Ordered

LEMMA OrderedStays ==
  ASSUME IInv, Kept, Len(invoices') = Len(invoices),
         \A i \in 1 .. Len(invoices) : invoices'[i].order = invoices[i].order
  PROVE  \A i \in 1 .. Len(invoices') : Ordered(i)'
  <1> SUFFICES ASSUME NEW i \in 1 .. Len(invoices), invoices[i].order # NoOrder
               PROVE  /\ invoices[i].order \in 1 .. Len(orders')
                      /\ orders'[invoices[i].order].target = invoices'[i].target
    BY DEF Ordered
  <1>1. /\ invoices[i].order \in 1 .. Len(orders)
        /\ orders[invoices[i].order].target = invoices[i].target
    BY DEF IInv, Ordered
  <1> QED
    BY <1>1, SizeFacts DEF IInv, Kept

LEMMA ShownStays ==
  ASSUME IInv, Kept, shown' = shown
  PROVE  PaymentFindsItsInvoice'
  <1>1. ASSUME NEW o \in shown PROVE Belongs(o)'
    BY BelongsStays DEF IInv, TypeOK, PaymentFindsItsInvoice, Belongs
  <1> QED
    BY <1>1 DEF PaymentFindsItsInvoice, Belongs

LEMMA PaidStays ==
  ASSUME IInv, Kept,
         \A i \in 1 .. Len(invoices') :
            invoices'[i].status = "PAID" => i \in 1 .. Len(invoices) /\ invoices[i].status = "PAID"
  PROVE  PaidInvoicesHaveMoney'
  <1> SUFFICES ASSUME NEW i \in 1 .. Len(invoices'), invoices'[i].status = "PAID"
               PROVE  /\ FullMoney(invoices'[i].order) \in sent'
                      /\ orders'[invoices'[i].order].target = invoices'[i].target
    BY DEF PaidInvoicesHaveMoney, FullMoney
  <1>1. /\ i \in 1 .. Len(invoices) /\ FullMoney(invoices[i].order) \in sent
        /\ invoices[i].order \in 1 .. Len(orders) /\ invoices[i].order # NoOrder
        /\ orders[invoices[i].order].target = invoices[i].target
    BY PaidFacts
  <1> QED
    BY <1>1 DEF Kept

LEMMA DeliveriesStay ==
  ASSUME IInv, Kept, hook' = hook
  PROVE  \A h \in Handlers : Delivery(hook[h])'
  <1>1. ASSUME NEW h \in Handlers PROVE Delivery(hook[h])'
    <2>1. Delivery(hook[h])
      BY DEF IInv
    <2> QED
      BY <2>1, DeliveryStays DEF IInv, Delivery, Kept
  <1> QED
    BY <1>1

LEMMA ReportedStays ==
  ASSUME IInv, Kept, sent' = sent
  PROVE  Reported'
  BY SizeFacts DEF IInv, Kept, Reported, Captured

---------------------------------------------------------------------------
(* Steps of one user's request.                                              *)

\* Whatever it writes, what others hold and wait for is left as it was.
LEMMA UserWrites ==
  ASSUME IInv, NEW u \in Users, NEW j \in Job, job' = [job EXCEPT ![u] = j],
         Kept, plan' \in Plans, UNCHANGED <<shown, sent, answered, recorded, hook>>,
         \A i \in 1 .. Len(invoices') : Ordered(i)', PaidInvoicesHaveMoney', Checkout(j)',
         \A v \in Users :
            v # u /\ Holding(job[v]) =>
              /\ invoices'[job[v].invoice].order = invoices[job[v].invoice].order
              /\ Holding(j) => j.invoice # job[v].invoice
  PROVE  IInv'
  <1>1. TypeOK'
    BY SizeFacts DEF IInv, TypeOK, Kept
  <1>2. ASSUME NEW v \in Users PROVE Checkout(job[v])'
    <2>1. job'[v] = IF v = u THEN j ELSE job[v]
      BY DEF IInv, TypeOK
    <2>2. Checkout(job[v]) /\ job[v] \in Job
      BY DEF IInv, TypeOK
    <2>3. CASE v = u
      BY <2>1, <2>3 DEF Checkout, Opening, Storing, Returning, Belongs, Holding
    <2>4. CASE v # u
      <3>1. PICK w \in Job : w = job[v]
        BY <2>2
      <3>2. job'[v] = w
        BY <2>1, <2>4, <3>1
      <3>3. Checkout(w)'
        BY <2>2, <2>4, <3>1, CheckoutStays DEF IInv
      <3> QED
        BY <3>2, <3>3 DEF Checkout, Opening, Storing, Returning, Belongs, Holding
    <2> QED
      BY <2>3, <2>4
  <1>3. OwnInvoices'
    <2> SUFFICES ASSUME NEW v \in Users, NEW w \in Users, v # w,
                        Holding(job'[v]), Holding(job'[w])
                 PROVE  job'[v].invoice # job'[w].invoice
      BY DEF OwnInvoices, Holding
    <2>1. \A x \in Users : job'[x] = IF x = u THEN j ELSE job[x]
      BY DEF IInv, TypeOK
    <2> QED
      BY <2>1 DEF IInv, OwnInvoices
  <1>4. PaymentFindsItsInvoice' /\ Reported' /\ \A h \in Handlers : Delivery(hook[h])'
    BY ShownStays, ReportedStays, DeliveriesStay
  <1> QED
    BY <1>1, <1>2, <1>3, <1>4 DEF IInv

\* It goes on without touching an invoice, and holds none it did not hold.
LEMMA UserMove ==
  ASSUME IInv, NEW u \in Users, NEW j \in Job, job' = [job EXCEPT ![u] = j],
         Holding(j) => Holding(job[u]) /\ j.invoice = job[u].invoice,
         Checkout(j)', plan' \in Plans, Kept,
         UNCHANGED <<invoices, shown, sent, answered, recorded, hook>>
  PROVE  IInv'
  <1>1. \A v \in Users : v # u /\ Holding(job[v]) /\ Holding(j) => j.invoice # job[v].invoice
    BY DEF IInv, OwnInvoices
  <1>2. (\A i \in 1 .. Len(invoices') : Ordered(i)') /\ PaidInvoicesHaveMoney'
    BY OrderedStays, PaidStays
  <1> QED
    BY <1>1, <1>2, UserWrites

\* The new order is for the plan the request wants; nobody has seen it yet.
LEMMA OrderKept ==
  ASSUME IInv, NEW t \in Plans, UNCHANGED <<invoices, sent, recorded>>,
         orders' = Append(orders, [target |-> t, status |-> "created"])
  PROVE  /\ Kept /\ Len(orders') = Len(orders) + 1
         /\ orders'[Len(orders) + 1].target = t
  <1>1. [target |-> t, status |-> "created"] \in Order
    BY DEF Order
  <1> QED
    BY <1>1, SizeFacts DEF IInv, TypeOK, Kept

LEMMA NothingKept ==
  ASSUME IInv, UNCHANGED <<invoices, orders, sent, recorded>>
  PROVE  Kept
  BY SizeFacts DEF IInv, TypeOK, Kept

\* A job that is started anew.
LEMMA NewJob ==
  ASSUME NEW op \in {"UPGRADE", "CHANGE"}, NEW t \in Plans, NEW at \in {"finding", "updating"}
  PROVE  /\ [NoJob EXCEPT !.op = op, !.target = t, !.at = at] \in Job
         /\ [NoJob EXCEPT !.op = op, !.target = t, !.at = at].at = at
  <1>1. [NoJob EXCEPT !.op = op] \in Job
    BY NoJobFacts DEF Job
  <1>2. [NoJob EXCEPT !.op = op, !.target = t] \in Job
    BY <1>1 DEF Job
  <1> QED
    BY <1>2 DEF Job

LEMMA UserStartStep ==
  ASSUME IInv, NEW u \in Users, UserStart(u)
  PROVE  IInv'
  <1>1. PICK t \in Plans : StartPlanUpgrade(u, t) \/ ChangePlan(u, t)
    BY DEF UserStart
  <1>2. PICK j \in Job : /\ job' = [job EXCEPT ![u] = j] /\ j.at \in {"finding", "updating"}
    <2>1. CASE StartPlanUpgrade(u, t)
      BY <2>1, NewJob DEF StartPlanUpgrade
    <2>2. CASE ChangePlan(u, t)
      BY <2>2, NewJob DEF ChangePlan
    <2> QED
      BY <1>1, <2>1, <2>2
  <1>3. ~ Holding(j) /\ Checkout(j)'
    BY <1>2 DEF Holding, Checkout, Opening, Storing, Returning
  <1>4. UNCHANGED <<plan, invoices, orders, shown, sent, answered, recorded, hook>>
    BY <1>1 DEF StartPlanUpgrade, ChangePlan, books, KeepsProvider, provider, KeepsHooks
  <1> QED
    BY <1>2, <1>3, <1>4, UserMove, NothingKept DEF IInv, TypeOK

LEMMA DoneStep ==
  ASSUME IInv, NEW u \in Users, Done(u), plan' \in Plans,
         UNCHANGED <<invoices, orders, shown, sent, answered, recorded, hook>>
  PROVE  IInv'
  <1>1. NoJob \in Job /\ ~ Holding(NoJob) /\ Checkout(NoJob)'
    BY NoJobFacts DEF NoJob, Checkout, Opening, Storing, Returning, Holding
  <1>2. job' = [job EXCEPT ![u] = NoJob]
    BY DEF Done
  <1> QED
    BY <1>1, <1>2, UserMove, NothingKept

LEMMA FindPendingStep ==
  ASSUME IInv, NEW u \in Users, FindPending(u)
  PROVE  IInv'
  <1>1. /\ job[u] \in Job /\ job \in [Users -> Job]
        /\ UNCHANGED <<plan, invoices, orders, shown, sent, answered, recorded, hook>>
    BY DEF IInv, TypeOK, FindPending, books, KeepsProvider, provider, KeepsHooks
  <1>2. CASE OpenInvoices(u) = {}
    <2>1. PICK j \in Job : job' = [job EXCEPT ![u] = j] /\ j.at = "invoicing"
      <3>1. [job[u] EXCEPT !.at = "invoicing"] \in Job
        BY <1>1 DEF Job
      <3> QED
        BY <1>1, <1>2, <3>1 DEF FindPending, Goto, Job
    <2>2. ~ Holding(j) /\ Checkout(j)'
      BY <2>1 DEF Holding, Checkout, Opening, Storing, Returning
    <2> QED
      BY <1>1, <2>1, <2>2, UserMove, NothingKept DEF IInv, TypeOK
  <1>3. CASE OpenInvoices(u) # {}
    <2>1. PICK i \in OpenInvoices(u) :
             job' = [job EXCEPT ![u].at = "returning", ![u].order = invoices[i].order]
      BY <1>3 DEF FindPending
    <2>2. i \in 1 .. Len(invoices) /\ invoices[i] \in Invoice /\ invoices[i].order # NoOrder
      BY <1>1, <2>1, SizeFacts DEF OpenInvoices, IInv
    <2>3. PICK j \in Job : /\ job' = [job EXCEPT ![u] = j]
                           /\ j.at = "returning" /\ j.order = invoices[i].order
      <3>1. [job[u] EXCEPT !.at = "returning", !.order = invoices[i].order] \in Job
        BY <1>1, <2>2 DEF Job, Invoice
      <3> QED
        BY <1>1, <2>1, <3>1 DEF Job
    <2>4. j.order \in 1 .. Len(orders) /\ Belongs(j.order)
      BY <2>2, <2>3 DEF IInv, Ordered, Belongs
    <2>5. ~ Holding(j) /\ Checkout(j)
      BY <2>3, <2>4 DEF Holding, Checkout, Opening, Storing, Returning
    <2>6. Checkout(j)'
      BY <1>1, <2>3, <2>5, NothingKept, CheckoutStays DEF IInv
    <2> QED
      BY <1>1, <2>3, <2>5, <2>6, UserMove, NothingKept DEF IInv, TypeOK
  <1> QED
    BY <1>2, <1>3

LEMMA CreateInvoiceStep ==
  ASSUME IInv, NEW u \in Users, CreateInvoice(u)
  PROVE  IInv'
  <1> DEFINE new == [status |-> "PENDING", target |-> job[u].target, order |-> NoOrder]
             n == Len(invoices) + 1
  <1>1. /\ job[u] \in Job /\ n \in Nat /\ invoices \in Seq(Invoice)
        /\ UNCHANGED <<plan, orders, shown, sent, answered, recorded, hook>>
    BY SizeFacts DEF IInv, TypeOK, CreateInvoice, KeepsProvider, provider, KeepsHooks
  <1>2. new \in Invoice
    BY <1>1 DEF Job, Invoice, NoOrder
  <1>3. invoices' = Append(invoices, new)
    BY DEF CreateInvoice
  <1>4. PICK j \in Job : /\ job' = [job EXCEPT ![u] = j] /\ j.at = "ordering"
                         /\ j.invoice = n /\ j.target = job[u].target
    <2>1. [job[u] EXCEPT !.at = "ordering", !.invoice = n] \in Job
      BY <1>1 DEF Job
    <2> QED
      BY <1>1, <2>1 DEF CreateInvoice, Job
  <1>5. new.order = NoOrder /\ new.target = job[u].target /\ new.status = "PENDING"
    OBVIOUS
  <1> HIDE DEF new
  <1>6. /\ invoices' \in Seq(Invoice) /\ Len(invoices') = n /\ invoices'[n] = new
        /\ \A i \in 1 .. Len(invoices) : invoices'[i] = invoices[i]
    BY <1>1, <1>2, <1>3
  <1>7. Kept
    <2>1. invoices' \in Seq(Invoice) /\ Len(invoices) <= Len(invoices')
      BY <1>1, <1>6, SizeFacts DEF IInv
    <2>2. orders' \in Seq(Order) /\ Len(orders) <= Len(orders')
      BY <1>1, SizeFacts DEF IInv, TypeOK
    <2> QED
      BY <1>1, <1>6, <2>1, <2>2 DEF Kept
  <1>8. ASSUME NEW i \in 1 .. Len(invoices') PROVE Ordered(i)'
    <2>1. CASE i = n
      BY <1>5, <1>6, <2>1 DEF Ordered
    <2>2. CASE i # n
      <3>1. i \in 1 .. Len(invoices) /\ invoices'[i] = invoices[i]
        BY <1>1, <1>6, <2>2
      <3> QED
        BY <1>1, <3>1 DEF IInv, Ordered
    <2> QED
      BY <2>1, <2>2
  <1>9. PaidInvoicesHaveMoney'
    BY <1>1, <1>5, <1>6, <1>7, PaidStays
  <1>10. Checkout(j)'
    BY <1>1, <1>4, <1>5, <1>6 DEF Checkout, Opening, Storing, Returning, Holding
  <1>11. ASSUME NEW v \in Users, v # u, Holding(job[v])
         PROVE  /\ invoices'[job[v].invoice].order = invoices[job[v].invoice].order
                /\ j.invoice # job[v].invoice
    <2>1. job[v].invoice \in 1 .. Len(invoices)
      BY <1>11 DEF IInv, Checkout, Opening
    <2> QED
      BY <1>1, <1>4, <1>6, <2>1
  <1> QED
    BY <1>1, <1>4, <1>7, <1>8, <1>9, <1>10, <1>11, UserWrites DEF IInv, TypeOK

\* An order the provider made, stored or not, is nobody's yet.
LEMMA CreateOrderStep ==
  ASSUME IInv, NEW u \in Users, CreateOrder(u)
  PROVE  IInv'
  <1>1. /\ job[u] \in Job /\ job[u].target \in Plans /\ Checkout(job[u]) /\ Holding(job[u])
        /\ Len(orders) \in Nat
        /\ UNCHANGED <<plan, invoices, shown, sent, answered, recorded, hook>>
        /\ orders' = Append(orders, [target |-> job[u].target, status |-> "created"])
    BY SizeFacts DEF IInv, TypeOK, Job, CreateOrder, KeepsHooks, Holding
  <1>2. PICK j \in Job : /\ job' = [job EXCEPT ![u] = j] /\ j.at = "storing"
                         /\ j.order = Len(orders) + 1 /\ j.target = job[u].target
                         /\ j.invoice = job[u].invoice
    <2> DEFINE o == Len(orders) + 1
    <2>0. o \in Nat
      BY <1>1
    <2> HIDE DEF o
    <2>1. [job[u] EXCEPT !.at = "storing", !.order = o] \in Job
      BY <1>1, <2>0 DEF Job
    <2> USE DEF o
    <2> QED
      BY <1>1, <2>1 DEF CreateOrder, Job
  <1>3. /\ Kept /\ Len(orders') = Len(orders) + 1
        /\ orders'[Len(orders) + 1].target = job[u].target
    BY <1>1, OrderKept
  <1>4. Checkout(j)'
    BY <1>1, <1>2, <1>3 DEF Checkout, Opening, Storing, Returning, Holding
  <1> QED
    BY <1>1, <1>2, <1>3, <1>4, UserMove DEF IInv, TypeOK

LEMMA OrderFailsStep ==
  ASSUME IInv, NEW u \in Users, OrderFails(u)
  PROVE  IInv'
  <1>1. /\ job[u] \in Job /\ job[u].target \in Plans /\ Checkout(job[u]) /\ Holding(job[u])
        /\ UNCHANGED <<plan, invoices, shown, sent, answered, recorded, hook>>
        /\ \/ UNCHANGED orders
           \/ orders' = Append(orders, [target |-> job[u].target, status |-> "created"])
    BY DEF IInv, TypeOK, Job, OrderFails, KeepsHooks, Holding
  <1>2. PICK j \in Job : /\ job' = [job EXCEPT ![u] = j] /\ j.at = "failing"
                         /\ j.target = job[u].target /\ j.invoice = job[u].invoice
    <2>1. [job[u] EXCEPT !.at = "failing"] \in Job
      BY <1>1 DEF Job
    <2> QED
      BY <1>1, <2>1 DEF OrderFails, Goto, Job
  <1>3. Kept
    BY <1>1, OrderKept, NothingKept
  <1>4. Checkout(j)'
    BY <1>1, <1>2 DEF Checkout, Opening, Storing, Returning, Holding
  <1> QED
    BY <1>1, <1>2, <1>3, <1>4, UserMove DEF IInv, TypeOK

LEMMA InvoiceWritten ==
  ASSUME IInv, NEW i \in 1 .. Len(invoices), NEW new \in Invoice,
         invoices' = [invoices EXCEPT ![i] = new]
  PROVE  /\ invoices' \in Seq(Invoice) /\ Len(invoices') = Len(invoices)
         /\ invoices'[i] = new
         /\ \A k \in 1 .. Len(invoices) : k # i => invoices'[k] = invoices[k]
  BY ExceptSeq DEF IInv, TypeOK

\* An invoice's status is written and nothing else of it.
LEMMA StatusWritten ==
  ASSUME IInv, NEW i \in 1 .. Len(invoices), NEW st \in {"PENDING", "PAID", "FAILED"},
         invoices' = [invoices EXCEPT ![i].status = st],
         UNCHANGED <<orders, sent>>, recorded \subseteq recorded'
  PROVE  /\ Kept /\ Len(invoices') = Len(invoices) /\ invoices'[i].status = st
         /\ \A k \in 1 .. Len(invoices) : /\ invoices'[k].order = invoices[k].order
                                          /\ invoices'[k].target = invoices[k].target
                                          /\ k # i => invoices'[k].status = invoices[k].status
  <1>1. invoices \in Seq(Invoice) /\ invoices[i] \in Invoice /\ orders \in Seq(Order)
    BY DEF IInv, TypeOK
  <1> DEFINE new == [invoices[i] EXCEPT !.status = st]
  <1>2. /\ new \in Invoice /\ new.status = st
        /\ new.order = invoices[i].order /\ new.target = invoices[i].target
    BY <1>1 DEF Invoice
  <1>3. invoices' = [invoices EXCEPT ![i] = new]
    BY <1>1
  <1> HIDE DEF new
  <1>4. /\ invoices' \in Seq(Invoice) /\ Len(invoices') = Len(invoices) /\ invoices'[i] = new
        /\ \A k \in 1 .. Len(invoices) : k # i => invoices'[k] = invoices[k]
    BY <1>2, <1>3, InvoiceWritten
  <1> QED
    BY <1>1, <1>2, <1>4, SizeFacts DEF IInv, Kept

LEMMA FailCheckoutStep ==
  ASSUME IInv, NEW u \in Users, FailCheckout(u)
  PROVE  IInv'
  <1>1. /\ job[u] \in Job /\ job[u].invoice \in 1 .. Len(invoices)
        /\ UNCHANGED <<plan, orders, shown, sent, answered, recorded, hook>>
        /\ invoices' = [invoices EXCEPT ![job[u].invoice].status = "FAILED"]
        /\ job' = [job EXCEPT ![u] = NoJob]
    BY DEF IInv, TypeOK, Checkout, Opening, Holding, FailCheckout, KeepsProvider, provider,
           KeepsHooks, Done
  <1>2. /\ Kept /\ Len(invoices') = Len(invoices)
        /\ invoices'[job[u].invoice].status = "FAILED"
        /\ \A k \in 1 .. Len(invoices) :
              /\ invoices'[k].order = invoices[k].order
              /\ k # job[u].invoice => invoices'[k].status = invoices[k].status
    BY <1>1, StatusWritten
  <1>3. (\A i \in 1 .. Len(invoices') : Ordered(i)') /\ PaidInvoicesHaveMoney'
    BY <1>2, OrderedStays, PaidStays
  <1>4. NoJob \in Job /\ ~ Holding(NoJob) /\ Checkout(NoJob)'
    BY NoJobFacts DEF NoJob, Checkout, Opening, Storing, Returning, Holding
  <1>5. \A v \in Users : Holding(job[v]) =>
           invoices'[job[v].invoice].order = invoices[job[v].invoice].order
    BY <1>2 DEF IInv, Checkout, Opening
  <1> QED
    BY <1>1, <1>2, <1>3, <1>4, <1>5, UserWrites DEF IInv, TypeOK

\* The invoice whose order is stored had none, and nobody else holds it.
LEMMA StoreOrderStep ==
  ASSUME IInv, NEW u \in Users, StoreOrder(u)
  PROVE  IInv'
  <1>0. PICK n \in Nat, o \in Nat : n = job[u].invoice /\ o = job[u].order
    BY DEF IInv, TypeOK, Job
  <1>1. /\ job[u] \in Job /\ n \in 1 .. Len(invoices) /\ invoices[n].order = NoOrder
        /\ invoices[n].target = job[u].target
        /\ o \in 1 .. Len(orders) /\ orders[o].target = job[u].target /\ Holding(job[u])
    BY <1>0 DEF IInv, TypeOK, Checkout, Opening, Storing, Holding, StoreOrder
  <1>2. /\ UNCHANGED <<plan, orders, shown, sent, answered, recorded, hook>>
        /\ invoices' = [invoices EXCEPT ![n].order = o]
    BY <1>0 DEF StoreOrder, OrderStored, KeepsProvider, provider, KeepsHooks
  <1>3. invoices \in Seq(Invoice) /\ invoices[n] \in Invoice /\ orders \in Seq(Order)
        /\ Len(orders) \in Nat /\ o \in Nat
    BY <1>1, SizeFacts DEF IInv, TypeOK
  <1> DEFINE new == [invoices[n] EXCEPT !.order = o]
  <1>4. new \in Invoice /\ new.order = o /\ new.target = invoices[n].target
        /\ new.status = invoices[n].status
    BY <1>3 DEF Invoice
  <1>5. invoices' = [invoices EXCEPT ![n] = new]
    BY <1>1, <1>2, <1>3
  <1>6. PICK j \in Job : job' = [job EXCEPT ![u] = j] /\ j.at = "returning" /\ j.order = o
    <2>1. [job[u] EXCEPT !.at = "returning"] \in Job
      BY <1>1 DEF Job
    <2> QED
      BY <1>0, <1>1, <2>1 DEF StoreOrder, Goto, Job
  <1> HIDE DEF new
  <1>7. /\ invoices' \in Seq(Invoice) /\ Len(invoices') = Len(invoices) /\ invoices'[n] = new
        /\ \A k \in 1 .. Len(invoices) : k # n => invoices'[k] = invoices[k]
    BY <1>1, <1>4, <1>5, InvoiceWritten
  <1>8. Kept
    BY <1>1, <1>2, <1>3, <1>4, <1>7, SizeFacts DEF IInv, Kept
  <1>9. ASSUME NEW i \in 1 .. Len(invoices') PROVE Ordered(i)'
    <2>1. CASE i = n
      BY <1>1, <1>2, <1>4, <1>7, <2>1 DEF Ordered
    <2>2. CASE i # n
      BY <1>2, <1>7, <2>2 DEF IInv, Ordered
    <2> QED
      BY <2>1, <2>2
  <1>10. PaidInvoicesHaveMoney'
    <2>1. \A i \in 1 .. Len(invoices') : invoices'[i].status = invoices[i].status
      BY <1>4, <1>7
    <2> QED
      BY <1>7, <1>8, <2>1, PaidStays
  <1>11. Belongs(o)'
    BY <1>1, <1>2, <1>4, <1>7 DEF Belongs
  <1>12. ~ Holding(j) /\ Checkout(j)'
    BY <1>1, <1>2, <1>6, <1>11 DEF Checkout, Opening, Storing, Returning, Holding, Belongs
  <1>13. ASSUME NEW v \in Users, v # u, Holding(job[v])
         PROVE  invoices'[job[v].invoice].order = invoices[job[v].invoice].order
    <2>1. job[v].invoice \in 1 .. Len(invoices) /\ job[v].invoice # n
      BY <1>0, <1>1, <1>13 DEF IInv, Checkout, Opening, OwnInvoices
    <2> QED
      BY <1>7, <2>1
  <1> QED
    BY <1>2, <1>6, <1>8, <1>9, <1>10, <1>12, <1>13, UserWrites DEF IInv, TypeOK

LEMMA ReturnSessionStep ==
  ASSUME IInv, NEW u \in Users, ReturnSession(u)
  PROVE  IInv'
  <1>1. /\ job[u].order \in 1 .. Len(orders) /\ Belongs(job[u].order)
        /\ UNCHANGED <<plan, invoices, orders, sent, answered, recorded, hook>>
        /\ shown' = shown \union {job[u].order} /\ job' = [job EXCEPT ![u] = NoJob]
    BY DEF IInv, Checkout, Returning, ReturnSession, books, KeepsHooks, Done
  <1>2. TypeOK'
    BY <1>1, NoJobFacts DEF IInv, TypeOK
  <1>3. PaymentFindsItsInvoice'
    BY <1>1 DEF IInv, PaymentFindsItsInvoice, Belongs
  <1>4. ASSUME NEW v \in Users PROVE Checkout(job[v])'
    <2>1. job'[v] = NoJob \/ job'[v] = job[v]
      BY <1>1 DEF IInv, TypeOK
    <2>2. Checkout(job'[v])
      BY <2>1, NoJobFacts DEF IInv
    <2> QED
      BY <1>1, <2>2 DEF Checkout, Opening, Storing, Returning, Belongs, Holding
  <1>5. OwnInvoices'
    <2>1. \A v \in Users : job'[v] = NoJob \/ job'[v] = job[v]
      BY <1>1 DEF IInv, TypeOK
    <2> QED
      BY <2>1 DEF IInv, OwnInvoices, Holding, NoJob
  <1>6. PaidInvoicesHaveMoney' /\ \A i \in 1 .. Len(invoices') : Ordered(i)'
    BY <1>1 DEF IInv, PaidInvoicesHaveMoney, Ordered
  <1>7. Reported' /\ \A h \in Handlers : Delivery(hook[h])'
    BY <1>1 DEF IInv, Reported, Delivery, Captured
  <1> QED
    BY <1>2, <1>3, <1>4, <1>5, <1>6, <1>7 DEF IInv

LEMMA UserStepStep ==
  ASSUME IInv, NEW u \in Users, UserStep(u) \/ UserCrash(u)
  PROVE  IInv'
  <1>1. CASE UpdatePlan(u)
    <2>1. plan' \in Plans /\ Done(u)
          /\ UNCHANGED <<invoices, orders, shown, sent, answered, recorded, hook>>
      BY <1>1 DEF IInv, TypeOK, Job, UpdatePlan, KeepsProvider, provider, KeepsHooks
    <2> QED
      BY <2>1, DoneStep
  <1>2. CASE UserCrash(u)
    <2>1. plan' \in Plans /\ Done(u)
          /\ UNCHANGED <<invoices, orders, shown, sent, answered, recorded, hook>>
      BY <1>2 DEF IInv, TypeOK, UserCrash, books, KeepsProvider, provider
    <2> QED
      BY <2>1, DoneStep
  <1> QED
    BY <1>1, <1>2, FindPendingStep, CreateInvoiceStep, CreateOrderStep, OrderFailsStep,
       FailCheckoutStep, StoreOrderStep, ReturnSessionStep DEF UserStep

---------------------------------------------------------------------------
(* The customer's bank and the provider.                                     *)

LEMMA UsersStay ==
  ASSUME IInv, Kept, job' = job,
         \A i \in 1 .. Len(invoices) : invoices'[i].order = invoices[i].order
  PROVE  (\A u \in Users : Checkout(job[u])') /\ OwnInvoices'
  <1>1. ASSUME NEW u \in Users PROVE Checkout(job[u])'
    <2>1. Checkout(job[u]) /\ job[u] \in Job
      BY DEF IInv, TypeOK
    <2>2. PICK j \in Job : j = job[u]
      BY <2>1
    <2>3. Holding(j) => invoices'[j.invoice].order = invoices[j.invoice].order
      BY <2>1, <2>2 DEF Checkout, Opening
    <2>4. Checkout(j)'
      BY <2>1, <2>2, <2>3, CheckoutStays DEF IInv
    <2>5. job'[u] = j
      BY <2>2
    <2> QED
      BY <2>4, <2>5 DEF Checkout, Opening, Storing, Returning, Belongs, Holding
  <1>2. OwnInvoices'
    BY DEF IInv, OwnInvoices, Holding
  <1> QED
    BY <1>1, <1>2

\* What the provider has to tell, it tells of orders it has.
LEMMA CustomerStep ==
  ASSUME IInv, Customer
  PROVE  IInv'
  <1>1. PICK o \in 1 .. Len(orders) :
           \/ \E type \in {"payment.failed", "authorized"}, n \in 1 .. MaxAttempts :
                 Attempt(o, type, n)
           \/ \E full \in BOOLEAN : Pay(o, full)
    BY DEF Customer
  <1>2. /\ UNCHANGED <<plan, invoices, shown, answered, recorded, job, hook>>
        /\ orders' = orders \/ orders' = [orders EXCEPT ![o].status = "paid"]
    BY <1>1 DEF Attempt, Pay, books
  <1>3. /\ orders' \in Seq(Order) /\ Len(orders') = Len(orders)
        /\ \A k \in 1 .. Len(orders) : orders'[k].target = orders[k].target
    <2>1. CASE orders' = orders
      BY <2>1, SizeFacts DEF IInv, TypeOK
    <2>2. CASE orders' = [orders EXCEPT ![o].status = "paid"]
      <3>1. orders[o] \in Order /\ orders \in Seq(Order)
        BY SizeFacts DEF IInv, TypeOK
      <3> DEFINE new == [orders[o] EXCEPT !.status = "paid"]
      <3>2. new \in Order /\ new.target = orders[o].target
        BY <3>1 DEF Order
      <3>3. orders' = [orders EXCEPT ![o] = new]
        BY <2>2, <3>1
      <3> HIDE DEF new
      <3> QED
        BY <3>1, <3>2, <3>3, ExceptSeq
    <2> QED
      BY <1>2, <2>1, <2>2
  <1>4. /\ sent \subseteq sent' /\ sent' \subseteq Event
        /\ \A e \in sent' \ sent : /\ e.order = o
                                   /\ Captured(e) /\ e.full => FullMoney(o) \in sent'
    <2>1. o \in Nat \ {0}
      BY SizeFacts DEF IInv
    <2>2. ASSUME NEW type \in {"payment.failed", "authorized"}, NEW n \in 1 .. MaxAttempts,
                 Attempt(o, type, n)
          PROVE  /\ sent \subseteq sent' /\ sent' \subseteq Event
                 /\ \A e \in sent' \ sent : e.order = o /\ ~ Captured(e)
      <3>1. sent' = sent \union {Report(type, o, n)}
        BY <2>2 DEF Attempt
      <3>2. n \in Nat
        BY BoundsAssumption
      <3>3. Report(type, o, n) \in Event
        BY <2>1, <3>2 DEF Event, Report
      <3>4. sent \subseteq sent' /\ sent' \subseteq Event
        BY <3>1, <3>3 DEF IInv, TypeOK
      <3>5. ASSUME NEW e \in sent' \ sent PROVE e.order = o /\ ~ Captured(e)
        BY <3>1, <3>5 DEF Captured, Report
      <3> QED
        BY <3>4, <3>5
    <2>3. ASSUME NEW full \in BOOLEAN, Pay(o, full)
          PROVE  /\ sent \subseteq sent' /\ sent' \subseteq Event
                 /\ \A e \in sent' \ sent : /\ e.order = o
                                            /\ Captured(e) /\ e.full => FullMoney(o) \in sent'
      <3>1. sent' = sent \union {[type |-> "payment.captured", order |-> o, full |-> full, attempt |-> 0],
                                 [type |-> "order.paid", order |-> o, full |-> full, attempt |-> 0]}
        BY <2>3 DEF Pay
      <3>2. [type |-> "order.paid", order |-> o, full |-> full, attempt |-> 0] \in sent'
        BY <3>1
      <3>3. full = TRUE => FullMoney(o) \in sent'
        BY <3>2 DEF FullMoney
      <3>4. \A e \in sent' \ sent : e \in Event /\ e.order = o /\ e.full = full
        BY <2>1, <3>1 DEF Event
      <3>5. sent \subseteq sent' /\ sent' \subseteq Event
        BY <3>1, <3>4 DEF IInv, TypeOK
      <3>6. ASSUME NEW e \in sent' \ sent, e.full PROVE FullMoney(o) \in sent'
        BY <3>3, <3>4, <3>6
      <3> QED
        BY <3>4, <3>5, <3>6
    <2> QED
      BY <1>1, <2>2, <2>3
  <1>5. Kept
    BY <1>2, <1>3, <1>4, SizeFacts DEF IInv, TypeOK, Kept
  <1>6. TypeOK'
    BY <1>2, <1>3, <1>4, SizeFacts DEF IInv, TypeOK
  <1>7. PaymentFindsItsInvoice' /\ PaidInvoicesHaveMoney'
        /\ (\A i \in 1 .. Len(invoices') : Ordered(i)')
        /\ (\A h \in Handlers : Delivery(hook[h])')
    BY <1>2, <1>5, ShownStays, PaidStays, OrderedStays, DeliveriesStay
  <1>8. (\A u \in Users : Checkout(job[u])') /\ OwnInvoices'
    BY <1>2, <1>5, UsersStay
  <1>9. Reported'
    <2> SUFFICES ASSUME NEW e \in sent'
                 PROVE  /\ e.order \in 1 .. Len(orders')
                        /\ Captured(e) /\ e.full => FullMoney(e.order) \in sent'
      BY DEF Reported, Captured, FullMoney
    <2>1. CASE e \in sent
      BY <1>3, <1>4, <2>1 DEF IInv, Reported
    <2>2. CASE e \notin sent
      BY <1>3, <1>4, <2>2
    <2> QED
      BY <2>1, <2>2
  <1> QED
    BY <1>6, <1>7, <1>8, <1>9 DEF IInv

---------------------------------------------------------------------------
(* Steps of one delivery.                                                    *)

\* It goes on without touching an invoice or the plan.
LEMMA HookMove ==
  ASSUME IInv, NEW h \in Handlers, NEW k \in Hook, hook' = [hook EXCEPT ![h] = k],
         Delivery(k)', recorded \subseteq recorded', recorded' \subseteq sent,
         answered' \subseteq recorded',
         UNCHANGED <<plan, invoices, orders, shown, sent, job>>
  PROVE  IInv'
  <1>1. Kept
    BY SizeFacts DEF IInv, TypeOK, Kept
  <1>2. TypeOK'
    BY DEF IInv, TypeOK
  <1>3. ASSUME NEW g \in Handlers PROVE Delivery(hook[g])'
    <2>1. hook'[g] = IF g = h THEN k ELSE hook[g]
      BY DEF IInv, TypeOK
    <2>2. CASE g = h
      BY <2>1, <2>2 DEF Delivery
    <2>3. CASE g # h
      BY <2>1, <2>3 DEF IInv, Delivery
    <2> QED
      BY <2>2, <2>3
  <1>4. (\A u \in Users : Checkout(job[u])') /\ OwnInvoices'
    BY <1>1, UsersStay
  <1>5. PaymentFindsItsInvoice' /\ PaidInvoicesHaveMoney' /\ Reported'
        /\ \A i \in 1 .. Len(invoices') : Ordered(i)'
    BY <1>1, ShownStays, PaidStays, ReportedStays, OrderedStays
  <1> QED
    BY <1>2, <1>3, <1>4, <1>5 DEF IInv

LEMMA NoHookFacts == NoHook \in Hook /\ NoHook.at = "idle"
  BY DEF NoHook, Hook

LEMMA HookFacts ==
  ASSUME IInv, NEW h \in Handlers
  PROVE  /\ hook[h] \in Hook /\ Delivery(hook[h]) /\ hook \in [Handlers -> Hook]
         /\ hook[h].at # "idle" => hook[h].event \in recorded /\ hook[h].event \in Event
         /\ hook[h].at = "applying" => hook[h].invoice \in Nat /\ hook[h].planRead \in Plans
  <1>1. hook[h] \in Hook /\ Delivery(hook[h]) /\ hook \in [Handlers -> Hook]
    BY DEF IInv, TypeOK
  <1> QED
    BY <1>1 DEF Hook, NoHook, Delivery, IInv, TypeOK

LEMMA DeliverStep ==
  ASSUME IInv, NEW h \in Handlers, NEW e \in sent, Deliver(h, e)
  PROVE  IInv'
  <1>1. UNCHANGED <<plan, invoices, orders, shown, sent, job>>
    BY DEF Deliver, books
  <1>2. CASE e \in recorded
    <2>1. PICK k \in Hook : k = hook[h]
      BY HookFacts
    <2>2. hook' = [hook EXCEPT ![h] = k] /\ recorded' = recorded
          /\ answered' = answered \union {e}
      BY <1>2, <2>1, HookFacts DEF Deliver
    <2>3. Delivery(k)'
      BY <1>1, <2>1, <2>2, HookFacts DEF Delivery
    <2> QED
      BY <1>1, <1>2, <2>2, <2>3, HookMove DEF IInv, TypeOK
  <1>3. CASE e \notin recorded
    <2>1. PICK k \in Hook : k = [at |-> "reading", event |-> e]
      BY DEF IInv, TypeOK, Hook
    <2>2. hook' = [hook EXCEPT ![h] = k] /\ recorded' = recorded \union {e}
          /\ answered' = answered
      BY <1>3, <2>1 DEF Deliver, Recording
    <2>3. Delivery(k)'
      BY <2>1, <2>2 DEF Delivery
    <2> QED
      BY <1>1, <2>2, <2>3, HookMove DEF IInv, TypeOK
  <1> QED
    BY <1>2, <1>3

LEMMA ReadInvoiceStep ==
  ASSUME IInv, NEW h \in Handlers, ReadInvoice(h)
  PROVE  IInv'
  <1>1. /\ UNCHANGED <<plan, invoices, orders, shown, sent, job, recorded, answered>>
        /\ hook[h].at = "reading"
    BY DEF ReadInvoice, books, KeepsProvider, provider
  <1>2. hook[h].event \in recorded /\ hook[h].event \in Event /\ plan \in Plans
    BY <1>1, HookFacts DEF IInv, TypeOK
  <1>3. CASE hook' = [hook EXCEPT ![h].at = "finishing"]
    <2>1. [hook[h] EXCEPT !.at = "finishing"] = [at |-> "finishing", event |-> hook[h].event]
      BY <1>1, HookFacts DEF Hook, NoHook
    <2>2. [at |-> "finishing", event |-> hook[h].event] \in Hook
      BY <1>2 DEF Hook
    <2>3. PICK k \in Hook : k = [at |-> "finishing", event |-> hook[h].event]
      BY <2>2
    <2>4. hook' = [hook EXCEPT ![h] = k]
      BY <1>3, <2>1, <2>3, HookFacts
    <2>5. Delivery(k)'
      BY <1>1, <1>2, <2>3 DEF Delivery
    <2> QED
      BY <1>1, <2>4, <2>5, HookMove DEF IInv, TypeOK
  <1>4. ASSUME NEW i \in NotPaid(hook[h].event),
               hook' = [hook EXCEPT ![h] = [at |-> "applying", event |-> hook[h].event,
                                            invoice |-> i, planRead |-> plan]]
        PROVE  IInv'
    <2>1. i \in 1 .. Len(invoices) /\ invoices[i].order = hook[h].event.order /\ i \in Nat
      BY <1>4, SizeFacts DEF NotPaid, InvoicesOf, IInv
    <2>2. [at |-> "applying", event |-> hook[h].event, invoice |-> i, planRead |-> plan] \in Hook
      BY <1>2, <2>1 DEF Hook
    <2>3. PICK k \in Hook : k = [at |-> "applying", event |-> hook[h].event,
                                 invoice |-> i, planRead |-> plan]
      BY <2>2
    <2>4. Delivery(k)'
      BY <1>1, <1>2, <2>1, <2>3 DEF Delivery
    <2> QED
      BY <1>1, <1>4, <2>3, <2>4, HookMove DEF IInv, TypeOK
  <1> QED
    BY <1>3, <1>4 DEF ReadInvoice

LEMMA HookEndsStep ==
  ASSUME IInv, NEW h \in Handlers, FinishEvent(h) \/ HandlerCrash(h)
  PROVE  IInv'
  <1>1. /\ UNCHANGED <<plan, invoices, orders, shown, sent, job, recorded>>
        /\ hook[h].at # "idle" /\ hook' = [hook EXCEPT ![h] = NoHook]
        /\ answered' = answered \/ answered' = answered \union {hook[h].event}
    BY DEF FinishEvent, Answer, HandlerCrash, books, KeepsProvider, provider
  <1>2. answered' \subseteq recorded'
    BY <1>1, HookFacts DEF IInv, TypeOK
  <1>3. NoHook \in Hook /\ Delivery(NoHook)'
    BY NoHookFacts DEF Delivery, NoHook
  <1> QED
    BY <1>1, <1>2, <1>3, HookMove DEF IInv, TypeOK

\* The invoice a delivery acts on has the order the event is about.
LEMMA ApplyingFacts ==
  ASSUME IInv, NEW h \in Handlers, hook[h].at = "applying"
  PROVE  /\ hook[h].event \in Event /\ hook[h].event \in sent
         /\ hook[h].invoice \in 1 .. Len(invoices)
         /\ invoices[hook[h].invoice].order = hook[h].event.order
         /\ invoices[hook[h].invoice] \in Invoice
         /\ hook[h].event.order \in 1 .. Len(orders)
         /\ orders[hook[h].event.order].target = invoices[hook[h].invoice].target
  <1>1. /\ hook[h].event \in Event /\ hook[h].event \in sent
        /\ hook[h].invoice \in 1 .. Len(invoices)
        /\ invoices[hook[h].invoice].order = hook[h].event.order
    BY HookFacts DEF Delivery, IInv, TypeOK
  <1>2. invoices[hook[h].invoice] \in Invoice /\ hook[h].event.order # NoOrder
    BY <1>1, SizeFacts, EventFacts DEF IInv
  <1> QED
    BY <1>1, <1>2 DEF IInv, Ordered

\* Money that is only authorized changes nothing, ...
MoneyHeld(h) == ApplyCapture(h) /\ hook[h].event.full /\ ~ Captured(hook[h].event)

LEMMA HeldStep ==
  ASSUME IInv, NEW h \in Handlers, MoneyHeld(h)
  PROVE  IInv'
  <1>1. /\ UNCHANGED <<plan, invoices, orders, shown, sent, job, recorded, answered>>
        /\ hook[h].at = "applying"
        /\ hook' = [hook EXCEPT ![h] = [at |-> "finishing", event |-> hook[h].event]]
    BY DEF MoneyHeld, ApplyCapture, AmountMatches, books, KeepsProvider, provider
  <1>2. hook[h].event \in recorded /\ hook[h].event \in Event
    BY <1>1, HookFacts DEF IInv, TypeOK
  <1>3. PICK k \in Hook : k = [at |-> "finishing", event |-> hook[h].event]
    BY <1>2 DEF Hook
  <1>4. Delivery(k)'
    BY <1>1, <1>2, <1>3 DEF Delivery
  <1> QED
    BY <1>1, <1>3, <1>4, HookMove DEF IInv, TypeOK

\* ... and otherwise the status of that invoice is written, PAID for full money.
LEMMA ApplyStep ==
  ASSUME IInv, NEW h \in Handlers, ApplyCapture(h) \/ ApplyFailure(h), ~ MoneyHeld(h)
  PROVE  IInv'
  <1>1. hook[h].at = "applying" /\ UNCHANGED <<orders, shown, sent, answered, recorded, job>>
    BY DEF ApplyCapture, ApplyFailure, KeepsProvider, provider
  <1>2. PICK i \in 1 .. Len(invoices) : i = hook[h].invoice
    BY <1>1, ApplyingFacts
  <1>3. PICK st \in {"PENDING", "PAID", "FAILED"} :
           /\ invoices' = [invoices EXCEPT ![i].status = st]
           /\ st = "PAID" => Captured(hook[h].event) /\ AmountMatches(hook[h].event)
    <2>0. Captured(hook[h].event) \/ ~ AmountMatches(hook[h].event) \/ ApplyFailure(h)
      BY DEF MoneyHeld, AmountMatches
    <2>1. CASE ApplyCapture(h) /\ AmountMatches(hook[h].event) /\ Captured(hook[h].event)
      <3>1. invoices' = [invoices EXCEPT ![i].status = "PAID"]
        BY <1>2, <2>1 DEF ApplyCapture
      <3> QED
        BY <2>1, <3>1
    <2>2. CASE ApplyCapture(h) /\ ~ AmountMatches(hook[h].event)
      <3>1. invoices' = [invoices EXCEPT ![i].status = "FAILED"]
        BY <1>2, <2>2 DEF ApplyCapture
      <3> QED
        BY <3>1
    <2>3. CASE ApplyFailure(h)
      <3>1. invoices' = [invoices EXCEPT ![i].status = "FAILED"]
        BY <1>2, <2>3 DEF ApplyFailure
      <3> QED
        BY <3>1
    <2> QED
      BY <2>0, <2>1, <2>2, <2>3
  <1>4. /\ Kept /\ Len(invoices') = Len(invoices) /\ invoices'[i].status = st
        /\ \A k \in 1 .. Len(invoices) : /\ invoices'[k].order = invoices[k].order
                                         /\ invoices'[k].target = invoices[k].target
                                         /\ k # i => invoices'[k].status = invoices[k].status
    BY <1>1, <1>3, StatusWritten
  <1>5. plan' \in Plans
    <2>1. invoices[i].target \in Plans /\ plan \in Plans
      BY <1>1, <1>2, ApplyingFacts DEF Invoice, IInv, TypeOK
    <2> QED
      BY <1>2, <2>1 DEF ApplyCapture, ApplyFailure, Target, books
  <1>6. PICK k \in Hook : /\ hook' = [hook EXCEPT ![h] = k]
                          /\ k.at = "finishing" /\ k.event = hook[h].event
    <2>1. [at |-> "finishing", event |-> hook[h].event] \in Hook
      BY <1>1, ApplyingFacts DEF Hook
    <2>2. hook' = [hook EXCEPT ![h] = [at |-> "finishing", event |-> hook[h].event]]
      BY HookFacts DEF ApplyCapture, ApplyFailure
    <2> QED
      BY <2>1, <2>2
  <1>7. TypeOK'
    BY <1>1, <1>4, <1>5, <1>6 DEF IInv, TypeOK, Kept
  <1>8. PaymentFindsItsInvoice' /\ Reported' /\ \A n \in 1 .. Len(invoices') : Ordered(n)'
    BY <1>1, <1>4, ShownStays, ReportedStays, OrderedStays
  <1>9. (\A u \in Users : Checkout(job[u])') /\ OwnInvoices'
    BY <1>1, <1>4, UsersStay
  <1>10. ASSUME NEW g \in Handlers PROVE Delivery(hook[g])'
    <2>1. hook'[g] = IF g = h THEN k ELSE hook[g]
      BY <1>6, HookFacts
    <2>2. CASE g = h
      BY <1>1, <1>6, <2>1, <2>2, HookFacts DEF Delivery
    <2>3. CASE g # h
      <3>1. hook'[g] = hook[g] /\ Delivery(hook[g])
        BY <2>1, <2>3, HookFacts
      <3> QED
        BY <1>1, <1>4, <3>1 DEF Delivery
    <2> QED
      BY <2>2, <2>3
  <1>11. PaidInvoicesHaveMoney'
    <2> SUFFICES ASSUME NEW n \in 1 .. Len(invoices), invoices'[n].status = "PAID"
                 PROVE  /\ FullMoney(invoices[n].order) \in sent
                        /\ orders[invoices[n].order].target = invoices[n].target
      BY <1>1, <1>4 DEF PaidInvoicesHaveMoney, FullMoney
    <2>1. CASE invoices[n].status = "PAID"
      BY <2>1, PaidFacts
    <2>2. CASE invoices[n].status # "PAID"
      <3>1. n = i /\ st = "PAID"
        BY <1>4, <2>2
      <3>2. Captured(hook[h].event) /\ hook[h].event.full
        BY <1>3, <3>1 DEF AmountMatches
      <3>3. FullMoney(hook[h].event.order) \in sent
        BY <1>1, <3>2, ApplyingFacts DEF IInv, Reported
      <3> QED
        BY <1>1, <1>2, <3>1, <3>3, ApplyingFacts
    <2> QED
      BY <2>1, <2>2
  <1> QED
    BY <1>7, <1>8, <1>9, <1>10, <1>11 DEF IInv

---------------------------------------------------------------------------
(* It holds throughout. *)

LEMMA Initially == Init => IInv
  <1> SUFFICES ASSUME Init PROVE IInv
    OBVIOUS
  <1>1. TypeOK
    BY NoJobFacts, NoHookFacts DEF Init, TypeOK
  <1>2. Len(invoices) = 0 /\ shown = {} /\ sent = {}
    BY DEF Init
  <1>3. /\ PaymentFindsItsInvoice /\ PaidInvoicesHaveMoney /\ Reported
        /\ \A i \in 1 .. Len(invoices) : Ordered(i)
    BY <1>2 DEF PaymentFindsItsInvoice, PaidInvoicesHaveMoney, Reported
  <1>4. (\A u \in Users : Checkout(job[u])) /\ OwnInvoices
    BY NoJobFacts DEF Init, OwnInvoices
  <1>5. \A h \in Handlers : Delivery(hook[h])
    BY DEF Init, Delivery, NoHook
  <1> QED
    BY <1>1, <1>3, <1>4, <1>5 DEF IInv

LEMMA Inductive == IInv /\ [Next]_vars => IInv'
  <1> SUFFICES ASSUME IInv, [Next]_vars PROVE IInv'
    OBVIOUS
  <1>1. ASSUME NEW u \in Users, UserStart(u) \/ UserStep(u) \/ UserCrash(u) PROVE IInv'
    BY <1>1, UserStartStep, UserStepStep
  <1>2. CASE Customer
    BY <1>2, CustomerStep
  <1>3. ASSUME NEW h \in Handlers, HandlerStep(h) \/ HandlerCrash(h) PROVE IInv'
    BY <1>3, ReadInvoiceStep, HeldStep, ApplyStep, HookEndsStep DEF HandlerStep
  <1>4. ASSUME NEW h \in Handlers, NEW e \in sent, Deliver(h, e) PROVE IInv'
    BY <1>4, DeliverStep
  <1>5. CASE UNCHANGED vars
    <2>1. TypeOK' /\ Kept
      BY <1>5, NothingKept DEF IInv, TypeOK, vars
    <2>2. /\ PaymentFindsItsInvoice' /\ PaidInvoicesHaveMoney' /\ Reported'
          /\ \A i \in 1 .. Len(invoices') : Ordered(i)'
      BY <1>5, <2>1, ShownStays, PaidStays, ReportedStays, OrderedStays DEF vars
    <2>3. (\A u \in Users : Checkout(job[u])') /\ OwnInvoices'
      BY <1>5, <2>1, UsersStay DEF vars
    <2>4. \A h \in Handlers : Delivery(hook[h])'
      BY <1>5, <2>1, DeliveriesStay DEF vars
    <2> QED
      BY <2>1, <2>2, <2>3, <2>4 DEF IInv
  <1> QED
    BY <1>1, <1>2, <1>3, <1>4, <1>5 DEF Next

---------------------------------------------------------------------------
(* Which step writes what.                                                   *)

LEMMA NextIsInvariant ==
  ASSUME IInv, [Next]_vars
  PROVE  IInv'
  BY Inductive

\* A new invoice waits for an order; a status is written once an order could not
\* be had or was paid for; an order is stored where there was none.
Fresh(i, u)    == /\ i = Len(invoices) + 1 /\ CreateInvoice(u)
                  /\ invoices'[i].status = "PENDING" /\ invoices'[i].order = NoOrder
                  /\ invoices'[i].target = job[u].target
Failed(i, u)   == /\ i = job[u].invoice /\ i \in 1 .. Len(invoices) /\ FailCheckout(u)
                  /\ invoices[i].order = NoOrder
                  /\ invoices'[i].status = "FAILED" /\ invoices'[i].order = NoOrder
                  /\ invoices'[i].target = invoices[i].target
Stored(i, u)   == /\ i = job[u].invoice /\ i \in 1 .. Len(invoices) /\ StoreOrder(u)
                  /\ invoices[i].order = NoOrder
                  /\ invoices'[i].status = invoices[i].status
                  /\ invoices'[i].target = job[u].target
                  /\ invoices[i].target = job[u].target
Applied(i, h)  == /\ i = hook[h].invoice /\ i \in 1 .. Len(invoices)
                  /\ invoices'[i].status = "PAID" => ApplyCapture(h) /\ hook[h].event.full
                  /\ invoices'[i].status = "FAILED" => invoices[i].order # NoOrder
                  /\ ApplyCapture(h) \/ ApplyFailure(h)
                  /\ invoices'[i].status \in {"PAID", "FAILED"}
                  /\ invoices'[i].order = invoices[i].order
                  /\ invoices'[i].target = invoices[i].target
Untouched(i)   == i \in 1 .. Len(invoices) /\ invoices'[i] = invoices[i]

InvoicesWritten ==
    /\ Len(invoices') >= Len(invoices)
    /\ \A i \in 1 .. Len(invoices') :
          \/ Untouched(i)
          \/ \E u \in Users : Fresh(i, u) \/ Failed(i, u) \/ Stored(i, u)
          \/ \E h \in Handlers : Applied(i, h)

LEMMA NothingWritten ==
  ASSUME TypeOK, invoices' = invoices
  PROVE  InvoicesWritten
  BY SizeFacts DEF InvoicesWritten, Untouched

LEMMA CreateWrites ==
  ASSUME IInv, NEW u \in Users, CreateInvoice(u)
  PROVE  InvoicesWritten
  <1> DEFINE new == [status |-> "PENDING", target |-> job[u].target, order |-> NoOrder]
             n == Len(invoices) + 1
  <1>1. new \in Invoice
    BY DEF IInv, TypeOK, Job, Invoice, NoOrder
  <1>2. new.status = "PENDING" /\ new.order = NoOrder /\ new.target = job[u].target
    OBVIOUS
  <1>3. invoices' = Append(invoices, new) /\ invoices \in Seq(Invoice) /\ Len(invoices) \in Nat
    BY SizeFacts DEF CreateInvoice, IInv, TypeOK
  <1> HIDE DEF new
  <1>4. /\ Len(invoices') = n /\ invoices'[n] = new
        /\ \A i \in 1 .. Len(invoices) : invoices'[i] = invoices[i]
    BY <1>1, <1>3
  <1>5. Fresh(n, u)
    BY <1>2, <1>4 DEF Fresh
  <1>6. \A i \in 1 .. Len(invoices') : Untouched(i) \/ i = n
    BY <1>3, <1>4 DEF Untouched
  <1> QED
    BY <1>3, <1>4, <1>5, <1>6 DEF InvoicesWritten

LEMMA FailWrites ==
  ASSUME IInv, NEW u \in Users, FailCheckout(u)
  PROVE  InvoicesWritten
  <1> DEFINE i == job[u].invoice
  <1>1. /\ i \in 1 .. Len(invoices) /\ invoices[i].order = NoOrder
        /\ invoices' = [invoices EXCEPT ![i].status = "FAILED"]
        /\ UNCHANGED <<orders, sent, recorded>>
    BY DEF IInv, Checkout, Opening, Holding, FailCheckout, KeepsProvider, provider, KeepsHooks
  <1>2. FailCheckout(u) /\ i = job[u].invoice
    OBVIOUS
  <1> HIDE DEF i
  <1>3. /\ Kept /\ Len(invoices') = Len(invoices) /\ invoices'[i].status = "FAILED"
        /\ \A k \in 1 .. Len(invoices) : /\ invoices'[k].order = invoices[k].order
                                         /\ invoices'[k].target = invoices[k].target
    BY <1>1, StatusWritten
  <1>4. \A k \in 1 .. Len(invoices) : k # i => invoices'[k] = invoices[k]
    BY <1>1 DEF IInv, TypeOK
  <1>5. Failed(i, u)
    BY <1>1, <1>2, <1>3 DEF Failed
  <1> QED
    BY <1>1, <1>3, <1>4, <1>5, SizeFacts DEF InvoicesWritten, Untouched, IInv

LEMMA StoreWrites ==
  ASSUME IInv, NEW u \in Users, StoreOrder(u)
  PROVE  InvoicesWritten
  <1>0. PICK n \in Nat, o \in Nat : n = job[u].invoice /\ o = job[u].order
    BY DEF IInv, TypeOK, Job
  <1>1. /\ n \in 1 .. Len(invoices) /\ invoices[n].order = NoOrder
        /\ invoices[n].target = job[u].target
    BY <1>0 DEF IInv, Checkout, Opening, Holding, StoreOrder
  <1>2. invoices' = [invoices EXCEPT ![n].order = o] /\ invoices \in Seq(Invoice)
        /\ invoices[n] \in Invoice
    BY <1>0, <1>1, SizeFacts DEF StoreOrder, OrderStored, IInv, TypeOK
  <1> DEFINE new == [invoices[n] EXCEPT !.order = o]
  <1>3. /\ new \in Invoice /\ invoices' = [invoices EXCEPT ![n] = new]
        /\ new.status = invoices[n].status /\ new.target = invoices[n].target
    BY <1>1, <1>2 DEF Invoice
  <1> HIDE DEF new
  <1>4. /\ Len(invoices') = Len(invoices) /\ invoices'[n] = new
        /\ \A k \in 1 .. Len(invoices) : k # n => invoices'[k] = invoices[k]
    BY <1>1, <1>3, InvoiceWritten
  <1>5. Stored(n, u)
    BY <1>0, <1>1, <1>3, <1>4 DEF Stored
  <1> QED
    BY <1>1, <1>4, <1>5, SizeFacts DEF InvoicesWritten, Untouched, IInv

LEMMA HeldWrites ==
  ASSUME IInv, NEW h \in Handlers, MoneyHeld(h)
  PROVE  InvoicesWritten
  BY NothingWritten DEF MoneyHeld, ApplyCapture, AmountMatches, books, IInv

LEMMA ApplyWrites ==
  ASSUME IInv, NEW h \in Handlers, ApplyCapture(h) \/ ApplyFailure(h), ~ MoneyHeld(h)
  PROVE  InvoicesWritten
  <1> DEFINE i == hook[h].invoice
  <1>1. /\ hook[h].at = "applying" /\ UNCHANGED <<orders, sent, recorded>>
    BY DEF ApplyCapture, ApplyFailure, KeepsProvider, provider
  <1>2. /\ i \in 1 .. Len(invoices) /\ i = hook[h].invoice
        /\ invoices[i].order # NoOrder
    BY <1>1, HookFacts, EventFacts DEF Delivery, IInv, TypeOK
  <1>3. \E st \in {"PAID", "FAILED"} :
           /\ invoices' = [invoices EXCEPT ![i].status = st]
           /\ st = "PAID" => ApplyCapture(h) /\ hook[h].event.full
    <2>1. CASE ApplyCapture(h) /\ hook[h].event.full
      BY <2>1 DEF ApplyCapture, AmountMatches, MoneyHeld
    <2>2. CASE ApplyCapture(h) /\ ~ hook[h].event.full
      BY <2>2 DEF ApplyCapture, AmountMatches
    <2>3. CASE ApplyFailure(h)
      BY <2>3 DEF ApplyFailure
    <2> QED
      BY <2>1, <2>2, <2>3
  <1> HIDE DEF i
  <1>4. PICK st \in {"PAID", "FAILED"} :
           /\ invoices' = [invoices EXCEPT ![i].status = st]
           /\ st = "PAID" => ApplyCapture(h) /\ hook[h].event.full
    BY <1>3
  <1>5. /\ Kept /\ Len(invoices') = Len(invoices) /\ invoices'[i].status = st
        /\ \A k \in 1 .. Len(invoices) : /\ invoices'[k].order = invoices[k].order
                                         /\ invoices'[k].target = invoices[k].target
    BY <1>1, <1>2, <1>4, StatusWritten
  <1>6. \A k \in 1 .. Len(invoices) : k # i => invoices'[k] = invoices[k]
    BY <1>4 DEF IInv, TypeOK
  <1>7. Applied(i, h)
    BY <1>2, <1>4, <1>5 DEF Applied
  <1> QED
    BY <1>2, <1>5, <1>6, <1>7, SizeFacts DEF InvoicesWritten, Untouched, IInv

LEMMA Writes ==
  ASSUME IInv, [Next]_vars
  PROVE  InvoicesWritten
  <1>1. ASSUME NEW u \in Users, UserStart(u) \/ UserStep(u) \/ UserCrash(u)
        PROVE  InvoicesWritten
    <2>1. CASE CreateInvoice(u) \/ FailCheckout(u) \/ StoreOrder(u)
      BY <2>1, CreateWrites, FailWrites, StoreWrites
    <2>2. CASE UserStart(u)
      BY <2>2, NothingWritten DEF UserStart, StartPlanUpgrade, ChangePlan, books, IInv
    <2>3. CASE FindPending(u) \/ CreateOrder(u) \/ OrderFails(u) \/ ReturnSession(u)
               \/ UpdatePlan(u) \/ UserCrash(u)
      BY <2>3, NothingWritten DEF FindPending, CreateOrder, OrderFails, ReturnSession,
         UpdatePlan, UserCrash, books, IInv
    <2> QED
      BY <1>1, <2>1, <2>2, <2>3 DEF UserStep
  <1>2. CASE Customer
    BY <1>2, NothingWritten DEF Customer, Attempt, Pay, books, IInv
  <1>3. ASSUME NEW h \in Handlers, HandlerStep(h) \/ HandlerCrash(h) PROVE InvoicesWritten
    BY <1>3, HeldWrites, ApplyWrites, NothingWritten
       DEF HandlerStep, ReadInvoice, FinishEvent, HandlerCrash, books, IInv
  <1>4. ASSUME NEW h \in Handlers, NEW e \in sent, Deliver(h, e) PROVE InvoicesWritten
    BY <1>4, NothingWritten DEF Deliver, books, IInv
  <1>5. CASE UNCHANGED vars
    BY <1>5, NothingWritten DEF vars, IInv
  <1> QED
    BY <1>1, <1>2, <1>3, <1>4, <1>5 DEF Next

---------------------------------------------------------------------------
(* One order waits for a plan, when no two checkouts run at once.            *)

Waiting(i) == invoices[i].status = "PENDING" /\ invoices[i].order # NoOrder
NothingWaits(t) == \A i \in 1 .. Len(invoices) : Waiting(i) => invoices[i].target # t
Asking(j) == j.at = "invoicing" \/ Holding(j)
\* Whoever is on the way to a new order has seen that none waits, and that is
\* still so.
Asked == \A u \in Users : Asking(job[u]) => NothingWaits(job[u].target)
WaitInv == IInv /\ Asked /\ OneOrderWaitsPerPlan

\* An order begins to wait when it is stored, and only then.
LEMMA WaitingBegins ==
  ASSUME IInv, [Next]_vars, NEW i \in 1 .. Len(invoices'), Waiting(i)'
  PROVE  \/ i \in 1 .. Len(invoices) /\ Waiting(i) /\ invoices'[i].target = invoices[i].target
         \/ \E u \in Users : Stored(i, u)
  BY Writes DEF InvoicesWritten, Untouched, Fresh, Failed, Applied, Stored, Waiting

\* A request is changed by its own steps.
LEMMA StepOf ==
  ASSUME IInv, [Next]_vars, NEW u \in Users, job'[u] # job[u]
  PROVE  UserStart(u) \/ UserStep(u) \/ UserCrash(u)
  <1>0. job \in [Users -> Job]
    BY DEF IInv, TypeOK
  <1>2. ASSUME NEW v \in Users, UserStart(v) \/ UserStep(v) \/ UserCrash(v), job'[u] # job[u]
        PROVE  v = u
    <2>1. \E j : job' = [job EXCEPT ![v] = j]
      <3>1. CASE UserStart(v)
        BY <3>1 DEF UserStart, StartPlanUpgrade, ChangePlan
      <3>2. CASE FindPending(v)
        BY <1>0, <3>2 DEF FindPending, Goto
      <3>3. CASE CreateInvoice(v) \/ CreateOrder(v)
        BY <1>0, <3>3 DEF CreateInvoice, CreateOrder
      <3>4. CASE OrderFails(v) \/ FailCheckout(v) \/ StoreOrder(v) \/ ReturnSession(v)
                 \/ UpdatePlan(v) \/ UserCrash(v)
        BY <1>0, <3>4 DEF OrderFails, FailCheckout, StoreOrder, ReturnSession, UpdatePlan,
           UserCrash, Goto, Done
      <3> QED
        BY <1>2, <3>1, <3>2, <3>3, <3>4 DEF UserStep
    <2> QED
      BY <1>0, <1>2, <2>1
  <1> QED
    BY <1>2 DEF Next, Customer, Attempt, Pay, HandlerStep, ReadInvoice, ApplyCapture,
       ApplyFailure, FinishEvent, HandlerCrash, Deliver, vars

\* A request asks on for the plan it asked for, or has just found none waiting.
LEMMA AskingBegins ==
  ASSUME IInv, [Next]_vars, NEW u \in Users, Asking(job'[u])
  PROVE  /\ job'[u].target = job[u].target
         /\ \/ Asking(job[u]) /\ ~ StoreOrder(u)
            \/ FindPending(u) /\ OpenInvoices(u) = {}
  <1>0. job \in [Users -> Job]
    BY DEF IInv, TypeOK
  <1>1. CASE job'[u] = job[u]
    <2>1. ~ StoreOrder(u)
      BY <1>0, <1>1 DEF StoreOrder, Goto, Job
    <2> QED
      BY <1>1, <2>1
  <1>3. ASSUME UserStart(u) \/ UserStep(u) \/ UserCrash(u) PROVE
           /\ job'[u].target = job[u].target
           /\ \/ Asking(job[u]) /\ ~ StoreOrder(u)
              \/ FindPending(u) /\ OpenInvoices(u) = {}
    <2>1. CASE UserStart(u)
      <3>1. PICK t \in Plans : StartPlanUpgrade(u, t) \/ ChangePlan(u, t)
        BY <2>1 DEF UserStart
      <3>2. job'[u].at \in {"finding", "updating"}
        BY <1>0, <3>1, NewJob DEF StartPlanUpgrade, ChangePlan
      <3> QED
        BY <3>2 DEF Asking, Holding
    <2>2. CASE FindPending(u)
      BY <1>0, <2>2 DEF FindPending, Goto, Job, Asking, Holding
    <2>3. CASE CreateInvoice(u) \/ CreateOrder(u) \/ OrderFails(u)
      BY <1>0, <2>3 DEF CreateInvoice, CreateOrder, OrderFails, Goto, Job, Asking, Holding, StoreOrder
    <2>4. CASE FailCheckout(u) \/ ReturnSession(u) \/ UpdatePlan(u) \/ UserCrash(u)
      <3>1. job'[u] = NoJob
        BY <1>0, <2>4 DEF FailCheckout, ReturnSession, UpdatePlan, UserCrash, Done
      <3> QED
        BY <3>1, NoJobFacts DEF Asking, NoJob
    <2>5. CASE StoreOrder(u)
      <3>1. job'[u].at = "returning"
        BY <1>0, <2>5 DEF StoreOrder, Goto, Job
      <3> QED
        BY <3>1 DEF Asking, Holding
    <2> QED
      BY <1>3, <2>1, <2>2, <2>3, <2>4, <2>5 DEF UserStep
  <1>4. CASE job'[u] # job[u]
    BY <1>3, <1>4, StepOf
  <1> QED
    BY <1>1, <1>4

LEMMA WaitInductive ==
  ASSUME \A u, v \in Users : u = v, WaitInv, [Next]_vars
  PROVE  WaitInv'
  <1>1. IInv'
    BY NextIsInvariant DEF WaitInv
  <1>2. Asked'
    <2> SUFFICES ASSUME NEW u \in Users, Asking(job'[u]), NEW i \in 1 .. Len(invoices'),
                        Waiting(i)'
                 PROVE  invoices'[i].target # job'[u].target
      BY DEF Asked, NothingWaits, Waiting, Asking, Holding
    <2>1. /\ job'[u].target = job[u].target
          /\ \/ Asking(job[u]) /\ ~ StoreOrder(u)
             \/ FindPending(u) /\ OpenInvoices(u) = {}
      BY AskingBegins DEF WaitInv
    <2>2. NothingWaits(job[u].target)
      BY <2>1 DEF WaitInv, Asked, NothingWaits, OpenInvoices, Waiting
    <2>3. ASSUME NEW v \in Users, Stored(i, v) PROVE FALSE
      <3>1. v = u /\ StoreOrder(u)
        BY <2>3 DEF Stored
      <3>2. job[u].at = "storing"
        BY <3>1 DEF StoreOrder
      <3> QED
        BY <2>1, <3>1, <3>2 DEF FindPending
    <2>4. i \in 1 .. Len(invoices) /\ Waiting(i) /\ invoices'[i].target = invoices[i].target
      BY <2>3, WaitingBegins DEF WaitInv
    <2> QED
      BY <2>1, <2>2, <2>4 DEF NothingWaits
  <1>3. OneOrderWaitsPerPlan'
    <2> SUFFICES ASSUME NEW i \in 1 .. Len(invoices'), NEW k \in 1 .. Len(invoices'), i # k,
                        invoices'[i].target = invoices'[k].target, Waiting(i)', Waiting(k)'
                 PROVE  FALSE
      BY DEF OneOrderWaitsPerPlan, Waiting
    <2>1. ASSUME NEW x \in 1 .. Len(invoices'), NEW v \in Users, Stored(x, v),
                 NEW z \in 1 .. Len(invoices'), z # x, Waiting(z)'
          PROVE  invoices'[z].target # invoices'[x].target
      <3>1. Asking(job[v]) /\ invoices'[x].target = job[v].target
        BY <2>1 DEF Stored, StoreOrder, Asking, Holding
      <3>2. NothingWaits(job[v].target)
        BY <3>1 DEF WaitInv, Asked
      <3>3. ASSUME NEW w \in Users, Stored(z, w) PROVE FALSE
        BY <2>1, <3>3 DEF Stored
      <3>4. z \in 1 .. Len(invoices) /\ Waiting(z) /\ invoices'[z].target = invoices[z].target
        BY <2>1, <3>3, WaitingBegins DEF WaitInv
      <3> QED
        BY <3>1, <3>2, <3>4 DEF NothingWaits
    <2>2. (~ \E v \in Users : Stored(i, v)) /\ (~ \E v \in Users : Stored(k, v))
      BY <2>1
    <2>3. /\ i \in 1 .. Len(invoices) /\ Waiting(i) /\ invoices'[i].target = invoices[i].target
          /\ k \in 1 .. Len(invoices) /\ Waiting(k) /\ invoices'[k].target = invoices[k].target
      BY <2>2, WaitingBegins DEF WaitInv
    <2> QED
      BY <2>3 DEF WaitInv, OneOrderWaitsPerPlan, Waiting
  <1> QED
    BY <1>1, <1>2, <1>3 DEF WaitInv

---------------------------------------------------------------------------
(* What is paid stays paid, when deliveries are handled one after another.   *)

\* The invoice a delivery is about to change has not been paid since it was read.
Unpaid(k) == k.at = "applying" => invoices[k.invoice].status # "PAID"
PaidInv == IInv /\ \A h \in Handlers : Unpaid(hook[h])

LEMMA PaidIsKept ==
  ASSUME PaidInv, [Next]_vars, NEW i \in 1 .. Len(invoices), invoices[i].status = "PAID"
  PROVE  invoices'[i].status = "PAID"
  <1>1. invoices[i].order # NoOrder
    BY PaidFacts DEF PaidInv
  <1>2. InvoicesWritten /\ Len(invoices) \in Nat /\ Len(invoices') \in Nat
    BY Writes, SizeFacts, NextIsInvariant DEF PaidInv, IInv, TypeOK
  <1>3. i \in 1 .. Len(invoices')
    BY <1>2 DEF InvoicesWritten
  <1>4. ASSUME NEW h \in Handlers, Applied(i, h) PROVE FALSE
    BY <1>4 DEF Applied, ApplyCapture, ApplyFailure, PaidInv, Unpaid
  <1> QED
    BY <1>1, <1>2, <1>3, <1>4 DEF InvoicesWritten, Untouched, Fresh, Failed, Stored

LEMMA HookAfter ==
  ASSUME IInv, [Next]_vars, NEW h \in Handlers, hook'[h].at = "applying"
  PROVE  \/ hook'[h] = hook[h] /\ ~ ApplyCapture(h)
         \/ /\ UNCHANGED invoices
            /\ hook'[h].invoice \in 1 .. Len(invoices)
            /\ invoices[hook'[h].invoice].status # "PAID"
  <1>0. hook \in [Handlers -> Hook] /\ NoHook.at = "idle"
    BY NoHookFacts DEF IInv, TypeOK
  <1>1. ASSUME ApplyCapture(h) PROVE hook'[h].at = "finishing"
    BY <1>0, <1>1 DEF ApplyCapture
  <1>2. CASE hook'[h] = hook[h]
    BY <1>1, <1>2
  <1>3. ASSUME NEW g \in Handlers, HandlerStep(g) \/ HandlerCrash(g), hook'[h] # hook[h]
        PROVE  /\ UNCHANGED invoices
               /\ hook'[h].invoice \in 1 .. Len(invoices)
               /\ invoices[hook'[h].invoice].status # "PAID"
    <2>1. CASE ReadInvoice(g)
      <3>1. CASE hook' = [hook EXCEPT ![g].at = "finishing"]
        <4>1. hook[g].at = "reading"
          BY <2>1 DEF ReadInvoice
        <4>2. [hook[g] EXCEPT !.at = "finishing"].at = "finishing"
          BY <1>0, <4>1 DEF Hook, NoHook
        <4> QED
          BY <1>0, <1>3, <3>1, <4>2
      <3>2. CASE \E i \in NotPaid(hook[g].event) :
                    hook' = [hook EXCEPT ![g] = [at |-> "applying", event |-> hook[g].event,
                                                 invoice |-> i, planRead |-> plan]]
        BY <1>0, <1>3, <2>1, <3>2 DEF NotPaid, InvoicesOf, ReadInvoice, books
      <3> QED
        BY <2>1, <3>1, <3>2 DEF ReadInvoice
    <2>2. CASE ApplyCapture(g) \/ ApplyFailure(g)
      <3>1. hook'[g].at = "finishing" /\ \A f \in Handlers : f # g => hook'[f] = hook[f]
        BY <1>0, <2>2 DEF ApplyCapture, ApplyFailure
      <3> QED
        BY <1>3, <3>1
    <2>3. CASE FinishEvent(g) \/ HandlerCrash(g)
      <3>1. hook' = [hook EXCEPT ![g] = NoHook]
        BY <2>3 DEF FinishEvent, HandlerCrash
      <3> QED
        BY <1>0, <1>3, <3>1
    <2> QED
      BY <1>3, <2>1, <2>2, <2>3 DEF HandlerStep
  <1>4. ASSUME NEW g \in Handlers, NEW e \in sent, Deliver(g, e), hook'[h] # hook[h]
        PROVE  FALSE
    <2>1. hook' = [hook EXCEPT ![g] = [at |-> "reading", event |-> e]]
      BY <1>4 DEF Deliver
    <2> QED
      BY <1>0, <1>4, <2>1
  <1>5. CASE hook'[h] # hook[h]
    <2>1. UNCHANGED hook \/ (\E g \in Handlers : HandlerStep(g) \/ HandlerCrash(g))
          \/ \E g \in Handlers, e \in sent : Deliver(g, e)
      <3>1. ASSUME NEW u \in Users, UserStart(u) \/ UserStep(u) \/ UserCrash(u)
            PROVE  UNCHANGED hook
        BY <3>1 DEF UserStart, UserStep, UserCrash, StartPlanUpgrade, ChangePlan, FindPending,
           CreateInvoice, CreateOrder, OrderFails, FailCheckout, StoreOrder, ReturnSession,
           UpdatePlan, KeepsHooks
      <3> QED
        BY <3>1 DEF Next, Customer, Attempt, Pay, vars
    <2> QED
      BY <1>3, <1>4, <1>5, <2>1
  <1> QED
    BY <1>2, <1>5

LEMMA PaidInductive ==
  ASSUME \A h, k \in Handlers : h = k, PaidInv, [Next]_vars
  PROVE  PaidInv'
  <1>1. IInv'
    BY NextIsInvariant DEF PaidInv
  <1>2. ASSUME NEW h \in Handlers, hook'[h].at = "applying"
        PROVE  invoices'[hook'[h].invoice].status # "PAID"
    <2>1. CASE hook'[h] = hook[h] /\ ~ ApplyCapture(h)
      <3> DEFINE i == hook[h].invoice
      <3>1. i \in 1 .. Len(invoices) /\ invoices[i].status # "PAID"
        BY <1>2, <2>1 DEF PaidInv, Unpaid, IInv, Delivery
      <3>2. i \in 1 .. Len(invoices') /\ InvoicesWritten
        <4>1. InvoicesWritten /\ TypeOK /\ TypeOK'
          BY Writes, <1>1 DEF PaidInv, IInv
        <4>2. Len(invoices') >= Len(invoices) /\ Len(invoices) \in Nat /\ Len(invoices') \in Nat
          BY <4>1 DEF InvoicesWritten, TypeOK
        <4> QED
          BY <3>1, <4>1, <4>2
      <3> HIDE DEF i
      <3>3. \A g \in Handlers : Applied(i, g) => invoices'[i].status # "PAID"
        BY <2>1 DEF Applied
      <3>4. invoices'[i].status # "PAID"
        BY <3>1, <3>2, <3>3 DEF InvoicesWritten, Untouched, Fresh, Failed, Stored
      <3> QED
        BY <2>1, <3>4 DEF i
    <2>2. CASE UNCHANGED invoices /\ invoices[hook'[h].invoice].status # "PAID"
      BY <2>2
    <2> QED
      BY <1>2, <2>1, <2>2, HookAfter DEF PaidInv
  <1> QED
    BY <1>1, <1>2 DEF PaidInv, Unpaid

---------------------------------------------------------------------------
(* Upgrades are paid, with three plans and one request and delivery at once. *)

\* The plans the product has: three at most, of different prices.
ThreePlans == Len(Prices) <= 3 /\ \A p, q \in Plans : Price(p) = Price(q) => p = q

\* An order is for more than the cheapest plan, a change for less than the
\* dearest: between them there is room for no third, so that no order paid
\* while a change is under way takes the plan below the one changed to.
AboveSome(t) == \E p \in Plans : CostsMore(t, p)
BelowSome(t) == \E p \in Plans : CostsMore(p, t)
Requested(j) ==
    /\ j.at \in {"finding", "invoicing"} => AboveSome(j.target)
    /\ j.at = "updating" => ~ CostsMore(j.target, plan) /\ BelowSome(j.target)
Upgrading == \A i \in 1 .. Len(invoices) : AboveSome(invoices[i].target)
\* What the provider reports as paid is paid.
PaidOrders == \A e \in sent : Captured(e) => orders[e.order].status = "paid"
UpgradeInv == PaidInv /\ PaidOrders /\ Upgrading /\ \A u \in Users : Requested(job[u])

LEMMA PriceFacts ==
  ASSUME NEW p \in Plans
  PROVE  Price(p) \in Nat /\ p \in 1 .. Len(Prices) /\ Len(Prices) \in Nat
  BY DEF Plans, Price

LEMMA RoomForNoThird ==
  ASSUME ThreePlans, NEW s \in Plans, NEW t \in Plans, AboveSome(s), BelowSome(t)
  PROVE  ~ CostsMore(t, s)
  <1>1. PICK p \in Plans : CostsMore(s, p)
    BY DEF AboveSome
  <1>2. PICK q \in Plans : CostsMore(q, t)
    BY DEF BelowSome
  <1>3. SUFFICES ASSUME CostsMore(t, s) PROVE FALSE
    OBVIOUS
  <1>4. p # s /\ p # t /\ p # q /\ s # t /\ s # q /\ t # q
    BY <1>1, <1>2, <1>3, PriceFacts DEF CostsMore
  <1>5. Len(Prices) \in Nat /\ Len(Prices) <= 3
    BY PriceFacts DEF ThreePlans
  <1> QED
    BY <1>4, <1>5 DEF Plans

LEMMA PlanAfter ==
  ASSUME IInv, [Next]_vars
  PROVE  \/ plan' = plan
         \/ \E u \in Users : UpdatePlan(u)
         \/ \E h \in Handlers : /\ ApplyCapture(h) /\ hook[h].event.full
                                /\ plan' = Target(hook[h].invoice)
  <1>1. ASSUME NEW u \in Users, UserStart(u) \/ UserStep(u) \/ UserCrash(u), ~ UpdatePlan(u)
        PROVE  plan' = plan
    BY <1>1 DEF UserStart, UserStep, UserCrash, StartPlanUpgrade, ChangePlan, FindPending,
       CreateInvoice, CreateOrder, OrderFails, FailCheckout, StoreOrder, ReturnSession, books
  <1>2. ASSUME NEW h \in Handlers, HandlerStep(h) \/ HandlerCrash(h), plan' # plan
        PROVE  ApplyCapture(h) /\ hook[h].event.full /\ plan' = Target(hook[h].invoice)
    <2>1. ApplyCapture(h)
      BY <1>2 DEF HandlerStep, HandlerCrash, ReadInvoice, ApplyFailure, FinishEvent, books
    <2>2. hook[h].event.full
      BY <1>2, <2>1 DEF ApplyCapture, AmountMatches
    <2>3. plan' \in {Target(hook[h].invoice), plan}
      BY <1>2, <2>1, <2>2 DEF ApplyCapture, AmountMatches, books
    <2> QED
      BY <1>2, <2>1, <2>2, <2>3
  <1> QED
    BY <1>1, <1>2 DEF Next, Customer, Attempt, Pay, Deliver, books, vars

LEMMA JobAfter ==
  ASSUME IInv, [Next]_vars, NEW u \in Users
  PROVE  \/ job'[u] = job[u] /\ ~ UpdatePlan(u)
         \/ plan' = plan /\ \E t \in Plans : StartPlanUpgrade(u, t) /\ job'[u].at = "finding"
                                              /\ job'[u].target = t
         \/ plan' = plan /\ \E t \in Plans : ChangePlan(u, t) /\ job'[u].at = "updating"
                                              /\ job'[u].target = t
         \/ FindPending(u) /\ job'[u].target = job[u].target
         \/ job'[u].at \notin {"finding", "invoicing", "updating"}
  <1>0. job \in [Users -> Job] /\ NoJob.at = "idle"
    BY NoJobFacts DEF IInv, TypeOK
  <1>1. CASE UserStart(u)
    <2>1. PICK t \in Plans : StartPlanUpgrade(u, t) \/ ChangePlan(u, t)
      BY <1>1 DEF UserStart
    <2>2. plan' = plan
      BY <2>1 DEF StartPlanUpgrade, ChangePlan, books
    <2>3. CASE StartPlanUpgrade(u, t)
      BY <1>0, <2>2, <2>3 DEF StartPlanUpgrade, NoJob
    <2>4. CASE ChangePlan(u, t)
      BY <1>0, <2>2, <2>4 DEF ChangePlan, NoJob
    <2> QED
      BY <2>1, <2>3, <2>4
  <1>2. CASE FindPending(u)
    BY <1>0, <1>2 DEF FindPending, Goto, Job
  <1>3. CASE CreateInvoice(u) \/ CreateOrder(u) \/ OrderFails(u) \/ StoreOrder(u)
    BY <1>0, <1>3 DEF CreateInvoice, CreateOrder, OrderFails, StoreOrder, Goto, Job
  <1>4. CASE FailCheckout(u) \/ ReturnSession(u) \/ UpdatePlan(u) \/ UserCrash(u)
    <2>1. job'[u] = NoJob
      BY <1>0, <1>4 DEF FailCheckout, ReturnSession, UpdatePlan, UserCrash, Done
    <2> QED
      BY <1>0, <2>1
  <1>5. CASE job'[u] = job[u] /\ ~ UpdatePlan(u)
    BY <1>5
  <1>6. CASE job'[u] # job[u]
    BY <1>1, <1>2, <1>3, <1>4, <1>6, StepOf DEF UserStep
  <1> QED
    BY <1>4, <1>5, <1>6

LEMMA OrdersAfter ==
  ASSUME UpgradeInv, [Next]_vars
  PROVE  PaidOrders'
  <1>1. IInv /\ IInv' /\ Len(orders) \in Nat /\ orders \in Seq(Order)
    BY NextIsInvariant, SizeFacts DEF UpgradeInv, PaidInv, IInv, TypeOK
  <1>2. \A e \in sent : e.order \in 1 .. Len(orders)
    BY <1>1 DEF IInv, Reported
  <1>3. ASSUME \A o \in 1 .. Len(orders) : orders[o].status = "paid" => orders'[o].status = "paid",
               \A e \in sent' \ sent : Captured(e) => orders'[e.order].status = "paid"
        PROVE  PaidOrders'
    BY <1>2, <1>3 DEF UpgradeInv, PaidOrders, Captured
  <1>4. CASE UNCHANGED <<orders, sent>>
    BY <1>3, <1>4
  <1>5. ASSUME NEW u \in Users, CreateOrder(u) \/ OrderFails(u) PROVE PaidOrders'
    <2>1. UNCHANGED sent
      BY <1>5 DEF CreateOrder, OrderFails
    <2>2. \A o \in 1 .. Len(orders) : orders'[o] = orders[o]
      <3>1. \/ UNCHANGED orders
            \/ orders' = Append(orders, [target |-> job[u].target, status |-> "created"])
        BY <1>5 DEF CreateOrder, OrderFails
      <3>2. [target |-> job[u].target, status |-> "created"] \in Order
        BY <1>1 DEF IInv, TypeOK, Job, Order
      <3> QED
        BY <1>1, <3>1, <3>2
    <2> QED
      BY <1>3, <2>1, <2>2
  <1>6. ASSUME NEW o \in 1 .. Len(orders), NEW n \in 1 .. MaxAttempts,
               NEW type \in {"payment.failed", "authorized"}, Attempt(o, type, n)
        PROVE  PaidOrders'
    <2>1. UNCHANGED orders /\ \A e \in sent' \ sent : ~ Captured(e)
      BY <1>6 DEF Attempt, Captured, Report
    <2> QED
      BY <1>3, <2>1
  <1>7. ASSUME NEW o \in 1 .. Len(orders), NEW full \in BOOLEAN, Pay(o, full)
        PROVE  PaidOrders'
    <2>1. orders' = [orders EXCEPT ![o].status = "paid"] /\ \A e \in sent' \ sent : e.order = o
      BY <1>7 DEF Pay
    <2>2. \A x \in 1 .. Len(orders) : orders[x] \in Order
      BY <1>1
    <2>3. orders'[o].status = "paid"
          /\ \A x \in 1 .. Len(orders) : x # o => orders'[x] = orders[x]
      BY <1>1, <2>1, <2>2 DEF Order
    <2> QED
      BY <1>3, <2>1, <2>3
  <1>8. ASSUME NEW u \in Users, UserStart(u) \/ UserStep(u) \/ UserCrash(u),
               ~ CreateOrder(u), ~ OrderFails(u)
        PROVE  UNCHANGED <<orders, sent>>
    BY <1>8 DEF UserStart, UserStep, UserCrash, StartPlanUpgrade, ChangePlan, FindPending,
       CreateInvoice, FailCheckout, StoreOrder, ReturnSession, UpdatePlan, KeepsProvider, provider
  <1>9. ASSUME NEW h \in Handlers, HandlerStep(h) \/ HandlerCrash(h) PROVE UNCHANGED <<orders, sent>>
    BY <1>9 DEF HandlerStep, HandlerCrash, ReadInvoice, ApplyCapture, ApplyFailure, FinishEvent,
       KeepsProvider, provider
  <1> QED
    BY <1>4, <1>5, <1>6, <1>7, <1>8, <1>9 DEF Next, Customer, Deliver, vars

LEMMA UpgradeInductive ==
  ASSUME \A u, v \in Users : u = v, \A h, k \in Handlers : h = k, ThreePlans,
         UpgradeInv, [Next]_vars
  PROVE  UpgradeInv'
  <1>1. PaidInv /\ PaidInv' /\ IInv /\ IInv'
    BY PaidInductive DEF UpgradeInv, PaidInv
  <1>2. /\ \A u \in Users : job[u] \in Job /\ job'[u] \in Job
        /\ plan \in Plans /\ plan' \in Plans
        /\ \A i \in 1 .. Len(invoices) : invoices[i].target \in Plans
    BY <1>1, SizeFacts DEF IInv, TypeOK, Invoice
  <1>3. Upgrading'
    <2> SUFFICES ASSUME NEW i \in 1 .. Len(invoices') PROVE AboveSome(invoices'[i].target)
      BY DEF Upgrading, AboveSome
    <2>1. ASSUME NEW u \in Users, Fresh(i, u) PROVE AboveSome(invoices'[i].target)
      <3>1. job[u].at = "invoicing" /\ invoices'[i].target = job[u].target
        BY <2>1 DEF Fresh, CreateInvoice
      <3> QED
        BY <3>1 DEF UpgradeInv, Requested
    <2>2. ~ (\E u \in Users : Fresh(i, u)) =>
            i \in 1 .. Len(invoices) /\ invoices'[i].target = invoices[i].target
      BY <1>1, Writes DEF InvoicesWritten, Untouched, Failed, Stored, Applied
    <2> QED
      BY <2>1, <2>2 DEF UpgradeInv, Upgrading
  <1>4. ASSUME NEW u \in Users, job'[u].at = "updating"
        PROVE  ~ CostsMore(job'[u].target, plan') /\ BelowSome(job'[u].target)
    <2>1. CASE job'[u] = job[u] /\ ~ UpdatePlan(u)
      <3>1. ~ CostsMore(job[u].target, plan) /\ BelowSome(job[u].target)
        BY <1>4, <2>1 DEF UpgradeInv, Requested
      <3>2. ASSUME NEW h \in Handlers, ApplyCapture(h), plan' = Target(hook[h].invoice)
            PROVE  ~ CostsMore(job[u].target, plan')
        <4>1. hook[h].invoice \in 1 .. Len(invoices)
          BY <1>1, <3>2, HookFacts DEF Delivery, ApplyCapture
        <4>2. AboveSome(plan')
          BY <3>2, <4>1 DEF UpgradeInv, Upgrading, Target
        <4>3. job[u].target \in Plans
          BY <1>2 DEF Job
        <4> QED
          BY <1>2, <3>1, <4>2, <4>3, RoomForNoThird
      <3>3. ~ CostsMore(job[u].target, plan')
        BY <1>1, <2>1, <3>1, <3>2, PlanAfter
      <3> QED
        BY <2>1, <3>1, <3>3
    <2>2. ASSUME NEW t \in Plans, ChangePlan(u, t), job'[u].target = t, plan' = plan
          PROVE  ~ CostsMore(job'[u].target, plan') /\ BelowSome(job'[u].target)
      <3>1. t # plan /\ ~ CostsMore(t, plan)
        BY <2>2 DEF ChangePlan
      <3>2. CostsMore(plan, t)
        BY <1>2, <3>1, PriceFacts DEF ThreePlans, CostsMore
      <3> QED
        BY <1>2, <2>2, <3>1, <3>2 DEF BelowSome
    <2>3. ~ FindPending(u)
      BY <1>1, <1>4 DEF FindPending, Goto, Job, IInv, TypeOK
    <2> QED
      BY <1>1, <1>4, <2>1, <2>2, <2>3, JobAfter
  <1>5. ASSUME NEW u \in Users, job'[u].at \in {"finding", "invoicing"}
        PROVE  AboveSome(job'[u].target)
    <2>1. CASE job'[u] = job[u]
      BY <1>5, <2>1 DEF UpgradeInv, Requested
    <2>2. ASSUME NEW t \in Plans, StartPlanUpgrade(u, t), job'[u].target = t
          PROVE  AboveSome(job'[u].target)
      BY <1>2, <2>2 DEF StartPlanUpgrade, AboveSome
    <2>3. CASE FindPending(u) /\ job'[u].target = job[u].target
      BY <2>3 DEF FindPending, UpgradeInv, Requested
    <2> QED
      BY <1>1, <1>5, <2>1, <2>2, <2>3, JobAfter
  <1>6. \A u \in Users : Requested(job[u])'
    BY <1>4, <1>5 DEF Requested, AboveSome, BelowSome, CostsMore
  <1> QED
    BY <1>1, <1>3, <1>6, OrdersAfter DEF UpgradeInv

LEMMA UpgradeStep ==
  ASSUME UpgradeInv, [Next]_vars, CostsMore(plan', plan)
  PROVE  \E i \in 1 .. Len(invoices) :
            /\ invoices[i].status # "PAID" /\ invoices'[i].status = "PAID"
            /\ invoices[i].target = plan'
            /\ orders[invoices[i].order].status = "paid"
            /\ FullMoney(invoices[i].order) \in sent
  <1>1. IInv /\ plan \in Plans /\ plan' # plan
    BY PriceFacts DEF UpgradeInv, PaidInv, IInv, TypeOK, CostsMore
  <1>2. ASSUME NEW u \in Users, UpdatePlan(u) PROVE FALSE
    BY <1>2 DEF UpdatePlan, UpgradeInv, Requested
  <1>3. PICK h \in Handlers : /\ ApplyCapture(h) /\ hook[h].event.full
                              /\ plan' = Target(hook[h].invoice)
    BY <1>1, <1>2, PlanAfter
  <1> DEFINE i == hook[h].invoice
             e == hook[h].event
  <1>4. /\ hook[h].at = "applying" /\ Captured(e) /\ e.full
        /\ UNCHANGED <<orders, sent>> /\ recorded' = recorded
        /\ invoices' = [invoices EXCEPT ![i].status = "PAID"]
    BY <1>1, <1>3 DEF ApplyCapture, AmountMatches, books, KeepsProvider, provider
  <1>5. /\ i \in 1 .. Len(invoices) /\ invoices[i].order = e.order /\ e \in sent
        /\ invoices[i].status # "PAID"
    BY <1>1, <1>4, HookFacts DEF Delivery, IInv, TypeOK, UpgradeInv, PaidInv, Unpaid
  <1>6. FullMoney(e.order) \in sent /\ orders[e.order].status = "paid"
    BY <1>1, <1>4, <1>5 DEF IInv, Reported, UpgradeInv, PaidOrders
  <1>7. invoices[i].target = plan'
    BY <1>3 DEF Target
  <1> HIDE DEF i, e
  <1>8. invoices'[i].status = "PAID"
    BY <1>1, <1>4, <1>5, StatusWritten
  <1> QED
    BY <1>5, <1>6, <1>7, <1>8

---------------------------------------------------------------------------
(* The theorems. *)

\* Whatever requests and deliveries run at once, repeated, late or dying half
\* way, an order somebody can pay belongs to an invoice for its plan, and no
\* invoice is marked paid without the full money (startPlanUpgrade,
\* handleRazorpayWebhook).
THEOREM EveryOrderIsKnown == Spec => []OrdersAreKnown
  <1>1. IInv => OrdersAreKnown
    BY DEF IInv, OrdersAreKnown
  <1> QED
    BY <1>1, Initially, Inductive, PTL DEF Spec
\* A checkout started again finds the order that waits, when the same company's
\* checkouts follow one another: no two orders wait for one plan, whatever was
\* paid, failed or died before (startPlanUpgrade).
THEOREM OneOrderWaits ==
  ASSUME \A u, v \in Users : u = v
  PROVE  Spec => []OneOrderWaitsPerPlan
  <1>1. Init => WaitInv
    <2>1. Init => (Len(invoices) = 0 /\ Asked)
      BY NoJobFacts DEF Init, Asked, Asking, Holding
    <2> QED
      BY <2>1, Initially DEF WaitInv, OneOrderWaitsPerPlan
  <1>2. WaitInv /\ [Next]_vars => WaitInv'
    BY WaitInductive
  <1>3. WaitInv => OneOrderWaitsPerPlan
    BY DEF WaitInv
  <1> QED
    BY <1>1, <1>2, <1>3, PTL DEF Spec

\* No event undoes a payment, however late, repeated or out of order it comes,
\* when deliveries are handled one after another (applyFailure).
THEOREM PaymentsStand ==
  ASSUME \A h, k \in Handlers : h = k
  PROVE  Spec => PaidStaysPaid
  <1>1. Init => PaidInv
    <2>1. Init => \A h \in Handlers : Unpaid(hook[h])
      BY NoHookFacts DEF Init, Unpaid
    <2> QED
      BY <2>1, Initially DEF PaidInv
  <1>2. PaidInv /\ [Next]_vars => PaidInv'
    BY PaidInductive
  <1>3. PaidInv /\ [Next]_vars =>
          [\A i \in 1 .. Len(invoices) :
             invoices[i].status = "PAID" => invoices'[i].status = "PAID"]_vars
    BY PaidIsKept
  <1> QED
    BY <1>1, <1>2, <1>3, PTL DEF Spec, PaidStaysPaid
\* With the three plans the product has, and requests and deliveries one after
\* another, no step makes the plan dearer but the one that marks paid an invoice
\* for that plan, for which the provider has the full money (changePlan,
\* applyCapture).
THEOREM UpgradesPaid ==
  ASSUME \A u, v \in Users : u = v, \A h, k \in Handlers : h = k, ThreePlans
  PROVE  Spec => UpgradesArePaid
  <1>1. Init => UpgradeInv
    <2>1. ASSUME Init PROVE PaidInv
      <3>1. \A h \in Handlers : Unpaid(hook[h])
        BY <2>1, NoHookFacts DEF Init, Unpaid
      <3> QED
        BY <2>1, <3>1, Initially DEF PaidInv
    <2>2. ASSUME Init PROVE PaidOrders /\ Upgrading /\ \A u \in Users : Requested(job[u])
      <3>1. sent = {} /\ Len(invoices) = 0 /\ \A u \in Users : job[u].at = "idle"
        BY <2>2, NoJobFacts DEF Init
      <3> QED
        BY <3>1 DEF PaidOrders, Upgrading, Requested
    <2> QED
      BY <2>1, <2>2 DEF UpgradeInv
  <1>2. UpgradeInv /\ [Next]_vars => UpgradeInv'
    BY UpgradeInductive
  <1>3. UpgradeInv /\ [Next]_vars =>
          [CostsMore(plan', plan) =>
             \E i \in 1 .. Len(invoices) :
                /\ invoices[i].status # "PAID" /\ invoices'[i].status = "PAID"
                /\ invoices[i].target = plan'
                /\ orders[invoices[i].order].status = "paid"
                /\ FullMoney(invoices[i].order) \in sent]_vars
    BY UpgradeStep
  <1> QED
    BY <1>1, <1>2, <1>3, PTL DEF Spec, UpgradesArePaid
=============================================================================
