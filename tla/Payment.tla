------------------------------ MODULE Payment ------------------------------
(***************************************************************************)
(* PaymentService (payment.service.ts) on top of module Order, with the    *)
(* payment gateway it talks to: checkout, the gateway's webhooks, retries  *)
(* and cancellations with a refund.                                        *)
(*                                                                         *)
(* The gateway, Razorpay, is external.  A customer may try to pay any      *)
(* gateway order more than once, until one try is captured, at any time.   *)
(* Every try sends one webhook; the message stays in `events`, so it may   *)
(* be delivered late, out of order, more than once or never.               *)
(***************************************************************************)
EXTENDS Order

CONSTANTS
  GatewayOrders,  \* identifiers of Razorpay orders (those to come too)
  Callers,        \* POST /payment/razorpay/orders requests at once
  Cancellers,     \* POST /orders/:id/cancel requests at once
  MaxTries        \* bound: tries to pay one gateway order

ASSUME PaymentAssumption ==
  /\ IsFiniteSet(GatewayOrders)
  /\ MaxTries \in Nat
  /\ Nil \notin GatewayOrders

VARIABLES
  payments,  \* the payments collection, by razorpayOrderId
  gateway,   \* what Razorpay did with each of its orders
  events,    \* webhooks Razorpay has sent
  seen,      \* the webhookevents collection: events handled
  calls,     \* createRazorpayOrder calls between two awaits
  cancels    \* cancelOrder calls between two awaits

paymentVars == <<payments, gateway, events, seen, calls, cancels>>
shopVars == <<orderVars, paymentVars>>

-----------------------------------------------------------------------------
\* payment.schema.ts; "NONE" is a row that does not exist yet.
RowStatuses ==
  {"NONE", "CREATED", "AUTHORIZED", "CAPTURED", "FAILED", "REFUND_PENDING",
   "REFUNDED"}

\* rank stands for createdAt: rows are ranked in the order of their creation.
NoRow == [order |-> Nil, status |-> "NONE", rank |-> 0]
NoTries == [tries |-> 0, captured |-> FALSE, refunded |-> FALSE]
NoCall == [at |-> "idle", order |-> Nil]
NoCancel == [at |-> "idle", order |-> Nil, gw |-> Nil]

Webhooks ==
  [gw : GatewayOrders, try : 1..MaxTries, kind : {"captured", "failed"},
   sent : 0..MaxTime]

MoneyTypes ==
  /\ payments \in [GatewayOrders ->
       [order : Orders \cup {Nil}, status : RowStatuses, rank : Nat]]
  /\ gateway \in [GatewayOrders ->
       [tries : 0..MaxTries, captured : BOOLEAN, refunded : BOOLEAN]]
  /\ events \subseteq Webhooks
  /\ seen \subseteq events
  /\ calls \in [Callers ->
       [at : {"idle", "lookup", "fetch"}, order : Orders \cup {Nil}]]
  /\ cancels \in [Cancellers ->
       [at : {"idle", "claim", "refund", "revert", "finalise"},
        order : Orders \cup {Nil}, gw : GatewayOrders \cup {Nil}]]

PaymentTypeOK == TypeOK /\ MoneyTypes

PaymentInit ==
  /\ OrderInit
  /\ payments = [g \in GatewayOrders |-> NoRow]
  /\ gateway = [g \in GatewayOrders |-> NoTries]
  /\ events = {}
  /\ seen = {}
  /\ calls = [c \in Callers |-> NoCall]
  /\ cancels = [x \in Cancellers |-> NoCancel]

Rows(o) == {g \in GatewayOrders : payments[g].order = o}

\* The first of some rows under sort { createdAt: -1 }.
Latest(g, rows) ==
  g \in rows /\ \A h \in rows : payments[h].rank <= payments[g].rank

\* Faulty: any row of the order will do.
IsCurrentPaymentAttempt_Any(g) == payments[g].order # Nil

IsCurrentPaymentAttempt(g) == Latest(g, Rows(payments[g].order))

SetRow(g, status) == payments' = [payments EXCEPT ![g].status = status]

-----------------------------------------------------------------------------
(* createRazorpayOrder.  retryPayment is RetryOrder followed by one of     *)
(* these calls, unless the process dies in between.                        *)

ReadOrder(c, o) ==
  /\ calls[c] = NoCall
  /\ Awaiting(o)
  /\ calls' = [calls EXCEPT ![c] = [at |-> "lookup", order |-> o]]
  /\ UNCHANGED <<orderVars, payments, gateway, events, seen, cancels>>

\* An open row is handed to the customer again, else the gateway is asked.
LookupPayment(c) ==
  /\ calls[c].at = "lookup"
  /\ \/ /\ \E g \in Rows(calls[c].order) :
             payments[g].status \in {"CREATED", "AUTHORIZED"}
        /\ calls' = [calls EXCEPT ![c] = NoCall]
     \/ /\ \A g \in Rows(calls[c].order) :
             payments[g].status \notin {"CREATED", "AUTHORIZED"}
        /\ calls' = [calls EXCEPT ![c].at = "fetch"]
  /\ UNCHANGED <<orderVars, payments, gateway, events, seen, cancels>>

\* The gateway answered with a new order g; its row is stored.  The customer
\* learns of g from the answer to this call only.
InsertPayment(c, g) ==
  /\ calls[c].at = "fetch"
  /\ payments[g] = NoRow
  /\ payments' = [payments EXCEPT ![g] =
       [order |-> calls[c].order, status |-> "CREATED",
        rank |-> 1 + Cardinality({h \in GatewayOrders : payments[h] # NoRow})]]
  /\ calls' = [calls EXCEPT ![c] = NoCall]
  /\ UNCHANGED <<orderVars, gateway, events, seen, cancels>>

DropCall(c) ==
  /\ calls[c] # NoCall
  /\ calls' = [calls EXCEPT ![c] = NoCall]
  /\ UNCHANGED <<orderVars, payments, gateway, events, seen, cancels>>

\* The order half of POST /orders/:id/payment/retry.
RetryPayment(o) ==
  /\ RetryOrder(o)
  /\ UNCHANGED <<cart, clock, checkouts, sweeps, admins>>
  /\ UNCHANGED paymentVars

-----------------------------------------------------------------------------
(* External: the gateway and the customer at its checkout.                 *)

TryToPay(g, kind) ==
  /\ payments[g] # NoRow
  /\ gateway[g].tries < MaxTries
  /\ ~gateway[g].captured
  /\ gateway' = [gateway EXCEPT ![g].tries = @ + 1,
                                ![g].captured = (kind = "captured")]
  /\ events' = events \cup
       {[gw |-> g, try |-> gateway[g].tries + 1, kind |-> kind, sent |-> clock]}
  /\ UNCHANGED <<orderVars, payments, seen, calls, cancels>>

-----------------------------------------------------------------------------
(* handleWebhook, for one delivery of one event: a single transaction.     *)

HandleCaptured(g) ==
  LET o == payments[g].order
  IN  /\ SetRow(g, "CAPTURED")
      /\ \/ IsCurrentPaymentAttempt(g) /\ PaidAndCartCleared(o)
         \/ ~(IsCurrentPaymentAttempt(g) /\ Payable(o)) /\ UNCHANGED orderVars

HandleFailed(g) ==
  LET o == payments[g].order
      news == payments[g].status # "FAILED" /\ IsCurrentPaymentAttempt(g)
  IN  /\ SetRow(g, "FAILED")
      /\ \/ /\ news /\ MarkPaymentFailed(o)
            /\ UNCHANGED <<cart, clock, checkouts, sweeps, admins>>
         \/ ~(news /\ Awaiting(o)) /\ UNCHANGED orderVars

\* Faulty: the event's id is stored, but not looked at.
HandleWebhook_NoDedupe(e) ==
  /\ e \in events
  /\ seen' = seen \cup {e}
  /\ \/ e.kind = "captured" /\ HandleCaptured(e.gw)
     \/ e.kind = "failed" /\ HandleFailed(e.gw)
  /\ UNCHANGED <<gateway, events, calls, cancels>>

\* Faulty: every event about a payment is good news.
HandleWebhook_AnyEvent(e) ==
  /\ e \in events \ seen
  /\ seen' = seen \cup {e}
  /\ HandleCaptured(e.gw)
  /\ UNCHANGED <<gateway, events, calls, cancels>>

\* A second delivery fails on the unique eventId and changes nothing.
HandleWebhook(e) ==
  /\ e \in events \ seen
  /\ seen' = seen \cup {e}
  /\ \/ e.kind = "captured" /\ HandleCaptured(e.gw)
     \/ e.kind = "failed" /\ HandleFailed(e.gw)
  /\ UNCHANGED <<gateway, events, calls, cancels>>

-----------------------------------------------------------------------------
(* cancelOrder: check the order, claim a captured payment, refund it at    *)
(* the gateway, then cancel the order in a transaction.                    *)

BeginCancel(x, o) ==
  /\ cancels[x] = NoCancel
  /\ Cancellable(o)
  /\ cancels' = [cancels EXCEPT ![x] = [at |-> "claim", order |-> o, gw |-> Nil]]
  /\ UNCHANGED <<orderVars, payments, gateway, events, seen, calls>>

Claimable(o) == {g \in Rows(o) : payments[g].status = "CAPTURED"}

ClaimPayment(x) ==
  LET o == cancels[x].order
  IN  /\ cancels[x].at = "claim"
      /\ \/ \E g \in Claimable(o) :
              /\ Latest(g, Claimable(o))
              /\ SetRow(g, "REFUND_PENDING")
              /\ cancels' = [cancels EXCEPT ![x].at = "refund", ![x].gw = g]
         \/ /\ Claimable(o) = {}
            /\ cancels' = [cancels EXCEPT ![x] = NoCancel]
            /\ UNCHANGED payments
      /\ UNCHANGED <<orderVars, gateway, events, seen, calls>>

\* The gateway refunds once; its answer may be lost.
GrantRefund(x) ==
  /\ cancels[x].at = "refund"
  /\ ~gateway[cancels[x].gw].refunded
  /\ gateway' = [gateway EXCEPT ![cancels[x].gw].refunded = TRUE]
  /\ \E next \in {"finalise", "revert"} :
       cancels' = [cancels EXCEPT ![x].at = next]
  /\ UNCHANGED <<orderVars, payments, events, seen, calls>>

\* Faulty: an error of the gateway is taken for an answer.
RefuseRefund_Ignored(x) ==
  /\ cancels[x].at = "refund"
  /\ cancels' = [cancels EXCEPT ![x].at = "finalise"]
  /\ UNCHANGED <<orderVars, payments, gateway, events, seen, calls>>

\* The gateway cannot be reached, or refuses (it has refunded already).
RefuseRefund(x) ==
  /\ cancels[x].at = "refund"
  /\ cancels' = [cancels EXCEPT ![x].at = "revert"]
  /\ UNCHANGED <<orderVars, payments, gateway, events, seen, calls>>

\* The catch block gives the claim back, if the row still is as claimed.
RevertClaim(x) ==
  LET g == cancels[x].gw
  IN  /\ cancels[x].at = "revert"
      /\ \/ payments[g].status = "REFUND_PENDING" /\ SetRow(g, "CAPTURED")
         \/ payments[g].status # "REFUND_PENDING" /\ UNCHANGED payments
      /\ cancels' = [cancels EXCEPT ![x] = NoCancel]
      /\ UNCHANGED <<orderVars, gateway, events, seen, calls>>

\* Faulty: the order read before the refund is trusted.
FinaliseCancel_NoRecheck(x) ==
  LET o == cancels[x].order
      g == cancels[x].gw
  IN  /\ cancels[x].at = "finalise"
      /\ payments[g].status = "REFUND_PENDING"
      /\ SetRow(g, "REFUNDED")
      /\ orders' = [orders EXCEPT ![o].status = "CANCELLED",
                                  ![o].paymentStatus = "REFUNDED"]
      /\ ReleaseStock(o)
      /\ cancels' = [cancels EXCEPT ![x] = NoCancel]
      /\ UNCHANGED <<cart, clock, checkouts, sweeps, admins>>
      /\ UNCHANGED <<gateway, events, seen, calls>>

FinaliseCancel(x) ==
  LET o == cancels[x].order
      g == cancels[x].gw
  IN  /\ cancels[x].at = "finalise"
      /\ payments[g].status = "REFUND_PENDING"
      /\ SetRow(g, "REFUNDED")
      /\ CancelPaid(o)
      /\ cancels' = [cancels EXCEPT ![x] = NoCancel]
      /\ UNCHANGED <<cart, clock, checkouts, sweeps, admins>>
      /\ UNCHANGED <<gateway, events, seen, calls>>

\* The transaction of FinaliseCancel finds the order or the row changed and
\* throws; or the process dies, wherever it is.  Nothing is undone.
DropCancel(x) ==
  /\ cancels[x] # NoCancel
  /\ cancels' = [cancels EXCEPT ![x] = NoCancel]
  /\ UNCHANGED <<orderVars, payments, gateway, events, seen, calls>>

-----------------------------------------------------------------------------
CallStep(c) ==
  \/ \E o \in Orders : ReadOrder(c, o)
  \/ LookupPayment(c)
  \/ \E g \in GatewayOrders : InsertPayment(c, g)
  \/ DropCall(c)

CancelStep(x) ==
  \/ \E o \in Orders : BeginCancel(x, o)
  \/ ClaimPayment(x)
  \/ GrantRefund(x)
  \/ RefuseRefund(x)
  \/ RevertClaim(x)
  \/ FinaliseCancel(x)
  \/ DropCancel(x)

PaymentNext ==
  \/ ShopStep /\ UNCHANGED paymentVars
  \/ \E c \in Callers : CallStep(c)
  \/ \E o \in Orders : RetryPayment(o)
  \/ \E g \in GatewayOrders, kind \in {"captured", "failed"} : TryToPay(g, kind)
  \/ \E e \in events : HandleWebhook(e)
  \/ \E x \in Cancellers : CancelStep(x)

PaymentSpec == PaymentInit /\ [][PaymentNext]_shopVars

-----------------------------------------------------------------------------
(* Properties.                                                             *)

\* Whatever webhooks, cancellations and crashes do, the order service sees
\* only the steps module Order allows: its properties hold of the whole.
ImplementsOrder == OrderSpec

\* "Only a verified payment.captured webhook changes the order to PAID"
\* (README.md:34): money was captured for every order that is paid or
\* refunded, and the event that says so has been handled.
PaidOnlyByCapture ==
  \A o \in Orders : orders[o].paymentStatus \in {"PAID", "REFUNDED"} =>
    \E e \in seen : e.kind = "captured" /\ e.gw \in Rows(o)

\* A failure of an attempt the customer has already replaced by a newer one
\* leaves the order alone (the comment at payment.service.ts:284-285), even
\* when two requests opened the two attempts at once.
SupersededFailureIgnored ==
  [][\A e \in seen' \ seen :
       LET o == payments[e.gw].order
       IN  (e.kind = "failed"
              /\ \E h \in Rows(o) : payments[h].rank > payments[e.gw].rank)
             => orders'[o] = orders[o]]_shopVars

\* "Refund a captured payment before cancelling the order"
\* (payment.service.ts:118-121): an order counts as refunded only when the
\* gateway has given the money back, and so does a payment.
RefundBeforeCancel ==
  /\ \A o \in Orders : orders[o].paymentStatus = "REFUNDED" =>
       \E g \in Rows(o) : gateway[g].refunded
  /\ \A g \in GatewayOrders : payments[g].status = "REFUNDED" =>
       gateway[g].refunded /\ orders[payments[g].order].paymentStatus = "REFUNDED"

\* "The payment row is claimed first so concurrent cancel requests cannot
\* issue a second refund" (payment.service.ts:118-121): at most one request
\* asks the gateway to refund a payment, even when events are redelivered.
SingleRefundInFlight ==
  \A x1, x2 \in Cancellers :
    /\ cancels[x1].at = "refund"
    /\ cancels[x2].at = "refund"
    /\ cancels[x1].gw = cancels[x2].gw
    => x1 = x2

-----------------------------------------------------------------------------
(* Why these properties hold: the parts of their inductive invariant.      *)

\* Whatever speaks of a gateway order or of an order speaks of one that
\* exists; what a cancellation has claimed is a row of its order.
LinksHold ==
  /\ \A g \in GatewayOrders : payments[g] # NoRow => payments[g].order \in Orders
  /\ \A e \in events : payments[e.gw].order \in Orders
  /\ \A c \in Callers : calls[c] # NoCall => calls[c].order \in Orders
  /\ \A x \in Cancellers : cancels[x] # NoCancel =>
       /\ cancels[x].order \in Orders
       /\ cancels[x].at # "claim" =>
            /\ cancels[x].gw \in GatewayOrders
            /\ payments[cancels[x].gw].order = cancels[x].order

\* The gateway announces the capture of a gateway order once.
OneCapture ==
  /\ \A e \in events : e.kind = "captured" => gateway[e.gw].captured
  /\ \A e1, e2 \in events :
       e1.kind = "captured" /\ e2.kind = "captured" /\ e1.gw = e2.gw => e1 = e2

CaptureSeen(g) == \E e \in seen : e.gw = g /\ e.kind = "captured"

\* A row that is captured, or on the way to a refund, has had its capture
\* handled: no event yet to come can make it CAPTURED again.
RowsSettled ==
  \A g \in GatewayOrders :
    payments[g].status \in {"CAPTURED", "REFUND_PENDING", "REFUNDED"} =>
      CaptureSeen(g)

\* A claim excludes others until it is given back: its row is not CAPTURED,
\* and it is the only one on that row.
ClaimsExclude ==
  /\ \A x \in Cancellers : cancels[x].at \in {"refund", "revert"} =>
       payments[cancels[x].gw].status # "CAPTURED" /\ CaptureSeen(cancels[x].gw)
  /\ \A x1, x2 \in Cancellers :
       /\ cancels[x1].at \in {"refund", "revert"}
       /\ cancels[x2].at \in {"refund", "revert"}
       /\ cancels[x1].gw = cancels[x2].gw
       => x1 = x2

\* A cancellation is finalised only after its refund was granted.
FinalisedAfterRefund ==
  \A x \in Cancellers : cancels[x].at = "finalise" =>
    gateway[cancels[x].gw].refunded

-----------------------------------------------------------------------------
(* What the documents say and the code does not do.                        *)

\* README.md:36: a paid order that is not packed may be cancelled.  For that
\* it needs a payment that can be refunded, or is being refunded.
RefundableWhilePaid ==
  \A o \in Orders : Cancellable(o) =>
    \E g \in Rows(o) : payments[g].status \in {"CAPTURED", "REFUND_PENDING"}

\* README.md:36: the refund goes with the cancellation.  An order all of
\* whose captured money went back is not on its way to the customer.
RefundedIsNotShipped ==
  \A o \in Orders :
    LET taken == {g \in Rows(o) : gateway[g].captured}
    IN  taken # {} /\ (\A g \in taken : gateway[g].refunded) =>
          orders[o].status \notin {"PACKED"} \cup ShippingTargets

\* "Do not let a duplicate/late failure for an earlier attempt cancel a
\* newer retry that is already awaiting payment" (payment.service.ts:284-285):
\* a failure from before the hold of the order began does not end that hold.
LateFailureSparesRetry ==
  [][\A e \in seen' \ seen :
       LET o == payments[e.gw].order
       IN  (e.kind = "failed" /\ Awaiting(o)
              /\ e.sent < orders[o].expiresAt - Hold) => Awaiting(o)']_shopVars
=============================================================================
