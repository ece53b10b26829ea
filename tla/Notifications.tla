--------------------------- MODULE Notifications ---------------------------
(***************************************************************************)
(* The mails an order sends, on top of module Payment: NotificationService *)
(* (notification.service.ts) and its callers.  A webhook is no longer one  *)
(* step: withTransaction runs its callback again when a commit fails, and  *)
(* what the callback left in the handler's variables stays there.          *)
(***************************************************************************)
EXTENDS Payment

CONSTANTS
  Deliveries  \* webhook requests in progress at once, over all replicas

VARIABLES
  deliveries,  \* handleWebhook calls: their event, `confirmation`, `failure`
  mails        \* what became of the last mail of each kind for each order

notifyVars == <<shopVars, deliveries, mails>>

\* The mails about SHIPPED, OUT_FOR_DELIVERY and DELIVERED are one kind here.
Types == {"PAID", "PAYMENT_FAILED", "CANCELLED", "SHIPPING"}
NoDelivery == [event |-> Nil, confirmation |-> FALSE, failure |-> FALSE]

NotifyTypes ==
  /\ deliveries \in [Deliveries ->
       [event : events \cup {Nil}, confirmation : BOOLEAN, failure : BOOLEAN]]
  /\ mails \in [Orders \X Types -> {"none", "waiting", "over"}]

NotifyInit ==
  /\ PaymentInit
  /\ deliveries = [d \in Deliveries |-> NoDelivery]
  /\ mails = [m \in Orders \X Types |-> "none"]

\* sendOrderNotification is called: nothing waits in a queue on disk.
Post(ms) == mails' = [m \in Orders \X Types |-> IF m \in ms THEN "waiting" ELSE mails[m]]

-----------------------------------------------------------------------------
(* handleWebhook.                                                          *)

\* Faulty: whatever is posted is handled, signed or not.
StartDelivery_Unsigned(d, e) ==
  /\ deliveries[d] = NoDelivery
  /\ \E f \in Webhooks : deliveries' = [deliveries EXCEPT ![d].event = f]
  /\ UNCHANGED <<shopVars, mails>>

\* Razorpay signs what it sends; a request signed by nobody goes no further.
StartDelivery(d, e) ==
  /\ deliveries[d] = NoDelivery
  /\ e \in events
  /\ deliveries' = [deliveries EXCEPT ![d].event = e]
  /\ UNCHANGED <<shopVars, mails>>

\* The variables after the callback has run to its end: `confirmation` is
\* assigned what markPaid returned, if it was called; `failure` only ever set.
AfterCallback(d) ==
  LET e == deliveries[d].event
      o == payments[e.gw].order
      current == IsCurrentPaymentAttempt(e.gw)
  IN  [deliveries[d] EXCEPT
        !.confirmation = IF e.kind = "captured" /\ current THEN Payable(o) ELSE @,
        !.failure = @ \/ /\ e.kind = "failed" /\ current
                         /\ payments[e.gw].status # "FAILED"
                         /\ Awaiting(o)]

MailsOf(delivery) ==
  LET o == payments[delivery.event.gw].order
  IN  {<<o, t>> : t \in (IF delivery.confirmation THEN {"PAID"} ELSE {}) \cup
                        (IF delivery.failure THEN {"PAYMENT_FAILED"} ELSE {})}

Answer(d) == deliveries' = [deliveries EXCEPT ![d] = NoDelivery]

\* Faulty: the callback forgets to pass its session to the updates.
AbortAttempt_KeepsWrites(d) ==
  LET e == deliveries[d].event
  IN  /\ e \in events \ seen
      /\ \/ e.kind = "captured" /\ HandleCaptured(e.gw)
         \/ e.kind = "failed" /\ HandleFailed(e.gw)
      /\ deliveries' = [deliveries EXCEPT ![d] = AfterCallback(d)]
      /\ UNCHANGED <<gateway, events, seen, calls, cancels, mails>>

\* The commit fails for a passing reason, and the callback is run again.
AbortAttempt(d) ==
  /\ deliveries[d].event \in events \ seen
  /\ deliveries' = [deliveries EXCEPT ![d] = AfterCallback(d)]
  /\ UNCHANGED <<shopVars, mails>>

\* The mails are started (`void`) and Razorpay is answered.
CommitAttempt(d) ==
  /\ deliveries[d] # NoDelivery
  /\ HandleWebhook(deliveries[d].event)
  /\ Post(MailsOf(AfterCallback(d)))
  /\ Answer(d)

\* Faulty: the answer waits until the mails are taken.
EndDuplicate_Awaits(d) ==
  /\ deliveries[d].event \in seen
  /\ \A m \in Orders \X Types : mails[m] # "waiting"
  /\ Post({}) \/ Post(MailsOf(deliveries[d]))
  /\ Answer(d)
  /\ UNCHANGED shopVars

\* The event is stored already.  The server has aborted the transaction by
\* the time the callback returns: committing it throws, or ends quietly.
EndDuplicate(d) ==
  /\ deliveries[d].event \in seen
  /\ Post({}) \/ Post(MailsOf(deliveries[d]))
  /\ Answer(d)
  /\ UNCHANGED shopVars

\* The process dies, or withTransaction gives up.
DropDelivery(d) ==
  /\ deliveries[d] # NoDelivery
  /\ Answer(d)
  /\ UNCHANGED <<shopVars, mails>>

-----------------------------------------------------------------------------
(* The other callers: the admin handlers and cancelOrder.                  *)

SaveOrderAndMail(a) ==
  /\ SaveOrder(a)
  /\ Post(IF admins[a].target \in ShippingTargets
          THEN {<<admins[a].order, "SHIPPING">>} ELSE {})
  /\ UNCHANGED <<paymentVars, deliveries>>

FinaliseCancelAndMail(x) ==
  /\ FinaliseCancel(x)
  /\ Post({<<cancels[x].order, "CANCELLED">>})
  /\ UNCHANGED deliveries

-----------------------------------------------------------------------------
(* External: the mail server.                                              *)

\* The server takes the mail; or it does not, or the process dies, and the
\* mail is logged at best and not tried again.
EndMail(m) ==
  /\ mails[m] = "waiting"
  /\ mails' = [mails EXCEPT ![m] = "over"]
  /\ UNCHANGED <<shopVars, deliveries>>

-----------------------------------------------------------------------------
WebhookStep(d) ==
  \/ \E e \in events : StartDelivery(d, e)
  \/ AbortAttempt(d)
  \/ CommitAttempt(d)
  \/ EndDuplicate(d)
  \/ DropDelivery(d)

\* The steps of Order and Payment that send nothing, an expiry among them.
QuietShopStep ==
  /\ \/ Tick
     \/ \E u \in Users, p \in Products, q \in 0..MaxQty : EditCart(u, p, q)
     \/ \E c \in Clients : CheckoutStep(c)
     \/ \E w \in Workers : SweepStep(w)
     \/ \E a \in Admins, o \in Orders, t \in Statuses :
          LoadForStatus(a, o, t) \/ LoadForShipping(a, o, t)
     \/ \E a \in Admins : DropRequest(a)
  /\ UNCHANGED <<paymentVars, deliveries, mails>>

QuietPaymentStep ==
  /\ \/ \E c \in Callers : CallStep(c)
     \/ \E o \in Orders : RetryPayment(o)
     \/ \E g \in GatewayOrders, kind \in {"captured", "failed"} : TryToPay(g, kind)
     \/ \E x \in Cancellers, o \in Orders : BeginCancel(x, o)
     \/ \E x \in Cancellers :
          \/ ClaimPayment(x) \/ GrantRefund(x) \/ RefuseRefund(x)
          \/ RevertClaim(x) \/ DropCancel(x)
  /\ UNCHANGED <<deliveries, mails>>

NotifyNext ==
  \/ QuietShopStep
  \/ QuietPaymentStep
  \/ \E d \in Deliveries : WebhookStep(d)
  \/ \E a \in Admins : SaveOrderAndMail(a)
  \/ \E x \in Cancellers : FinaliseCancelAndMail(x)
  \/ \E m \in Orders \X Types : EndMail(m)

NotifySpec == NotifyInit /\ [][NotifyNext]_notifyVars

\* A request that runs goes on running, and a commit that is tried again and
\* again succeeds.  Nothing is assumed of the mail server.
WebhooksRun ==
  \A d \in Deliveries : WF_notifyVars(CommitAttempt(d) \/ EndDuplicate(d))

RunningSpec == NotifySpec /\ WebhooksRun

-----------------------------------------------------------------------------
(* Properties.                                                             *)

\* However often the callback of a webhook is run before it commits, orders
\* and payments see one step of module Payment per event, with one more
\* request for each retry that changes nothing (payment.service.ts:234-289).
ImplementsPayment == PaymentSpec

\* "Your order has been cancelled and refunded" (notification.service.ts:144):
\* whoever is told so has his money back, and his order cannot be paid again.
CancelMailIsTrue ==
  \A o \in Orders : mails[<<o, "CANCELLED">>] # "none" =>
    /\ orders[o].paymentStatus = "REFUNDED"
    /\ \E g \in Rows(o) : gateway[g].refunded

\* "SMTP latency cannot delay the Razorpay webhook response" (README.md:63):
\* every webhook is answered, also when no mail is ever taken.
WebhookAnswered ==
  \A d \in Deliveries : deliveries[d] # NoDelivery ~> deliveries[d] = NoDelivery

-----------------------------------------------------------------------------
(* What the documents say and the code does not do.                        *)

\* Mail "is queued for payment confirmation/failure" (README.md:63): a mail
\* started by the handling of an event says what the event did to the order.
MailsTellWhatCommitted ==
  [][seen' # seen =>
       \A o \in Orders :
         LET news(t) == mails'[<<o, t>>] = "waiting" /\ mails[<<o, t>>] # "waiting"
         IN  /\ news("PAID") => orders'[o].paymentStatus = "PAID"
             /\ news("PAYMENT_FAILED") => orders'[o].paymentStatus = "FAILED"
    ]_notifyVars
=============================================================================
