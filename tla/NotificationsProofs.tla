------------------------ MODULE NotificationsProofs ------------------------
(* Mails for any number of webhook requests and orders: however often the   *)
(* callback of a webhook runs, orders and payments see a behaviour of       *)
(* module Payment, and nobody is told of a refund he did not get.           *)
EXTENDS Notifications, PaymentProofs

\* The invariant of Payment, with what mails and requests add to it.
NInv == PInv /\ NotifyTypes /\ CancelMailIsTrue

\* At start no webhook is in progress and no mail was sent.
LEMMA NotifyInitInvariant == NotifyInit => NInv
<1> SUFFICES ASSUME NotifyInit
             PROVE  NInv
  OBVIOUS
<1>1. PInv
  BY PaymentInitInvariant DEF NotifyInit
<1>2. NotifyTypes
  BY DEF NotifyInit, NotifyTypes, NoDelivery
<1>3. CancelMailIsTrue
  BY DEF NotifyInit, CancelMailIsTrue, Types
<1>4. QED
  BY <1>1, <1>2, <1>3 DEF NInv

-----------------------------------------------------------------------------
(* Orders and payments under the webhook requests.                         *)

\* An attempt that does not commit, a duplicate, a lost request and the mail
\* server change neither orders nor payments; the rest are steps of Payment
\* (payment.service.ts:192-310).
LEMMA StepIsPaymentStep ==
  ASSUME NInv, [NotifyNext]_notifyVars
  PROVE  [PaymentNext]_shopVars
<1>1. CASE QuietShopStep
  <2>1. ShopStep /\ UNCHANGED paymentVars
    BY <1>1 DEF QuietShopStep, ShopStep, AdminStep
  <2>2. QED
    BY <2>1 DEF PaymentNext
<1>2. CASE QuietPaymentStep
  BY <1>2 DEF QuietPaymentStep, PaymentNext, CancelStep
<1>3. ASSUME NEW d \in Deliveries, WebhookStep(d)
      PROVE  [PaymentNext]_shopVars
  <2>1. CASE CommitAttempt(d)
    <3>1. deliveries[d].event \in events /\ HandleWebhook(deliveries[d].event)
      BY <2>1 DEF CommitAttempt, HandleWebhook
    <3>2. QED
      BY <3>1 DEF PaymentNext
  <2>2. CASE ~CommitAttempt(d)
    BY <1>3, <2>2 DEF WebhookStep, StartDelivery, AbortAttempt, EndDuplicate, DropDelivery
  <2>3. QED
    BY <2>1, <2>2
<1>4. ASSUME NEW a \in Admins, SaveOrderAndMail(a)
      PROVE  PaymentNext
  BY <1>4 DEF SaveOrderAndMail, PaymentNext, ShopStep, AdminStep
<1>5. ASSUME NEW x \in Cancellers, FinaliseCancelAndMail(x)
      PROVE  PaymentNext
  BY <1>5 DEF FinaliseCancelAndMail, PaymentNext, CancelStep
<1>6. ASSUME NEW m \in Orders \X Types, EndMail(m)
      PROVE  UNCHANGED shopVars
  BY <1>6 DEF EndMail
<1>7. CASE UNCHANGED notifyVars
  BY <1>7 DEF notifyVars
<1>8. QED
  BY <1>1, <1>2, <1>3, <1>4, <1>5, <1>6, <1>7 DEF NotifyNext

-----------------------------------------------------------------------------
(* Requests and mails.                                                     *)

\* The gateway takes back no webhook it has sent.
LEMMA EventsStay ==
  ASSUME NInv, [NotifyNext]_notifyVars
  PROVE  events \subseteq events'
<1>1. [PaymentNext]_shopVars
  BY StepIsPaymentStep
<1>2. QED
  BY <1>1
     DEF PaymentNext, ShopStep, CallStep, ReadOrder, LookupPayment, InsertPayment,
         DropCall, RetryPayment, TryToPay, HandleWebhook, CancelStep, BeginCancel,
         ClaimPayment, GrantRefund, RefuseRefund, RevertClaim, FinaliseCancel,
         DropCancel, paymentVars, shopVars

\* What a request in progress may be when the webhooks sent are es.
DeliveryForms(es) ==
  [event : es \cup {Nil}, confirmation : BOOLEAN, failure : BOOLEAN]

\* The callback leaves its variables what they are: two flags
\* (payment.service.ts:229-309).
LEMMA AfterCallbackOK ==
  ASSUME NEW d \in Deliveries, deliveries[d] \in DeliveryForms(events)
  PROVE  AfterCallback(d) \in DeliveryForms(events)
BY DEF AfterCallback, DeliveryForms, Payable, Awaiting

\* Every step leaves requests and mails in their forms.
LEMMA NotifyTypesKept ==
  ASSUME NInv, [NotifyNext]_notifyVars
  PROVE  NotifyTypes'
<1> DEFINE States == {"none", "waiting", "over"}
<1>1. /\ deliveries \in [Deliveries -> DeliveryForms(events)]
      /\ mails \in [Orders \X Types -> States]
  BY DEF NInv, NotifyTypes, DeliveryForms
<1>2. DeliveryForms(events) \subseteq DeliveryForms(events')
  BY EventsStay DEF DeliveryForms
<1>3. SUFFICES /\ deliveries' \in [Deliveries -> DeliveryForms(events')]
               /\ mails' \in [Orders \X Types -> States]
  BY DEF NotifyTypes, DeliveryForms
<1>4. ASSUME UNCHANGED deliveries
      PROVE  deliveries' \in [Deliveries -> DeliveryForms(events')]
  BY <1>1, <1>2, <1>4
<1>5. ASSUME NEW d \in Deliveries, NEW v \in DeliveryForms(events),
             deliveries' = [deliveries EXCEPT ![d] = v]
      PROVE  deliveries' \in [Deliveries -> DeliveryForms(events')]
  BY <1>1, <1>2, <1>5
<1>6. ASSUME NEW ms, Post(ms)
      PROVE  mails' \in [Orders \X Types -> States]
  BY <1>1, <1>6 DEF Post
<1>7. NoDelivery \in DeliveryForms(events)
  BY DEF NoDelivery, DeliveryForms
<1>8. ASSUME NEW d \in Deliveries, WebhookStep(d)
      PROVE  /\ deliveries' \in [Deliveries -> DeliveryForms(events')]
             /\ mails' \in [Orders \X Types -> States]
  <2>1. ASSUME NEW e \in events, StartDelivery(d, e)
        PROVE  deliveries' = [deliveries EXCEPT ![d] = [NoDelivery EXCEPT !.event = e]]
               /\ [NoDelivery EXCEPT !.event = e] \in DeliveryForms(events)
    BY <1>1, <2>1 DEF StartDelivery, NoDelivery, DeliveryForms
  <2>2. CASE \E e \in events : StartDelivery(d, e)
    BY <1>1, <1>5, <2>1, <2>2 DEF StartDelivery
  <2>3. CASE AbortAttempt(d)
    BY <1>1, <1>5, <2>3, AfterCallbackOK DEF AbortAttempt
  <2>4. CASE CommitAttempt(d)
    BY <1>5, <1>6, <1>7, <2>4 DEF CommitAttempt, Answer
  <2>5. CASE EndDuplicate(d)
    BY <1>5, <1>6, <1>7, <2>5 DEF EndDuplicate, Answer
  <2>6. CASE DropDelivery(d)
    BY <1>1, <1>5, <1>7, <2>6 DEF DropDelivery, Answer
  <2>7. QED
    BY <1>8, <2>2, <2>3, <2>4, <2>5, <2>6 DEF WebhookStep
<1>9. ASSUME NEW a \in Admins, SaveOrderAndMail(a)
      PROVE  UNCHANGED deliveries /\ mails' \in [Orders \X Types -> States]
  BY <1>6, <1>9 DEF SaveOrderAndMail
<1>10. ASSUME NEW x \in Cancellers, FinaliseCancelAndMail(x)
       PROVE  UNCHANGED deliveries /\ mails' \in [Orders \X Types -> States]
  BY <1>6, <1>10 DEF FinaliseCancelAndMail
<1>11. ASSUME NEW m \in Orders \X Types, EndMail(m)
       PROVE  UNCHANGED deliveries /\ mails' \in [Orders \X Types -> States]
  BY <1>1, <1>11 DEF EndMail
<1>12. CASE QuietShopStep \/ QuietPaymentStep \/ UNCHANGED notifyVars
  BY <1>1, <1>4, <1>12 DEF QuietShopStep, QuietPaymentStep, notifyVars
<1>13. QED
  BY <1>4, <1>8, <1>9, <1>10, <1>11, <1>12 DEF NotifyNext

\* A cancellation mail is only started by the commit that makes its order
\* REFUNDED (payment.service.ts:177-180).
LEMMA CancelMailStarts ==
  ASSUME NInv, [NotifyNext]_notifyVars, NEW o \in Orders,
         mails[<<o, "CANCELLED">>] = "none", mails'[<<o, "CANCELLED">>] # "none"
  PROVE  orders'[o].paymentStatus = "REFUNDED"
<1> DEFINE m == <<o, "CANCELLED">>
<1>1. /\ m \in Orders \X Types
      /\ mails \in [Orders \X Types -> {"none", "waiting", "over"}]
  BY DEF NInv, NotifyTypes, Types
<1>2. ASSUME NEW ms, Post(ms)
      PROVE  m \in ms
  BY <1>1, <1>2 DEF Post
<1>3. ASSUME NEW d
      PROVE  m \notin MailsOf(d)
  BY DEF MailsOf
<1>4. ASSUME NEW d \in Deliveries, WebhookStep(d)
      PROVE  FALSE
  <2>1. ~Post({}) /\ ~Post(MailsOf(AfterCallback(d))) /\ ~Post(MailsOf(deliveries[d]))
    BY <1>2, <1>3
  <2>2. QED
    BY <1>4, <2>1 DEF WebhookStep, StartDelivery, AbortAttempt, CommitAttempt,
                      EndDuplicate, DropDelivery
<1>5. ASSUME NEW a \in Admins, SaveOrderAndMail(a)
      PROVE  FALSE
  <2>1. m \in IF admins[a].target \in ShippingTargets
              THEN {<<admins[a].order, "SHIPPING">>} ELSE {}
    BY <1>2, <1>5 DEF SaveOrderAndMail
  <2>2. QED
    BY <2>1
<1>6. ASSUME NEW x \in Cancellers, FinaliseCancelAndMail(x)
      PROVE  orders'[o].paymentStatus = "REFUNDED"
  <2>1. cancels[x].order = o
    BY <1>2, <1>6 DEF FinaliseCancelAndMail
  <2>2. orders \in [Orders -> OrderDocs]
    BY DEF NInv, PInv, IInv, TypeOK
  <2>3. CancelPaid(o)
    BY <1>6, <2>1 DEF FinaliseCancelAndMail, FinaliseCancel
  <2>4. QED
    BY <2>2, <2>3 DEF CancelPaid, OrderDocs
<1>7. ASSUME NEW n \in Orders \X Types, EndMail(n)
      PROVE  FALSE
  BY <1>1, <1>7 DEF EndMail
<1>8. CASE QuietShopStep \/ QuietPaymentStep \/ UNCHANGED notifyVars
  BY <1>8 DEF QuietShopStep, QuietPaymentStep, notifyVars
<1>9. QED
  BY <1>4, <1>5, <1>6, <1>7, <1>8 DEF NotifyNext

\* Every step keeps the whole invariant: a refund that was given stays given.
LEMMA NotifyStepInvariant ==
  ASSUME NInv, [NotifyNext]_notifyVars
  PROVE  NInv'
<1> USE DEF NInv
<1>1. [PaymentNext]_shopVars
  BY StepIsPaymentStep
<1>2. PInv'
  BY <1>1, WholeInvariant
<1>3. ASSUME NEW o \in Orders, mails'[<<o, "CANCELLED">>] # "none"
      PROVE  orders'[o].paymentStatus = "REFUNDED"
  <2>1. CASE mails[<<o, "CANCELLED">>] # "none"
    <3>1. orders[o].paymentStatus = "REFUNDED"
      BY <2>1 DEF CancelMailIsTrue
    <3>2. PaidStays
      BY <1>1, StepIsOrderStep, StepInvariant DEF PInv
    <3>3. QED
      BY <3>1, <3>2 DEF PaidStays
  <2>2. CASE mails[<<o, "CANCELLED">>] = "none"
    BY <1>3, <2>2, CancelMailStarts
  <2>3. QED
    BY <2>1, <2>2
<1>4. CancelMailIsTrue'
  BY <1>2, <1>3 DEF PInv, RefundBeforeCancel, CancelMailIsTrue
<1>5. QED
  BY <1>2, <1>4, NotifyTypesKept

-----------------------------------------------------------------------------
(* The theorems.                                                           *)

\* The invariant holds of every behaviour of the shop with its mails.
LEMMA AlwaysNotify == NotifySpec => []NInv
<1>1. NInv /\ [NotifyNext]_notifyVars => NInv'
  BY NotifyStepInvariant
<1>2. QED
  BY <1>1, NotifyInitInvariant, PTL DEF NotifySpec

\* A webhook request in progress is about an event that was sent, or ended,
\* and mails are waiting, over, or were never started.
THEOREM NotifyTypeCorrect == NotifySpec => []NotifyTypes
BY AlwaysNotify, PTL DEF NInv

\* However often a callback is run again before its transaction commits,
\* orders and payments see one step of module Payment for each event
\* (payment.service.ts:229-309).
THEOREM NotifyImplementsPayment == NotifySpec => ImplementsPayment
<1>1. NotifyInit => PaymentInit
  BY DEF NotifyInit
<1>2. NInv /\ [NotifyNext]_notifyVars => [PaymentNext]_shopVars
  BY StepIsPaymentStep
<1>3. QED
  BY <1>1, <1>2, AlwaysNotify, PTL DEF NotifySpec, ImplementsPayment, PaymentSpec

\* Whoever is told "cancelled and refunded" has his money back, then and ever
\* after (payment.service.ts:117-181, notification.service.ts:144).
THEOREM CancelMailsAreTrue == NotifySpec => []CancelMailIsTrue
BY AlwaysNotify, PTL DEF NInv

\* The refinements compose: what is proved of orders and of payments holds
\* with every mail and every webhook whose transaction is run again.
THEOREM NotifyKeepsTheShop ==
  NotifySpec => /\ ImplementsOrder
                /\ []StockConserved
                /\ []OneOrderPerKey
                /\ []FulfilledOnlyIfPaid
                /\ PaymentIsFinal
                /\ SweepRespectsHold
                /\ []PaidOnlyByCapture
                /\ []RefundBeforeCancel
                /\ []SingleRefundInFlight
                /\ SupersededFailureIgnored
<1>1. PaymentSpec => OrderSpec
  BY PaymentImplementsOrder DEF ImplementsOrder
<1>2. OrderSpec => /\ []StockConserved
                   /\ []OneOrderPerKey
                   /\ []FulfilledOnlyIfPaid
                   /\ PaymentIsFinal
                   /\ SweepRespectsHold
  BY OrderConservesStock, KeysAreUnique, FulfilmentNeedsPayment, PaymentNeverReopens,
     HoldsAreRespected
<1>3. PaymentSpec => /\ []PaidOnlyByCapture
                     /\ []RefundBeforeCancel
                     /\ []SingleRefundInFlight
                     /\ SupersededFailureIgnored
  BY PaidMeansCaptured, RefundedBeforeCancelled, OneRefundAtATime, OldFailuresIgnored
<1>4. QED
  BY NotifyImplementsPayment, <1>1, <1>2, <1>3 DEF ImplementsPayment, ImplementsOrder
=============================================================================
