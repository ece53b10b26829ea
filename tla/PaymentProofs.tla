--------------------------- MODULE PaymentProofs ---------------------------
(* Payment for any number of orders, gateway orders, tries, webhooks and    *)
(* cancellations: it implements Order, money moves as documented, and every *)
(* proved property of Order holds of the shop as a whole.                   *)
EXTENDS Payment, OrderProofs, FiniteSetTheorems

\* The invariant of what payments alone are made of.
MoneyOK ==
  /\ MoneyTypes
  /\ LinksHold
  /\ OneCapture
  /\ RowsSettled
  /\ ClaimsExclude
  /\ FinalisedAfterRefund

\* The whole invariant: orders, money, and what relates the two.
PInv == IInv /\ MoneyOK /\ PaidOnlyByCapture /\ RefundBeforeCancel

\* What the proofs use of the constants (bounds and external identifiers).
LEMMA PaymentConstants ==
  /\ IsFiniteSet(GatewayOrders)
  /\ MaxTries \in Nat
  /\ Nil \notin GatewayOrders
  /\ Nil \notin Orders
BY PaymentAssumption, OrderAssumption

\* At start nobody has paid and nothing is in progress.
LEMMA PaymentInitInvariant == PaymentInit => PInv
<1> SUFFICES ASSUME PaymentInit
             PROVE  PInv
  OBVIOUS
<1> USE PaymentConstants
<1>1. IInv
  BY InitInvariant DEF PaymentInit
<1>2. MoneyTypes
  BY DEF PaymentInit, MoneyTypes, NoRow, NoTries, NoCall, NoCancel, RowStatuses
<1>3. LinksHold /\ OneCapture /\ RowsSettled /\ ClaimsExclude /\ FinalisedAfterRefund
  BY DEF PaymentInit, LinksHold, OneCapture, RowsSettled, ClaimsExclude,
         FinalisedAfterRefund, NoRow, NoCall, NoCancel
<1>4. PaidOnlyByCapture /\ RefundBeforeCancel
  BY DEF PaymentInit, OrderInit, PaidOnlyByCapture, RefundBeforeCancel,
         NoOrder, NoRow
<1>5. QED
  BY <1>1, <1>2, <1>3, <1>4 DEF PInv, MoneyOK

-----------------------------------------------------------------------------
(* Payment implements Order.                                               *)

\* Every step of the payment service is one the order service allows, or
\* leaves orders and stock alone (payment.service.ts:30-310).
LEMMA StepIsOrderStep ==
  ASSUME MoneyOK, [PaymentNext]_shopVars
  PROVE  [OrderNext]_orderVars
<1> USE DEF MoneyOK
<1>1. CASE ShopStep
  BY <1>1 DEF OrderNext
<1>2. ASSUME NEW c \in Callers, CallStep(c)
      PROVE  UNCHANGED orderVars
  BY <1>2 DEF CallStep, ReadOrder, LookupPayment, InsertPayment, DropCall
<1>3. ASSUME NEW o \in Orders, RetryPayment(o)
      PROVE  PaymentStep(o)
  BY <1>3 DEF RetryPayment, PaymentStep
<1>4. ASSUME NEW g \in GatewayOrders, NEW kind \in {"captured", "failed"},
             TryToPay(g, kind)
      PROVE  UNCHANGED orderVars
  BY <1>4 DEF TryToPay
<1>5. ASSUME NEW e \in events, HandleWebhook(e)
      PROVE  UNCHANGED orderVars \/ \E o \in Orders : PaymentStep(o)
  <2>1. payments[e.gw].order \in Orders
    BY DEF LinksHold
  <2>2. UNCHANGED orderVars \/ PaymentStep(payments[e.gw].order)
    BY <1>5 DEF HandleWebhook, HandleCaptured, HandleFailed, PaymentStep
  <2>3. QED
    BY <2>1, <2>2
<1>6. ASSUME NEW x \in Cancellers, CancelStep(x)
      PROVE  UNCHANGED orderVars \/ \E o \in Orders : PaymentStep(o)
  <2>1. CASE FinaliseCancel(x)
    <3>1. cancels[x].order \in Orders
      BY <2>1 DEF FinaliseCancel, LinksHold, NoCancel
    <3>2. PaymentStep(cancels[x].order)
      BY <2>1 DEF FinaliseCancel, PaymentStep
    <3>3. QED
      BY <3>1, <3>2
  <2>2. CASE ~FinaliseCancel(x)
    BY <1>6, <2>2
       DEF CancelStep, BeginCancel, ClaimPayment, GrantRefund, RefuseRefund,
           RevertClaim, DropCancel
  <2>3. QED
    BY <2>1, <2>2
<1>7. CASE UNCHANGED shopVars
  BY <1>7 DEF shopVars
<1>8. QED
  BY <1>1, <1>2, <1>3, <1>4, <1>5, <1>6, <1>7 DEF PaymentNext, OrderNext

-----------------------------------------------------------------------------
(* Money, action by action.                                                *)

\* A step that touches nothing of the payment service.
LEMMA MoneyKept ==
  ASSUME MoneyOK, UNCHANGED paymentVars
  PROVE  MoneyOK'
BY DEF MoneyOK, MoneyTypes, LinksHold, OneCapture, RowsSettled, ClaimsExclude,
       FinalisedAfterRefund, CaptureSeen, paymentVars

\* createRazorpayOrder (payment.service.ts:30-111).
LEMMA CallKeepsMoney ==
  ASSUME MoneyOK, NEW c \in Callers, CallStep(c)
  PROVE  MoneyOK'
<1> USE PaymentConstants DEF MoneyOK
<1>1. ASSUME UNCHANGED <<payments, gateway, events, seen, cancels>>,
             NEW d \in [at : {"idle", "lookup", "fetch"}, order : Orders \cup {Nil}],
             calls' = [calls EXCEPT ![c] = d],
             d = NoCall \/ d.order \in Orders
      PROVE  MoneyOK'
  <2>1. MoneyTypes'
    BY <1>1 DEF MoneyTypes
  <2>2. LinksHold'
    BY <1>1 DEF MoneyTypes, LinksHold
  <2>3. (OneCapture /\ RowsSettled /\ ClaimsExclude /\ FinalisedAfterRefund)'
    BY <1>1 DEF OneCapture, RowsSettled, ClaimsExclude, FinalisedAfterRefund,
                CaptureSeen
  <2>4. QED
    BY <2>1, <2>2, <2>3
<1>2. NoCall \in [at : {"idle", "lookup", "fetch"}, order : Orders \cup {Nil}]
  BY DEF NoCall
<1>3. ASSUME NEW o \in Orders, ReadOrder(c, o)
      PROVE  MoneyOK'
  BY <1>1, <1>3 DEF ReadOrder
<1>4. CASE LookupPayment(c)
  <2>1. calls[c] # NoCall /\ calls[c] \in [at : {"idle", "lookup", "fetch"},
                                            order : Orders \cup {Nil}]
    BY <1>4 DEF LookupPayment, NoCall, MoneyTypes
  <2>2. calls[c].order \in Orders
    BY <2>1 DEF LinksHold
  <2>3. CASE calls' = [calls EXCEPT ![c] = NoCall]
    BY <1>1, <1>2, <1>4, <2>3 DEF LookupPayment
  <2>4. CASE calls' = [calls EXCEPT ![c].at = "fetch"]
    <3> DEFINE d == [calls[c] EXCEPT !.at = "fetch"]
    <3>1. calls' = [calls EXCEPT ![c] = d]
      BY <2>4
    <3>2. d \in [at : {"idle", "lookup", "fetch"}, order : Orders \cup {Nil}]
          /\ d.order \in Orders
      BY <2>1, <2>2
    <3>3. QED
      BY <1>1, <1>4, <3>1, <3>2 DEF LookupPayment
  <2>5. QED
    BY <1>4, <2>3, <2>4 DEF LookupPayment
<1>5. CASE DropCall(c)
  BY <1>1, <1>2, <1>5 DEF DropCall
<1>6. ASSUME NEW g \in GatewayOrders, InsertPayment(c, g)
      PROVE  MoneyOK'
  <2> DEFINE n == 1 + Cardinality({h \in GatewayOrders : payments[h] # NoRow})
             row == [order |-> calls[c].order, status |-> "CREATED", rank |-> n]
  <2>1. n \in Nat
    <3>1. IsFiniteSet({h \in GatewayOrders : payments[h] # NoRow})
      BY FS_Subset
    <3>2. QED
      BY <3>1, FS_CardinalityType
  <2>2. calls[c].order \in Orders
    BY <1>6 DEF InsertPayment, LinksHold, NoCall
  <2>3. payments' = [payments EXCEPT ![g] = row] /\ payments[g] = NoRow
        /\ calls' = [calls EXCEPT ![c] = NoCall]
        /\ UNCHANGED <<gateway, events, seen, cancels>>
    BY <1>6 DEF InsertPayment
  <2>4. row \in [order : Orders \cup {Nil}, status : RowStatuses, rank : Nat]
    BY <2>1, <2>2 DEF RowStatuses
  <2> HIDE DEF n
  <2>5. MoneyTypes'
    BY <1>2, <2>3, <2>4 DEF MoneyTypes
  <2>6. /\ \A e \in events : e.gw # g /\ e.gw \in GatewayOrders
        /\ \A x \in Cancellers :
             cancels[x] # NoCancel /\ cancels[x].at # "claim" => cancels[x].gw # g
    BY <2>3 DEF LinksHold, MoneyTypes, Webhooks, NoRow
  <2>7. LinksHold'
    BY <2>2, <2>3, <2>6 DEF LinksHold, MoneyTypes
  <2>8. OneCapture' /\ FinalisedAfterRefund'
    BY <2>3 DEF OneCapture, FinalisedAfterRefund
  <2>9. RowsSettled'
    BY <2>3 DEF RowsSettled, CaptureSeen, MoneyTypes
  <2>10. ClaimsExclude'
    BY <2>3, <2>6 DEF ClaimsExclude, CaptureSeen, MoneyTypes, LinksHold, NoCancel
  <2>11. QED
    BY <2>5, <2>7, <2>8, <2>9, <2>10
<1>7. QED
  BY <1>3, <1>4, <1>5, <1>6 DEF CallStep

\* A try at the gateway's checkout (external).
LEMMA TryKeepsMoney ==
  ASSUME MoneyOK, NEW g \in GatewayOrders, NEW kind \in {"captured", "failed"},
         TryToPay(g, kind), clock \in 0..MaxTime
  PROVE  MoneyOK'
<1> USE PaymentConstants DEF MoneyOK
<1> DEFINE e == [gw |-> g, try |-> gateway[g].tries + 1, kind |-> kind, sent |-> clock]
           tried == [gateway[g] EXCEPT !.tries = gateway[g].tries + 1,
                                       !.captured = (kind = "captured")]
<1>1. /\ gateway[g] \in [tries : 0..MaxTries, captured : BOOLEAN, refunded : BOOLEAN]
      /\ gateway[g].tries < MaxTries
      /\ gateway[g].captured = FALSE
  BY DEF TryToPay, MoneyTypes
<1>2. e \in Webhooks
  BY <1>1 DEF Webhooks
<1>3. tried \in [tries : 0..MaxTries, captured : BOOLEAN, refunded : BOOLEAN]
  <2>1. gateway[g].tries + 1 \in 0..MaxTries
    BY <1>1
  <2>2. CASE kind = "captured"
    <3>1. tried = [gateway[g] EXCEPT !.tries = gateway[g].tries + 1,
                                     !.captured = TRUE]
      BY <2>2
    <3>2. QED
      BY <1>1, <2>1, <3>1
  <2>3. CASE kind = "failed"
    <3>1. tried = [gateway[g] EXCEPT !.tries = gateway[g].tries + 1,
                                     !.captured = FALSE]
      BY <2>3
    <3>2. QED
      BY <1>1, <2>1, <3>1
  <2>4. QED
    BY <2>2, <2>3
<1>4. /\ gateway' = [gateway EXCEPT ![g] = tried]
      /\ events' = events \cup {e}
      /\ UNCHANGED <<payments, seen, calls, cancels>>
      /\ payments[g].order \in Orders
  BY DEF TryToPay, LinksHold
<1>5. tried.captured = (kind = "captured") /\ tried.refunded = gateway[g].refunded
  BY <1>1
<1> HIDE DEF tried
<1>6. MoneyTypes'
  BY <1>2, <1>3, <1>4 DEF MoneyTypes
<1>7. LinksHold'
  BY <1>4 DEF LinksHold
<1>8. OneCapture'
  <2>1. \A f \in events : f.kind = "captured" => f.gw # g
    BY <1>1 DEF OneCapture
  <2>2. \A f \in events : f.gw \in GatewayOrders
    BY DEF MoneyTypes, Webhooks
  <2>3. \A f \in events' : f.kind = "captured" => gateway'[f.gw].captured
    <3>1. gateway'[g] = tried /\ \A h \in GatewayOrders \ {g} : gateway'[h] = gateway[h]
      BY <1>4 DEF MoneyTypes
    <3>2. ASSUME NEW f \in events, f.kind = "captured"
          PROVE  gateway'[f.gw].captured
      BY <2>1, <2>2, <3>1, <3>2 DEF OneCapture
    <3>3. ASSUME e.kind = "captured"
          PROVE  gateway'[e.gw].captured
      BY <1>5, <3>1, <3>3
    <3>4. QED
      BY <1>4, <3>2, <3>3
  <2>4. QED
    BY <1>4, <2>1, <2>3 DEF OneCapture
<1>9. (RowsSettled /\ ClaimsExclude)'
  BY <1>4 DEF RowsSettled, ClaimsExclude, CaptureSeen
<1>10. FinalisedAfterRefund'
  BY <1>4, <1>5 DEF FinalisedAfterRefund, MoneyTypes, LinksHold, NoCancel
<1>11. QED
  BY <1>6, <1>7, <1>8, <1>9, <1>10

\* handleWebhook (payment.service.ts:215-299): the row becomes CAPTURED or
\* FAILED, and a row that is claimed cannot become CAPTURED by it.
LEMMA WebhookKeepsMoney ==
  ASSUME MoneyOK, NEW e \in events, HandleWebhook(e)
  PROVE  MoneyOK'
<1> USE PaymentConstants DEF MoneyOK
<1> DEFINE g == e.gw
           s == IF e.kind = "captured" THEN "CAPTURED" ELSE "FAILED"
<1>1. e \in Webhooks /\ e \notin seen /\ g \in GatewayOrders
      /\ e.kind \in {"captured", "failed"}
  BY DEF MoneyTypes, Webhooks, HandleWebhook
<1>2. payments' = [payments EXCEPT ![g].status = s]
  BY <1>1 DEF HandleWebhook, HandleCaptured, HandleFailed, SetRow
<1>3. seen' = seen \cup {e} /\ UNCHANGED <<gateway, events, calls, cancels>>
  BY DEF HandleWebhook
<1>4. s \in {"CAPTURED", "FAILED"} /\ (s = "CAPTURED" => e.kind = "captured")
  OBVIOUS
<1> HIDE DEF s
<1>5. /\ \A h \in GatewayOrders : payments'[h].order = payments[h].order
      /\ \A h \in GatewayOrders \ {g} : payments'[h] = payments[h]
      /\ payments'[g].status = s
      /\ payments' \in [GatewayOrders ->
           [order : Orders \cup {Nil}, status : RowStatuses, rank : Nat]]
  BY <1>1, <1>2, <1>4 DEF MoneyTypes, RowStatuses
<1>6. MoneyTypes'
  BY <1>3, <1>5 DEF MoneyTypes
<1>7. LinksHold'
  <2>1. \A h \in GatewayOrders : payments'[h] # NoRow => payments'[h].order \in Orders
    BY <1>1, <1>5 DEF LinksHold
  <2>2. \A f \in events : payments'[f.gw].order \in Orders
    BY <1>5 DEF LinksHold, MoneyTypes, Webhooks
  <2>3. QED
    BY <1>3, <1>5, <2>1, <2>2 DEF LinksHold
<1>8. OneCapture' /\ FinalisedAfterRefund'
  BY <1>3 DEF OneCapture, FinalisedAfterRefund
<1>9. RowsSettled'
  <2>1. \A h \in GatewayOrders : CaptureSeen(h) => CaptureSeen(h)'
    BY <1>3 DEF CaptureSeen
  <2>2. s = "CAPTURED" => CaptureSeen(g)'
    BY <1>3, <1>4 DEF CaptureSeen
  <2>3. QED
    BY <1>1, <1>4, <1>5, <2>1, <2>2 DEF RowsSettled
<1>10. ClaimsExclude'
  <2>1. CaptureSeen(g) => s # "CAPTURED"
    BY <1>1, <1>4 DEF CaptureSeen, OneCapture, MoneyTypes
  <2>2. \A h : CaptureSeen(h) => CaptureSeen(h)'
    BY <1>3 DEF CaptureSeen
  <2>3. \A x \in Cancellers : cancels[x].at \in {"refund", "revert"} =>
          cancels[x].gw \in GatewayOrders
    BY DEF LinksHold, NoCancel
  <2>4. \A x \in Cancellers : cancels[x].at \in {"refund", "revert"} =>
          payments'[cancels[x].gw].status # "CAPTURED"
    BY <1>5, <2>1, <2>3 DEF ClaimsExclude
  <2>5. QED
    BY <1>3, <2>2, <2>4 DEF ClaimsExclude
<1>11. QED
  BY <1>6, <1>7, <1>8, <1>9, <1>10

-----------------------------------------------------------------------------
(* cancelOrder (payment.service.ts:117-181).                               *)

CancelForm ==
  [at : {"idle", "claim", "refund", "revert", "finalise"},
   order : Orders \cup {Nil}, gw : GatewayOrders \cup {Nil}]

\* A step of one cancellation that keeps its claim, or gives it up, and
\* leaves every row as it is.
LEMMA CancelMoves ==
  ASSUME MoneyOK, NEW x \in Cancellers, NEW d \in CancelForm,
         cancels' = [cancels EXCEPT ![x] = d],
         UNCHANGED <<payments, gateway, events, seen, calls>>,
         d # NoCancel =>
           /\ d.order \in Orders
           /\ d.at # "claim" =>
                d.gw \in GatewayOrders /\ payments[d.gw].order = d.order,
         d.at \in {"refund", "revert"} =>
           cancels[x].at \in {"refund", "revert"} /\ d.gw = cancels[x].gw,
         d.at = "finalise" => gateway[d.gw].refunded
  PROVE  MoneyOK'
<1> USE DEF MoneyOK
<1>1. /\ cancels'[x] = d
      /\ \A y \in Cancellers \ {x} : cancels'[y] = cancels[y]
      /\ cancels' \in [Cancellers -> CancelForm]
  BY DEF MoneyTypes, CancelForm
<1>2. MoneyTypes'
  BY <1>1 DEF MoneyTypes, CancelForm
<1>3. LinksHold'
  BY <1>1 DEF LinksHold
<1>4. (OneCapture /\ RowsSettled)'
  BY DEF OneCapture, RowsSettled, CaptureSeen
<1>5. ClaimsExclude'
  <2>1. \A y \in Cancellers : cancels'[y].at \in {"refund", "revert"} =>
          cancels[y].at \in {"refund", "revert"} /\ cancels'[y].gw = cancels[y].gw
    BY <1>1
  <2>2. QED
    BY <2>1 DEF ClaimsExclude, CaptureSeen
<1>6. FinalisedAfterRefund'
  BY <1>1 DEF FinalisedAfterRefund
<1>7. QED
  BY <1>2, <1>3, <1>4, <1>5, <1>6

\* The request's first check of the order.
LEMMA BeginKeepsMoney ==
  ASSUME MoneyOK, NEW x \in Cancellers, NEW o \in Orders, BeginCancel(x, o)
  PROVE  MoneyOK'
<1> DEFINE d == [at |-> "claim", order |-> o, gw |-> Nil]
<1>1. d \in CancelForm
  BY DEF CancelForm
<1>2. QED
  BY <1>1, CancelMoves DEF BeginCancel, CancelForm

\* A request that ends, wherever it is.
LEMMA DropKeepsMoney ==
  ASSUME MoneyOK, NEW x \in Cancellers, DropCancel(x)
  PROVE  MoneyOK'
<1>1. NoCancel \in CancelForm /\ NoCancel.at = "idle"
  BY DEF CancelForm, NoCancel
<1>2. QED
  BY <1>1, CancelMoves DEF DropCancel

\* The gateway refuses.
LEMMA RefusalKeepsMoney ==
  ASSUME MoneyOK, NEW x \in Cancellers, RefuseRefund(x)
  PROVE  MoneyOK'
<1> DEFINE d == [cancels[x] EXCEPT !.at = "revert"]
<1>1. /\ cancels[x] \in CancelForm /\ cancels[x].at = "refund"
      /\ cancels[x] # NoCancel
      /\ cancels' = [cancels EXCEPT ![x] = d]
  BY DEF RefuseRefund, MoneyOK, MoneyTypes, CancelForm, NoCancel
<1>2. d \in CancelForm /\ d.at = "revert" /\ d.order = cancels[x].order
      /\ d.gw = cancels[x].gw
  BY <1>1 DEF CancelForm
<1>3. /\ d.order \in Orders /\ d.gw \in GatewayOrders
      /\ payments[d.gw].order = d.order
  BY <1>1, <1>2 DEF MoneyOK, LinksHold
<1> HIDE DEF d
<1>4. QED
  BY <1>1, <1>2, <1>3, CancelMoves DEF RefuseRefund

\* The gateway gives the money back, and says so or not.
LEMMA GrantKeepsMoney ==
  ASSUME MoneyOK, NEW x \in Cancellers, GrantRefund(x)
  PROVE  MoneyOK'
<1> USE DEF MoneyOK
<1> DEFINE g == cancels[x].gw
           given == [gateway[g] EXCEPT !.refunded = TRUE]
<1>1. /\ cancels[x] \in CancelForm /\ cancels[x].at = "refund"
      /\ cancels[x] # NoCancel
  BY DEF GrantRefund, MoneyTypes, CancelForm, NoCancel
<1>2. /\ cancels[x].order \in Orders /\ g \in GatewayOrders
      /\ payments[g].order = cancels[x].order
  BY <1>1 DEF LinksHold
<1>3. PICK next \in {"finalise", "revert"} :
        cancels' = [cancels EXCEPT ![x].at = next]
  BY DEF GrantRefund
<1> DEFINE d == [cancels[x] EXCEPT !.at = next]
<1>4. d \in CancelForm /\ d.at = next /\ d.order = cancels[x].order /\ d.gw = g
  BY <1>1 DEF CancelForm
<1>5. cancels' = [cancels EXCEPT ![x] = d]
  BY <1>3
<1> HIDE DEF d
<1>6. /\ cancels'[x] = d
      /\ \A y \in Cancellers \ {x} : cancels'[y] = cancels[y]
      /\ cancels' \in [Cancellers -> CancelForm]
  BY <1>4, <1>5 DEF MoneyTypes, CancelForm
<1>7. /\ \A h \in GatewayOrders : gateway'[h].captured = gateway[h].captured
      /\ \A h \in GatewayOrders : gateway[h].refunded => gateway'[h].refunded
      /\ gateway'[g].refunded
      /\ gateway' \in [GatewayOrders ->
           [tries : 0..MaxTries, captured : BOOLEAN, refunded : BOOLEAN]]
  <2>1. gateway[g] \in [tries : 0..MaxTries, captured : BOOLEAN, refunded : BOOLEAN]
    BY <1>2 DEF MoneyTypes
  <2>2. given \in [tries : 0..MaxTries, captured : BOOLEAN, refunded : BOOLEAN]
        /\ given.refunded = TRUE /\ given.captured = gateway[g].captured
    BY <2>1
  <2>3. gateway' = [gateway EXCEPT ![g] = given]
    BY DEF GrantRefund
  <2> HIDE DEF given
  <2>4. QED
    BY <1>2, <2>2, <2>3 DEF MoneyTypes
<1>8. UNCHANGED <<payments, events, seen, calls>>
  BY DEF GrantRefund
<1>9. MoneyTypes'
  BY <1>6, <1>7, <1>8 DEF MoneyTypes, CancelForm
<1>10. LinksHold'
  BY <1>2, <1>4, <1>6, <1>8 DEF LinksHold
<1>11. OneCapture'
  BY <1>7, <1>8 DEF OneCapture, MoneyTypes, Webhooks
<1>12. RowsSettled'
  BY <1>8 DEF RowsSettled, CaptureSeen
<1>13. ClaimsExclude'
  <2>1. \A y \in Cancellers : cancels'[y].at \in {"refund", "revert"} =>
          cancels[y].at \in {"refund", "revert"} /\ cancels'[y].gw = cancels[y].gw
    BY <1>1, <1>4, <1>6
  <2>2. QED
    BY <1>8, <2>1 DEF ClaimsExclude, CaptureSeen
<1>14. FinalisedAfterRefund'
  BY <1>4, <1>6, <1>7 DEF FinalisedAfterRefund, LinksHold, NoCancel
<1>15. QED
  BY <1>9, <1>10, <1>11, <1>12, <1>13, <1>14

\* What a step does to the rows when it gives row g the status s.
LEMMA SetRowOK ==
  ASSUME MoneyTypes, NEW g \in GatewayOrders, NEW s \in RowStatuses, SetRow(g, s)
  PROVE  /\ \A h \in GatewayOrders : payments'[h].order = payments[h].order
         /\ \A h \in GatewayOrders \ {g} : payments'[h] = payments[h]
         /\ payments'[g].status = s
         /\ payments' \in [GatewayOrders ->
              [order : Orders \cup {Nil}, status : RowStatuses, rank : Nat]]
BY DEF MoneyTypes, SetRow

\* A captured payment is claimed for its refund (payment.service.ts:130-142).
LEMMA ClaimKeepsMoney ==
  ASSUME MoneyOK, NEW x \in Cancellers, ClaimPayment(x)
  PROVE  MoneyOK'
<1> USE PaymentConstants DEF MoneyOK
<1>1. /\ cancels[x] \in CancelForm /\ cancels[x].at = "claim"
      /\ cancels[x].order \in Orders
  BY DEF ClaimPayment, MoneyTypes, CancelForm, NoCancel, LinksHold
<1>2. CASE cancels' = [cancels EXCEPT ![x] = NoCancel] /\ UNCHANGED payments
  <2>1. NoCancel \in CancelForm /\ NoCancel.at = "idle"
    BY DEF CancelForm, NoCancel
  <2>2. QED
    BY <1>2, <2>1, CancelMoves DEF ClaimPayment
<1>3. ASSUME NEW g \in GatewayOrders, g \in Claimable(cancels[x].order),
             SetRow(g, "REFUND_PENDING"),
             cancels' = [cancels EXCEPT ![x].at = "refund", ![x].gw = g],
             UNCHANGED <<orderVars, gateway, events, seen, calls>>
      PROVE  MoneyOK'
  <2> DEFINE d == [cancels[x] EXCEPT !.at = "refund", !.gw = g]
  <2>1. payments[g].order = cancels[x].order /\ payments[g].status = "CAPTURED"
    BY <1>3 DEF Claimable, Rows
  <2>2. /\ d \in CancelForm /\ d.at = "refund" /\ d.gw = g
        /\ d.order = cancels[x].order /\ d # NoCancel
    BY <1>1 DEF CancelForm, NoCancel
  <2>3. cancels' = [cancels EXCEPT ![x] = d]
    BY <1>3
  <2> HIDE DEF d
  <2>4. /\ cancels'[x] = d
        /\ \A y \in Cancellers \ {x} : cancels'[y] = cancels[y]
        /\ cancels' \in [Cancellers -> CancelForm]
    BY <2>2, <2>3 DEF MoneyTypes, CancelForm
  <2>5. /\ \A h \in GatewayOrders : payments'[h].order = payments[h].order
        /\ \A h \in GatewayOrders \ {g} : payments'[h] = payments[h]
        /\ payments'[g].status = "REFUND_PENDING"
        /\ payments' \in [GatewayOrders ->
             [order : Orders \cup {Nil}, status : RowStatuses, rank : Nat]]
    BY <1>3, SetRowOK DEF RowStatuses
  <2>6. MoneyTypes'
    BY <1>3, <2>4, <2>5 DEF MoneyTypes, CancelForm
  <2>7. LinksHold'
    <3>1. \A h \in GatewayOrders : payments'[h] # NoRow => payments'[h].order \in Orders
      BY <1>1, <2>1, <2>5 DEF LinksHold
    <3>2. \A f \in events : payments'[f.gw].order \in Orders
      BY <2>5 DEF LinksHold, MoneyTypes, Webhooks
    <3>3. \A y \in Cancellers : cancels'[y] # NoCancel =>
            /\ cancels'[y].order \in Orders
            /\ cancels'[y].at # "claim" =>
                 /\ cancels'[y].gw \in GatewayOrders
                 /\ payments'[cancels'[y].gw].order = cancels'[y].order
      BY <1>1, <2>1, <2>2, <2>4, <2>5 DEF LinksHold
    <3>4. QED
      BY <1>3, <3>1, <3>2, <3>3 DEF LinksHold
  <2>8. OneCapture' /\ CaptureSeen(g)
    BY <1>3, <2>1 DEF OneCapture, RowsSettled
  <2>9. RowsSettled'
    BY <1>3, <2>5, <2>8 DEF RowsSettled, CaptureSeen
  <2>10. ClaimsExclude'
    <3>1. \A y \in Cancellers \ {x} : cancels[y].at \in {"refund", "revert"} =>
            cancels[y].gw # g /\ cancels[y].gw \in GatewayOrders
      BY <2>1 DEF ClaimsExclude, LinksHold, NoCancel
    <3>2. QED
      BY <1>3, <2>2, <2>4, <2>5, <2>8, <3>1 DEF ClaimsExclude, CaptureSeen
  <2>11. FinalisedAfterRefund'
    BY <1>3, <2>2, <2>4 DEF FinalisedAfterRefund
  <2>12. QED
    BY <2>6, <2>7, <2>8, <2>9, <2>10, <2>11
<1>4. QED
  BY <1>2, <1>3 DEF ClaimPayment, Claimable, Rows

\* A request that ends and sets the status of its row: the claim given back,
\* or the refund recorded.
LEMMA EndKeepsMoney ==
  ASSUME MoneyOK, NEW x \in Cancellers, NEW s \in {"CAPTURED", "REFUNDED"},
         s = "CAPTURED" => cancels[x].at = "revert",
         cancels[x].at \in {"revert", "finalise"},
         payments[cancels[x].gw].status = "REFUND_PENDING",
         SetRow(cancels[x].gw, s),
         cancels' = [cancels EXCEPT ![x] = NoCancel],
         UNCHANGED <<gateway, events, seen, calls>>
  PROVE  MoneyOK'
<1> USE PaymentConstants DEF MoneyOK
<1> DEFINE g == cancels[x].gw
<1>1. g \in GatewayOrders /\ payments[g].order \in Orders
  BY DEF LinksHold, NoCancel
<1>2. /\ \A h \in GatewayOrders : payments'[h].order = payments[h].order
      /\ \A h \in GatewayOrders \ {g} : payments'[h] = payments[h]
      /\ payments'[g].status = s
      /\ payments' \in [GatewayOrders ->
           [order : Orders \cup {Nil}, status : RowStatuses, rank : Nat]]
  BY <1>1, SetRowOK DEF RowStatuses
<1>3. /\ cancels'[x] = NoCancel
      /\ \A y \in Cancellers \ {x} : cancels'[y] = cancels[y]
      /\ cancels' \in [Cancellers -> CancelForm]
  BY DEF MoneyTypes, CancelForm, NoCancel
<1>4. MoneyTypes'
  BY <1>2, <1>3 DEF MoneyTypes, CancelForm
<1>5. LinksHold'
  <2>1. \A h \in GatewayOrders : payments'[h] # NoRow => payments'[h].order \in Orders
    BY <1>1, <1>2 DEF LinksHold
  <2>2. \A f \in events : payments'[f.gw].order \in Orders
    BY <1>2 DEF LinksHold, MoneyTypes, Webhooks
  <2>3. QED
    BY <1>2, <1>3, <2>1, <2>2 DEF LinksHold
<1>6. OneCapture'
  BY DEF OneCapture
<1>7. RowsSettled'
  BY <1>1, <1>2 DEF RowsSettled, CaptureSeen
<1>8. ClaimsExclude'
  <2>1. \A y \in Cancellers \ {x} : cancels[y].at \in {"refund", "revert"} =>
          /\ cancels[y].gw \in GatewayOrders
          /\ s = "CAPTURED" => cancels[y].gw # g
    BY DEF ClaimsExclude, LinksHold, NoCancel
  <2>2. cancels'[x].at = "idle"
    BY <1>3 DEF NoCancel
  <2>3. QED
    BY <1>2, <1>3, <2>1, <2>2 DEF ClaimsExclude, CaptureSeen
<1>9. FinalisedAfterRefund'
  BY <1>3 DEF FinalisedAfterRefund, NoCancel
<1>10. QED
  BY <1>4, <1>5, <1>6, <1>7, <1>8, <1>9

\* Every step of the whole keeps the invariant of money.
LEMMA MoneyInvariant ==
  ASSUME MoneyOK, IInv, [PaymentNext]_shopVars
  PROVE  MoneyOK'
<1>1. CASE UNCHANGED paymentVars
  BY <1>1, MoneyKept
<1>2. ASSUME NEW g \in GatewayOrders, NEW kind \in {"captured", "failed"},
             TryToPay(g, kind)
      PROVE  MoneyOK'
  BY <1>2, TryKeepsMoney DEF IInv, TypeOK
<1>3. ASSUME NEW x \in Cancellers, CancelStep(x)
      PROVE  MoneyOK'
  <2>1. CASE RevertClaim(x)
    <3>1. CASE payments[cancels[x].gw].status = "REFUND_PENDING"
      BY <2>1, <3>1, EndKeepsMoney DEF RevertClaim
    <3>2. CASE payments[cancels[x].gw].status # "REFUND_PENDING"
      <4>1. NoCancel \in CancelForm /\ NoCancel.at = "idle"
        BY DEF CancelForm, NoCancel
      <4>2. QED
        BY <2>1, <3>2, <4>1, CancelMoves DEF RevertClaim
    <3>3. QED
      BY <3>1, <3>2
  <2>2. CASE FinaliseCancel(x)
    BY <2>2, EndKeepsMoney DEF FinaliseCancel
  <2>3. QED
    BY <1>3, <2>1, <2>2, BeginKeepsMoney, ClaimKeepsMoney, GrantKeepsMoney,
       RefusalKeepsMoney, DropKeepsMoney DEF CancelStep
<1>4. QED
  BY <1>1, <1>2, <1>3, CallKeepsMoney, WebhookKeepsMoney
     DEF PaymentNext, RetryPayment, shopVars

-----------------------------------------------------------------------------
(* Orders and money together.                                              *)

\* Only the payment service makes an order PAID or REFUNDED
\* (order.service.ts:47-123, 142-193, 249-264).
LEMMA ShopPaysNothing ==
  ASSUME IInv, ShopStep, NEW o \in Orders,
         orders'[o].paymentStatus \in {"PAID", "REFUNDED"}
  PROVE  orders[o].paymentStatus = orders'[o].paymentStatus
<1>1. orders \in [Orders -> OrderDocs]
  BY DEF IInv, TypeOK
<1>2. ASSUME NEW q \in Orders, MarkPaymentFailed(q)
      PROVE  orders[o].paymentStatus = orders'[o].paymentStatus
  BY <1>1, <1>2 DEF MarkPaymentFailed, OrderDocs
<1>3. ASSUME NEW c \in Clients, NEW q \in Orders, CommitCheckout(c, q)
      PROVE  orders[o].paymentStatus = orders'[o].paymentStatus
  BY <1>1, <1>3 DEF CommitCheckout, OrderDocs
<1>4. ASSUME NEW a \in Admins, SaveOrder(a)
      PROVE  orders[o].paymentStatus = orders'[o].paymentStatus
  BY <1>1, <1>4 DEF SaveOrder, OrderDocs
<1>5. CASE UNCHANGED orders
  BY <1>5
<1>6. QED
  BY <1>2, <1>3, <1>4, <1>5
     DEF ShopStep, Tick, EditCart, CheckoutStep, LookupCheckout, DropCheckout,
         SweepStep, SweepFind, SweepExpire, SweepStop, AdminStep, LoadForStatus,
         LoadForShipping, LoadOrder, DropRequest

\* No step forgets which order a payment is for, what was handled, or a refund.
LEMMA RecordsStay ==
  ASSUME MoneyOK, [PaymentNext]_shopVars
  PROVE  /\ \A g \in GatewayOrders :
              /\ payments[g].order \in Orders =>
                   payments'[g].order = payments[g].order
              /\ gateway[g].refunded => gateway'[g].refunded
         /\ seen \subseteq seen'
<1> USE DEF MoneyOK
<1>1. ASSUME NEW c \in Callers, NEW g \in GatewayOrders, InsertPayment(c, g)
      PROVE  \A h \in GatewayOrders : payments[h].order \in Orders =>
               payments'[h].order = payments[h].order
  BY <1>1, PaymentConstants DEF InsertPayment, MoneyTypes, NoRow
<1>2. ASSUME NEW g, NEW s, SetRow(g, s)
      PROVE  \A h \in GatewayOrders : payments'[h].order = payments[h].order
  BY <1>2 DEF SetRow, MoneyTypes
<1>3. ASSUME NEW g \in GatewayOrders, NEW kind \in {"captured", "failed"},
             TryToPay(g, kind)
      PROVE  \A h \in GatewayOrders : gateway[h].refunded => gateway'[h].refunded
  BY <1>3 DEF TryToPay, MoneyTypes
<1>4. ASSUME NEW x \in Cancellers, GrantRefund(x)
      PROVE  \A h \in GatewayOrders : gateway[h].refunded => gateway'[h].refunded
  BY <1>4 DEF GrantRefund, MoneyTypes
<1>5. CASE UNCHANGED paymentVars
  BY <1>5 DEF paymentVars
<1>6. ASSUME NEW c \in Callers, CallStep(c)
      PROVE  /\ UNCHANGED payments \/ \E g \in GatewayOrders : InsertPayment(c, g)
             /\ UNCHANGED <<gateway, seen>>
  BY <1>6 DEF CallStep, ReadOrder, LookupPayment, InsertPayment, DropCall
<1>7. ASSUME NEW e \in events, HandleWebhook(e)
      PROVE  /\ \E s : SetRow(e.gw, s)
             /\ UNCHANGED gateway /\ seen \subseteq seen'
  BY <1>7 DEF HandleWebhook, HandleCaptured, HandleFailed
<1>8. ASSUME NEW x \in Cancellers, CancelStep(x)
      PROVE  /\ UNCHANGED payments \/ \E g, s : SetRow(g, s)
             /\ UNCHANGED gateway \/ GrantRefund(x)
             /\ UNCHANGED seen
  BY <1>8 DEF CancelStep, BeginCancel, ClaimPayment, GrantRefund, RefuseRefund,
              RevertClaim, FinaliseCancel, DropCancel
<1>9. QED
  <2>1. CASE \E c \in Callers : CallStep(c)
    BY <1>1, <1>6, <2>1
  <2>2. CASE \E g \in GatewayOrders, kind \in {"captured", "failed"} : TryToPay(g, kind)
    BY <1>3, <2>2 DEF TryToPay
  <2>3. CASE \E e \in events : HandleWebhook(e)
    BY <1>2, <1>7, <2>3
  <2>4. CASE \E x \in Cancellers : CancelStep(x)
    BY <1>2, <1>4, <1>8, <2>4
  <2>5. QED
    BY <1>5, <2>1, <2>2, <2>3, <2>4 DEF PaymentNext, RetryPayment, shopVars

\* An order becomes PAID with the capture just handled, and REFUNDED, as its
\* row does, with a refund that was granted.
LEMMA MoneyMatches ==
  ASSUME IInv, MoneyOK, [PaymentNext]_shopVars
  PROVE  /\ \A o \in Orders : orders'[o].paymentStatus = "PAID" =>
              \/ orders[o].paymentStatus = "PAID"
              \/ \E e \in seen' : e.kind = "captured" /\ e.gw \in Rows(o)
         /\ \A o \in Orders : orders'[o].paymentStatus = "REFUNDED" =>
              \/ orders[o].paymentStatus = "REFUNDED"
              \/ /\ orders[o].paymentStatus = "PAID"
                 /\ \E g \in Rows(o) : gateway[g].refunded
         /\ \A g \in GatewayOrders : payments'[g].status = "REFUNDED" =>
              \/ payments[g].status = "REFUNDED"
              \/ /\ gateway[g].refunded
                 /\ payments[g].order \in Orders
                 /\ orders'[payments[g].order].paymentStatus = "REFUNDED"
<1> DEFINE Paid == \A o \in Orders : orders'[o].paymentStatus = "PAID" =>
              \/ orders[o].paymentStatus = "PAID"
              \/ \E e \in seen' : e.kind = "captured" /\ e.gw \in Rows(o)
           Refunded == \A o \in Orders : orders'[o].paymentStatus = "REFUNDED" =>
              \/ orders[o].paymentStatus = "REFUNDED"
              \/ /\ orders[o].paymentStatus = "PAID"
                 /\ \E g \in Rows(o) : gateway[g].refunded
           RowsRefunded ==
             \A g \in GatewayOrders : payments'[g].status = "REFUNDED" =>
              \/ payments[g].status = "REFUNDED"
              \/ /\ gateway[g].refunded
                 /\ payments[g].order \in Orders
                 /\ orders'[payments[g].order].paymentStatus = "REFUNDED"
<1>1. orders \in [Orders -> OrderDocs] /\ MoneyTypes
  BY DEF IInv, TypeOK, MoneyOK
<1>2. CASE ShopStep /\ UNCHANGED paymentVars
  BY <1>2, ShopPaysNothing DEF paymentVars
<1>3. CASE UNCHANGED shopVars
  BY <1>3 DEF shopVars, orderVars, paymentVars
<1>4. ASSUME NEW c \in Callers, CallStep(c)
      PROVE  Paid /\ Refunded /\ RowsRefunded
  <2>1. UNCHANGED orders
    BY <1>4 DEF CallStep, ReadOrder, LookupPayment, InsertPayment, DropCall, orderVars
  <2>2. RowsRefunded
    <3>1. CASE UNCHANGED payments
      BY <3>1
    <3>2. ASSUME NEW g \in GatewayOrders, InsertPayment(c, g)
          PROVE  RowsRefunded
      <4>1. /\ payments'[g].status = "CREATED"
            /\ \A h \in GatewayOrders \ {g} : payments'[h] = payments[h]
        BY <1>1, <3>2 DEF InsertPayment, MoneyTypes
      <4>2. QED
        BY <4>1
    <3>3. QED
      BY <1>4, <3>1, <3>2 DEF CallStep, ReadOrder, LookupPayment, DropCall
  <2>3. QED
    BY <2>1, <2>2
<1>5. ASSUME NEW o \in Orders, RetryPayment(o)
      PROVE  Paid /\ Refunded /\ RowsRefunded
  BY <1>1, <1>5 DEF RetryPayment, RetryOrder, OrderDocs, paymentVars
<1>6. ASSUME NEW g \in GatewayOrders, NEW kind \in {"captured", "failed"},
             TryToPay(g, kind)
      PROVE  Paid /\ Refunded /\ RowsRefunded
  BY <1>6 DEF TryToPay, orderVars
<1>7. ASSUME NEW e \in events, HandleWebhook(e)
      PROVE  Paid /\ Refunded /\ RowsRefunded
  <2> DEFINE q == payments[e.gw].order
  <2>1. q \in Orders /\ e.gw \in GatewayOrders /\ e \in seen'
    BY <1>1, <1>7 DEF MoneyOK, LinksHold, MoneyTypes, Webhooks, HandleWebhook
  <2>2. RowsRefunded
    <3>1. PICK s \in {"CAPTURED", "FAILED"} : SetRow(e.gw, s)
      BY <1>7 DEF HandleWebhook, HandleCaptured, HandleFailed
    <3>2. /\ payments'[e.gw].status = s
          /\ \A h \in GatewayOrders \ {e.gw} : payments'[h] = payments[h]
      BY <1>1, <2>1, <3>1, SetRowOK DEF RowStatuses
    <3>3. QED
      BY <3>2
  <2>3. CASE UNCHANGED orders
    BY <2>2, <2>3
  <2>4. CASE MarkPaid(q) /\ e.kind = "captured"
    <3>1. orders'[q].paymentStatus = "PAID"
          /\ \A o \in Orders \ {q} : orders'[o] = orders[o]
      BY <1>1, <2>1, <2>4 DEF MarkPaid, OrderDocs
    <3>2. e.gw \in Rows(q)
      BY <2>1 DEF Rows
    <3>3. QED
      BY <2>1, <2>2, <2>4, <3>1, <3>2
  <2>5. CASE MarkPaymentFailed(q)
    <3>1. orders'[q].paymentStatus = "FAILED"
          /\ \A o \in Orders \ {q} : orders'[o] = orders[o]
      BY <1>1, <2>1, <2>5 DEF MarkPaymentFailed, OrderDocs
    <3>2. QED
      BY <2>2, <3>1
  <2>6. QED
    BY <1>7, <2>3, <2>4, <2>5
       DEF HandleWebhook, HandleCaptured, HandleFailed, PaidAndCartCleared, orderVars
<1>8. ASSUME NEW x \in Cancellers, CancelStep(x)
      PROVE  Paid /\ Refunded /\ RowsRefunded
  <2>1. CASE FinaliseCancel(x)
    <3> DEFINE q == cancels[x].order
               g == cancels[x].gw
    <3>1. /\ q \in Orders /\ g \in GatewayOrders
          /\ payments[g].order = q /\ gateway[g].refunded
      BY <2>1 DEF FinaliseCancel, MoneyOK, LinksHold, NoCancel, FinalisedAfterRefund
    <3>2. /\ CancelPaid(q) /\ SetRow(g, "REFUNDED")
      BY <2>1 DEF FinaliseCancel
    <3>3. /\ orders[q].paymentStatus = "PAID"
          /\ orders'[q].paymentStatus = "REFUNDED"
          /\ \A o \in Orders \ {q} : orders'[o] = orders[o]
      BY <1>1, <3>1, <3>2 DEF CancelPaid, Cancellable, OrderDocs
    <3>4. \A h \in GatewayOrders \ {g} : payments'[h] = payments[h]
      BY <1>1, <3>2 DEF SetRow, MoneyTypes
    <3>5. QED
      BY <3>1, <3>3, <3>4 DEF Rows
  <2>2. CASE ~FinaliseCancel(x)
    <3>1. UNCHANGED orders
      BY <1>8, <2>2
         DEF CancelStep, BeginCancel, ClaimPayment, GrantRefund, RefuseRefund,
             RevertClaim, DropCancel, orderVars
    <3>2. RowsRefunded
      BY <1>1, <1>8, <2>2
         DEF CancelStep, BeginCancel, ClaimPayment, GrantRefund, RefuseRefund,
             RevertClaim, DropCancel, SetRow, MoneyTypes
    <3>3. QED
      BY <3>1, <3>2
  <2>3. QED
    BY <2>1, <2>2
<1>9. QED
  BY <1>2, <1>3, <1>4, <1>5, <1>6, <1>7, <1>8 DEF PaymentNext

\* Every step of the whole keeps the whole invariant.
LEMMA WholeInvariant ==
  ASSUME PInv, [PaymentNext]_shopVars
  PROVE  PInv'
<1> USE DEF PInv
<1>1. IInv' /\ PaidStays
  BY StepIsOrderStep, StepInvariant
<1>2. MoneyOK'
  BY MoneyInvariant
<1>3. \A o \in Orders : Rows(o) \subseteq Rows(o)'
  BY RecordsStay DEF Rows
<1>4. \A o \in Orders : orders'[o].paymentStatus = "REFUNDED" =>
        orders[o].paymentStatus \in {"PAID", "REFUNDED"}
  BY MoneyMatches
<1>5. PaidOnlyByCapture'
  BY <1>3, <1>4, MoneyMatches, RecordsStay DEF PaidOnlyByCapture
<1>6. RefundBeforeCancel'
  <2>1. \A o \in Orders : orders'[o].paymentStatus = "REFUNDED" =>
          \E g \in Rows(o)' : gateway'[g].refunded
    BY <1>3, MoneyMatches, RecordsStay DEF RefundBeforeCancel, Rows
  <2>2. ASSUME NEW g \in GatewayOrders, payments'[g].status = "REFUNDED"
        PROVE  gateway'[g].refunded
                 /\ orders'[payments'[g].order].paymentStatus = "REFUNDED"
    <3>1. payments[g].status = "REFUNDED" => payments[g].order \in Orders
      BY DEF MoneyOK, LinksHold, NoRow
    <3>2. QED
      BY <1>1, <2>2, <3>1, MoneyMatches, RecordsStay DEF RefundBeforeCancel, PaidStays
  <2>3. QED
    BY <2>1, <2>2 DEF RefundBeforeCancel
<1>7. QED
  BY <1>1, <1>2, <1>5, <1>6

-----------------------------------------------------------------------------
(* The theorems.                                                           *)

\* The invariant holds of every behaviour of the whole.
LEMMA AlwaysWhole == PaymentSpec => []PInv
<1>1. PInv /\ [PaymentNext]_shopVars => PInv'
  BY WholeInvariant
<1>2. QED
  BY <1>1, PaymentInitInvariant, PTL DEF PaymentSpec

\* Rows, webhooks and requests in progress keep their forms, and orders and
\* stock keep theirs: no webhook or cancellation makes stock negative.
THEOREM PaymentTypeCorrect == PaymentSpec => []PaymentTypeOK
<1>1. PInv => PaymentTypeOK
  BY DEF PInv, IInv, MoneyOK, PaymentTypeOK
<1>2. QED
  BY <1>1, AlwaysWhole, PTL

\* Whatever webhooks, customers and cancellations do, the order service sees
\* a behaviour of module Order (payment.service.ts:30-310).
THEOREM PaymentImplementsOrder == PaymentSpec => ImplementsOrder
<1>1. PaymentInit => OrderInit
  BY DEF PaymentInit
<1>2. PInv /\ [PaymentNext]_shopVars => [OrderNext]_orderVars
  BY StepIsOrderStep DEF PInv
<1>3. QED
  BY <1>1, <1>2, AlwaysWhole, PTL DEF PaymentSpec, ImplementsOrder, OrderSpec

\* "Only a verified payment.captured webhook changes the order to PAID"
\* (README.md:34).
THEOREM PaidMeansCaptured == PaymentSpec => []PaidOnlyByCapture
BY AlwaysWhole, PTL DEF PInv

\* An order and its row count as refunded only when the gateway gave the money
\* back (payment.service.ts:117-181).
THEOREM RefundedBeforeCancelled == PaymentSpec => []RefundBeforeCancel
BY AlwaysWhole, PTL DEF PInv

\* Concurrent cancel requests never ask for one refund twice, however often
\* webhooks are delivered (payment.service.ts:117-142).
THEOREM OneRefundAtATime == PaymentSpec => []SingleRefundInFlight
<1>1. PInv => SingleRefundInFlight
  BY DEF PInv, MoneyOK, ClaimsExclude, SingleRefundInFlight
<1>2. QED
  BY <1>1, AlwaysWhole, PTL

\* A failure of an attempt that was replaced by a newer one leaves its order
\* alone (payment.service.ts:279-292).
THEOREM OldFailuresIgnored == PaymentSpec => SupersededFailureIgnored
<1>1. PInv /\ [PaymentNext]_shopVars =>
        [\A e \in seen' \ seen :
           LET o == payments[e.gw].order
           IN  (e.kind = "failed"
                  /\ \E h \in Rows(o) : payments[h].rank > payments[e.gw].rank)
                 => orders'[o] = orders[o]]_shopVars
  <2> SUFFICES ASSUME PInv, PaymentNext, NEW e \in seen' \ seen, e.kind = "failed",
                      NEW h \in Rows(payments[e.gw].order),
                      payments[h].rank > payments[e.gw].rank
               PROVE  orders' = orders
    BY DEF shopVars, paymentVars
  <2>1. MoneyTypes
    BY DEF PInv, MoneyOK
  <2>2. PICK f \in events : HandleWebhook(f)
    BY DEF PaymentNext, ShopStep, CallStep, ReadOrder, LookupPayment,
           InsertPayment, DropCall, RetryPayment, TryToPay, CancelStep,
           BeginCancel, ClaimPayment, GrantRefund, RefuseRefund, RevertClaim,
           FinaliseCancel, DropCancel, paymentVars
  <2>3. f = e
    BY <2>2 DEF HandleWebhook
  <2>4. ~IsCurrentPaymentAttempt(e.gw)
    <3>1. payments[h].rank \in Nat /\ payments[e.gw].rank \in Nat
      BY <2>1, <2>2, <2>3 DEF MoneyTypes, Webhooks, Rows
    <3>2. QED
      BY <3>1 DEF IsCurrentPaymentAttempt, Latest
  <2>5. QED
    BY <2>2, <2>3, <2>4 DEF HandleWebhook, HandleFailed, orderVars
<1>2. QED
  BY <1>1, AlwaysWhole, PTL DEF PaymentSpec, SupersededFailureIgnored

\* The stock of the whole shop is conserved: the refinements compose.
THEOREM ShopConservesStock == PaymentSpec => []StockConserved
BY PaymentImplementsOrder, OrderConservesStock, PTL DEF ImplementsOrder

\* Nor do payments, retries and refunds hold more units than there were
\* (product.service.ts:16-20).
THEOREM ShopNeverOversells == PaymentSpec => []Inv!NoOversell
BY PaymentImplementsOrder, OrderNeverOversells, PTL DEF ImplementsOrder
=============================================================================
