---------------------------- MODULE OrderProofs ----------------------------
(* Order for any number of orders, users, products, replicas and requests:  *)
(* its types, its invariants, and that it implements Inventory.             *)
EXTENDS Order, TLAPS

\* The proved properties of Inventory, read through Order's refinement mapping.
InvProved == INSTANCE InventoryProofs WITH held <- Held

\* The invariant that is preserved by every step.
IInv == TypeOK /\ FulfilledOnlyIfPaid /\ Settled /\ SweepsStarted

\* What the proofs use of the constants (PAYMENT_HOLD_MS, order.service.ts:12,
\* and the bounds of the model).
LEMMA ConstantTypes ==
  /\ NoItems \in Bags
  /\ Nil \notin Orders /\ Nil \notin Users /\ Nil \notin Keys
  /\ Hold \in Nat /\ MaxTime \in Nat /\ MaxQty \in Nat
  /\ InitialStock \in [Products -> Nat]
  /\ Fulfilment \subseteq Statuses
BY OrderAssumption DEF NoItems, Bags, Fulfilment, Statuses

\* At start there are no orders, requests or sweeps, and nothing is wrong.
LEMMA InitInvariant == OrderInit => IInv
<1> SUFFICES ASSUME OrderInit
             PROVE  IInv
  OBVIOUS
<1> USE ConstantTypes
<1>1. NoOrder \in OrderDocs
  BY DEF NoOrder, OrderDocs, Statuses, PaymentStatuses, NoExpiry
<1>2. TypeOK
  BY <1>1 DEF OrderInit, TypeOK, Idle, NoSweep, NoRequest, Statuses
<1>3. FulfilledOnlyIfPaid
  BY DEF OrderInit, FulfilledOnlyIfPaid, NoOrder, Fulfilment
<1>4. Settled
  BY DEF OrderInit, Settled, NoOrder
<1>5. SweepsStarted
  BY DEF OrderInit, SweepsStarted, NoSweep
<1>6. QED
  BY <1>2, <1>3, <1>4, <1>5 DEF IInv

-----------------------------------------------------------------------------
(* What the conditional updates of one order do to the orders and stock.   *)

\* The part of the invariant that speaks of orders and stock only.
OrdersOK ==
  /\ orders \in [Orders -> OrderDocs]
  /\ stock \in [Products -> Nat]
  /\ FulfilledOnlyIfPaid
  /\ \A o \in Orders :
       /\ orders[o].status = "NONE" <=> orders[o].paymentStatus = "NONE"
       /\ orders[o].status = "PENDING" <=> orders[o].paymentStatus = "PENDING"
       /\ orders[o].paymentStatus = "FAILED" => orders[o].status = "CANCELLED"
       /\ orders[o].status # "NONE" =>
            orders[o].items # NoItems /\ orders[o].user \in Users

\* A paid order is left paid or refunded, a refunded one refunded.
PaidStays ==
  \A o \in Orders :
    /\ orders[o].paymentStatus = "PAID" =>
         orders'[o].paymentStatus \in {"PAID", "REFUNDED"}
    /\ orders[o].paymentStatus = "REFUNDED" =>
         orders'[o].paymentStatus = "REFUNDED"

\* markPaid keeps the orders in order (order.service.ts:195-209).
LEMMA MarkPaidOK ==
  ASSUME OrdersOK, NEW o \in Orders, MarkPaid(o)
  PROVE  OrdersOK' /\ PaidStays
<1> DEFINE d == [orders[o] EXCEPT !.status = "PAID", !.paymentStatus = "PAID",
                                  !.expiresAt = NoExpiry]
<1>1. orders' = [orders EXCEPT ![o] = d] /\ stock' = stock
  BY DEF MarkPaid, ConfirmReservedStock, OrdersOK, OrderDocs
<1>2. orders[o].status = "PENDING"
  BY DEF MarkPaid, Payable, Awaiting
<1>3. d \in OrderDocs
  BY DEF OrdersOK, OrderDocs, Statuses, PaymentStatuses, Fulfilment, NoExpiry
<1>4. QED
  BY <1>1, <1>2, <1>3
     DEF OrdersOK, PaidStays, FulfilledOnlyIfPaid, Fulfilment, OrderDocs

\* Giving an order's items back leaves numbers of units (product.service.ts:37-43).
LEMMA ReleaseStockOK ==
  ASSUME OrdersOK, NEW o \in Orders, ReleaseStock(o)
  PROVE  stock' \in [Products -> Nat]
<1>1. \A p \in Products : stock[p] + orders[o].items[p] \in Nat
  BY ConstantTypes DEF OrdersOK, OrderDocs, Bags
<1>2. QED
  BY <1>1 DEF ReleaseStock

\* Taking items leaves numbers of units (product.service.ts:21-27).
LEMMA ReserveStockOK ==
  ASSUME stock \in [Products -> Nat], NEW items \in Bags, ReserveStock(items)
  PROVE  stock' \in [Products -> Nat]
<1>1. \A p \in Products : stock[p] - items[p] \in Nat
  BY ConstantTypes DEF ReserveStock, Bags
<1>2. QED
  BY <1>1 DEF ReserveStock

\* markPaymentFailed keeps the orders in order (order.service.ts:211-222).
LEMMA MarkPaymentFailedOK ==
  ASSUME OrdersOK, NEW o \in Orders, MarkPaymentFailed(o)
  PROVE  OrdersOK' /\ PaidStays
<1> DEFINE d == [orders[o] EXCEPT !.status = "CANCELLED",
                                  !.paymentStatus = "FAILED",
                                  !.expiresAt = NoExpiry]
<1>1. orders' = [orders EXCEPT ![o] = d]
  BY DEF MarkPaymentFailed, OrdersOK, OrderDocs
<1>2. orders[o].status = "PENDING" /\ orders[o].paymentStatus = "PENDING"
  BY DEF MarkPaymentFailed, Awaiting
<1>3. d \in OrderDocs
  BY DEF OrdersOK, OrderDocs, Statuses, PaymentStatuses, Fulfilment, NoExpiry
<1>4. stock' \in [Products -> Nat]
  BY ReleaseStockOK DEF MarkPaymentFailed
<1>5. QED
  BY <1>1, <1>2, <1>3, <1>4
     DEF OrdersOK, PaidStays, FulfilledOnlyIfPaid, Fulfilment, OrderDocs

\* cancelOrder's transaction keeps the orders in order
\* (payment.service.ts:156-174).
LEMMA CancelPaidOK ==
  ASSUME OrdersOK, NEW o \in Orders, CancelPaid(o)
  PROVE  OrdersOK' /\ PaidStays
<1> DEFINE d == [orders[o] EXCEPT !.status = "CANCELLED",
                                  !.paymentStatus = "REFUNDED"]
<1>1. orders' = [orders EXCEPT ![o] = d]
  BY DEF CancelPaid, OrdersOK, OrderDocs
<1>2. orders[o].status # "NONE" /\ orders[o].paymentStatus = "PAID"
  BY DEF CancelPaid, Cancellable
<1>3. d \in OrderDocs
  BY DEF OrdersOK, OrderDocs, Statuses, PaymentStatuses, Fulfilment
<1>4. stock' \in [Products -> Nat]
  BY ReleaseStockOK DEF CancelPaid
<1>5. QED
  BY <1>1, <1>2, <1>3, <1>4
     DEF OrdersOK, PaidStays, FulfilledOnlyIfPaid, Fulfilment, OrderDocs

\* retryPayment keeps the orders in order (order.service.ts:228-247).
LEMMA RetryOrderOK ==
  ASSUME OrdersOK, clock \in Nat, NEW o \in Orders, RetryOrder(o)
  PROVE  OrdersOK' /\ PaidStays
<1> DEFINE d == [orders[o] EXCEPT !.status = "PENDING",
                                  !.paymentStatus = "PENDING",
                                  !.expiresAt = clock + Hold]
<1>1. orders' = [orders EXCEPT ![o] = d]
  BY DEF RetryOrder, OrdersOK, OrderDocs
<1>2. orders[o].status = "CANCELLED" /\ orders[o].paymentStatus = "FAILED"
  BY DEF RetryOrder
<1>3. d \in OrderDocs
  <2>1. clock + Hold \in Nat
    BY ConstantTypes
  <2>2. QED
    BY <2>1 DEF OrdersOK, OrderDocs, Statuses, PaymentStatuses
<1>4. stock' \in [Products -> Nat]
  BY ReserveStockOK DEF RetryOrder, OrdersOK, OrderDocs
<1>5. QED
  BY <1>1, <1>2, <1>3, <1>4
     DEF OrdersOK, PaidStays, FulfilledOnlyIfPaid, Fulfilment, OrderDocs

-----------------------------------------------------------------------------
(* The invariant, taken apart and put together again.                      *)

\* The part of the invariant that speaks of the requests in progress.
RequestsOK ==
  /\ cart \in [Users -> Bags]
  /\ clock \in 0..MaxTime
  /\ checkouts \in [Clients -> [user : Users \cup {Nil}, key : Keys \cup {Nil}]]
  /\ sweeps \in [Workers -> [now : 0..MaxTime, todo : SUBSET Orders]]
  /\ SweepsStarted

\* An admin's request in progress is about an order that was paid for.
AdminsOK ==
  /\ admins \in [Admins -> [order : Orders \cup {Nil}, target : Statuses]]
  /\ \A a \in Admins : admins[a] # NoRequest =>
       /\ admins[a].order \in Orders
       /\ admins[a].target \in Fulfilment
       /\ orders[admins[a].order].paymentStatus \in {"PAID", "REFUNDED"}

\* The invariant is these three parts (order.service.ts:47-264).
LEMMA Parts ==
  /\ IInv => OrdersOK /\ RequestsOK /\ AdminsOK
  /\ OrdersOK' /\ RequestsOK' /\ AdminsOK' => IInv'
BY DEF IInv, TypeOK, Settled, OrdersOK, RequestsOK, AdminsOK

\* A step that leaves requests of admins alone and takes no payment back
\* leaves them about paid orders (order.service.ts:142-193).
LEMMA AdminsKept ==
  ASSUME AdminsOK, PaidStays, UNCHANGED admins
  PROVE  AdminsOK'
BY DEF AdminsOK, PaidStays

\* A step that touches neither orders nor stock leaves them in order.
LEMMA OrdersKept ==
  ASSUME OrdersOK, UNCHANGED <<orders, stock>>
  PROVE  OrdersOK' /\ PaidStays
BY DEF OrdersOK, PaidStays, FulfilledOnlyIfPaid

-----------------------------------------------------------------------------
(* The invariant holds after every step, action by action.                 *)

\* createFromCart (order.service.ts:47-123).
LEMMA CheckoutInvariant ==
  ASSUME IInv, NEW c \in Clients, CheckoutStep(c)
  PROVE  IInv' /\ PaidStays
<1>1. OrdersOK /\ RequestsOK /\ AdminsOK
  BY Parts
<1>2. ASSUME NEW u \in Users, NEW k \in Keys \cup {Nil}, LookupCheckout(c, u, k)
      PROVE  IInv' /\ PaidStays
  <2>1. OrdersOK' /\ PaidStays
    BY <1>1, <1>2, OrdersKept DEF LookupCheckout
  <2>2. RequestsOK'
    BY <1>1, <1>2 DEF LookupCheckout, RequestsOK, SweepsStarted
  <2>3. AdminsOK'
    BY <1>1, <1>2, <2>1, AdminsKept DEF LookupCheckout
  <2>4. QED
    BY <2>1, <2>2, <2>3, Parts
<1>3. ASSUME NEW o \in Orders, CommitCheckout(c, o)
      PROVE  IInv' /\ PaidStays
  <2> DEFINE u == checkouts[c].user
             k == checkouts[c].key
             d == [status |-> "PENDING", paymentStatus |-> "PENDING", user |-> u,
                   key |-> k, items |-> cart[u], expiresAt |-> clock + Hold]
  <2>1. u \in Users /\ k \in Keys \cup {Nil} /\ cart[u] \in Bags
    BY <1>1, <1>3 DEF CommitCheckout, RequestsOK
  <2>2. clock + Hold \in Nat
    BY <1>1, ConstantTypes DEF RequestsOK
  <2>3. d \in OrderDocs
    BY <2>1, <2>2 DEF OrderDocs, Statuses, PaymentStatuses
  <2>4. orders' = [orders EXCEPT ![o] = d]
    BY <1>3 DEF CommitCheckout
  <2>5. stock' \in [Products -> Nat]
    BY <1>1, <1>3, <2>1, ReserveStockOK DEF CommitCheckout, OrdersOK
  <2>6. orders[o].paymentStatus = "NONE" /\ cart[u] # NoItems
    BY <1>1, <1>3 DEF CommitCheckout, OrdersOK
  <2>7. OrdersOK' /\ PaidStays
    BY <1>1, <2>1, <2>3, <2>4, <2>5, <2>6
       DEF OrdersOK, PaidStays, FulfilledOnlyIfPaid, Fulfilment
  <2>8. RequestsOK'
    BY <1>1, <1>3 DEF CommitCheckout, RequestsOK, Idle, SweepsStarted
  <2>9. AdminsOK'
    BY <1>1, <1>3, <2>7, AdminsKept DEF CommitCheckout
  <2>10. QED
    BY <2>7, <2>8, <2>9, Parts
<1>4. ASSUME DropCheckout(c)
      PROVE  IInv' /\ PaidStays
  <2>1. OrdersOK' /\ PaidStays
    BY <1>1, <1>4, OrdersKept DEF DropCheckout
  <2>2. RequestsOK'
    BY <1>1, <1>4 DEF DropCheckout, RequestsOK, Idle, SweepsStarted
  <2>3. AdminsOK'
    BY <1>1, <1>4, <2>1, AdminsKept DEF DropCheckout
  <2>4. QED
    BY <2>1, <2>2, <2>3, Parts
<1>5. QED
  BY <1>2, <1>3, <1>4 DEF CheckoutStep

\* expirePendingOrders (order.service.ts:249-264).
LEMMA SweepInvariant ==
  ASSUME IInv, NEW w \in Workers, SweepStep(w)
  PROVE  IInv' /\ PaidStays
<1>1. OrdersOK /\ RequestsOK /\ AdminsOK
  BY Parts
<1>2. ASSUME SweepFind(w)
      PROVE  IInv' /\ PaidStays
  <2>1. OrdersOK' /\ PaidStays
    BY <1>1, <1>2, OrdersKept DEF SweepFind
  <2>2. RequestsOK'
    BY <1>1, <1>2, ConstantTypes DEF SweepFind, RequestsOK, SweepsStarted
  <2>3. AdminsOK'
    BY <1>1, <1>2, <2>1, AdminsKept DEF SweepFind
  <2>4. QED
    BY <2>1, <2>2, <2>3, Parts
<1>3. ASSUME NEW o \in Orders, SweepExpire(w, o)
      PROVE  IInv' /\ PaidStays
  <2>1. OrdersOK' /\ PaidStays
    BY <1>1, <1>3, OrdersKept, MarkPaymentFailedOK DEF SweepExpire
  <2>2. RequestsOK'
    BY <1>1, <1>3, ConstantTypes
       DEF SweepExpire, SweepDone, NoSweep, RequestsOK, SweepsStarted
  <2>3. AdminsOK'
    BY <1>1, <1>3, <2>1, AdminsKept DEF SweepExpire
  <2>4. QED
    BY <2>1, <2>2, <2>3, Parts
<1>4. ASSUME SweepStop(w)
      PROVE  IInv' /\ PaidStays
  <2>1. OrdersOK' /\ PaidStays
    BY <1>1, <1>4, OrdersKept DEF SweepStop
  <2>2. RequestsOK'
    BY <1>1, <1>4, ConstantTypes DEF SweepStop, NoSweep, RequestsOK, SweepsStarted
  <2>3. AdminsOK'
    BY <1>1, <1>4, <2>1, AdminsKept DEF SweepStop
  <2>4. QED
    BY <2>1, <2>2, <2>3, Parts
<1>5. QED
  BY <1>2, <1>3, <1>4 DEF SweepStep

\* updateFulfillmentStatus and updateShipping (order.service.ts:142-193).
LEMMA AdminInvariant ==
  ASSUME IInv, NEW a \in Admins, AdminStep(a)
  PROVE  IInv' /\ PaidStays
<1>1. OrdersOK /\ RequestsOK /\ AdminsOK
  BY Parts
<1>2. ASSUME NEW o \in Orders, NEW t \in Statuses, LoadOrder(a, o, t)
      PROVE  IInv' /\ PaidStays
  <2>1. OrdersOK' /\ PaidStays
    BY <1>1, <1>2, OrdersKept DEF LoadOrder
  <2>2. RequestsOK'
    BY <1>1, <1>2 DEF LoadOrder, RequestsOK, SweepsStarted
  <2>3. orders[o].status \in Fulfilment /\ t \in Fulfilment
    BY <1>2 DEF LoadOrder, Allowed, Fulfilment
  <2>4. orders[o].paymentStatus \in {"PAID", "REFUNDED"}
    BY <1>1, <2>3 DEF OrdersOK, FulfilledOnlyIfPaid
  <2>5. AdminsOK'
    BY <1>1, <1>2, <2>3, <2>4 DEF LoadOrder, AdminsOK
  <2>6. QED
    BY <2>1, <2>2, <2>5, Parts
<1>3. ASSUME SaveOrder(a)
      PROVE  IInv' /\ PaidStays
  <2> DEFINE o == admins[a].order
             d == [orders[o] EXCEPT !.status = admins[a].target]
  <2>1. /\ o \in Orders
        /\ admins[a].target \in Fulfilment
        /\ orders[o].paymentStatus \in {"PAID", "REFUNDED"}
    BY <1>1, <1>3 DEF SaveOrder, AdminsOK
  <2>2. orders' = [orders EXCEPT ![o] = d] /\ stock' = stock
    BY <1>3 DEF SaveOrder
  <2>3. d \in OrderDocs
    BY <1>1, <2>1, ConstantTypes DEF OrdersOK, OrderDocs
  <2>4. admins[a].target \notin {"NONE", "PENDING"}
    BY <2>1 DEF Fulfilment
  <2>5. orders[o].status # "NONE"
    BY <1>1, <2>1 DEF OrdersOK
  <2>6. OrdersOK' /\ PaidStays
    BY <1>1, <2>1, <2>2, <2>3, <2>4, <2>5
       DEF OrdersOK, PaidStays, FulfilledOnlyIfPaid, OrderDocs
  <2>7. RequestsOK'
    BY <1>1, <1>3 DEF SaveOrder, RequestsOK, SweepsStarted
  <2>8. AdminsOK'
    BY <1>1, <1>3, <2>6 DEF SaveOrder, AdminsOK, PaidStays, NoRequest, Statuses
  <2>9. QED
    BY <2>6, <2>7, <2>8, Parts
<1>4. ASSUME DropRequest(a)
      PROVE  IInv' /\ PaidStays
  <2>1. OrdersOK' /\ PaidStays
    BY <1>1, <1>4, OrdersKept DEF DropRequest
  <2>2. RequestsOK'
    BY <1>1, <1>4 DEF DropRequest, RequestsOK, SweepsStarted
  <2>3. AdminsOK'
    BY <1>1, <1>4 DEF DropRequest, AdminsOK, NoRequest, Statuses
  <2>4. QED
    BY <2>1, <2>2, <2>3, Parts
<1>5. QED
  BY <1>2, <1>3, <1>4 DEF AdminStep, LoadForStatus, LoadForShipping

\* What webhooks, cancellations and retries do to an order
\* (payment.service.ts:113-180, 215-299).
LEMMA PaymentInvariant ==
  ASSUME IInv, NEW o \in Orders, PaymentStep(o)
  PROVE  IInv' /\ PaidStays
<1>1. OrdersOK /\ RequestsOK /\ AdminsOK
  BY Parts
<1>2. OrdersOK' /\ PaidStays
  <2>1. clock \in Nat
    BY <1>1, ConstantTypes DEF RequestsOK
  <2>2. QED
    BY <1>1, <2>1, MarkPaidOK, MarkPaymentFailedOK, CancelPaidOK, RetryOrderOK
       DEF PaymentStep, PaidAndCartCleared
<1>3. UNCHANGED <<clock, checkouts, sweeps, admins>>
  BY DEF PaymentStep, PaidAndCartCleared
<1>4. cart' \in [Users -> Bags]
  BY <1>1, ConstantTypes DEF PaymentStep, PaidAndCartCleared, RequestsOK
<1>5. RequestsOK'
  BY <1>1, <1>3, <1>4 DEF RequestsOK, SweepsStarted
<1>6. AdminsOK'
  BY <1>1, <1>2, <1>3, AdminsKept
<1>7. QED
  BY <1>2, <1>5, <1>6, Parts

\* Every step of the order service keeps the invariant, and leaves what is
\* paid or refunded so.
LEMMA StepInvariant ==
  ASSUME IInv, [OrderNext]_orderVars
  PROVE  IInv' /\ PaidStays
<1>1. OrdersOK /\ RequestsOK /\ AdminsOK
  BY Parts
<1>2. CASE Tick
  <2>1. OrdersOK' /\ PaidStays
    BY <1>1, <1>2, OrdersKept DEF Tick
  <2>2. RequestsOK'
    BY <1>1, <1>2, ConstantTypes DEF Tick, RequestsOK, SweepsStarted
  <2>3. AdminsOK'
    BY <1>1, <1>2, <2>1, AdminsKept DEF Tick
  <2>4. QED
    BY <2>1, <2>2, <2>3, Parts
<1>3. ASSUME NEW u \in Users, NEW p \in Products, NEW q \in 0..MaxQty,
             EditCart(u, p, q)
      PROVE  IInv' /\ PaidStays
  <2>1. OrdersOK' /\ PaidStays
    BY <1>1, <1>3, OrdersKept DEF EditCart
  <2>2. cart' \in [Users -> Bags]
    BY <1>1, <1>3 DEF EditCart, RequestsOK, Bags
  <2>3. RequestsOK'
    BY <1>1, <1>3, <2>2 DEF EditCart, RequestsOK, SweepsStarted
  <2>4. AdminsOK'
    BY <1>1, <1>3, <2>1, AdminsKept DEF EditCart
  <2>5. QED
    BY <2>1, <2>3, <2>4, Parts
<1>4. CASE UNCHANGED orderVars
  <2>1. OrdersOK' /\ PaidStays
    BY <1>1, <1>4, OrdersKept DEF orderVars
  <2>2. RequestsOK'
    BY <1>1, <1>4 DEF orderVars, RequestsOK, SweepsStarted
  <2>3. AdminsOK'
    BY <1>1, <1>4, <2>1, AdminsKept DEF orderVars
  <2>4. QED
    BY <2>1, <2>2, <2>3, Parts
<1>5. QED
  BY <1>2, <1>3, <1>4, CheckoutInvariant, SweepInvariant, AdminInvariant,
     PaymentInvariant DEF OrderNext, ShopStep

-----------------------------------------------------------------------------
(* The theorems.                                                           *)

\* The invariant holds of every behaviour of the order service.
LEMMA AlwaysInvariant == OrderSpec => []IInv
<1>1. IInv /\ [OrderNext]_orderVars => IInv'
  BY StepInvariant
<1>2. QED
  BY <1>1, InitInvariant, PTL DEF OrderSpec

\* Stock is never negative, quantities stay within bounds, and every request
\* in progress is one of the forms the handlers give it.
THEOREM OrderTypeCorrect == OrderSpec => []TypeOK
BY AlwaysInvariant, PTL DEF IInv

\* An order being fulfilled was paid for, however late an admin's save lands
\* (order.service.ts:142-193).
THEOREM FulfilmentNeedsPayment == OrderSpec => []FulfilledOnlyIfPaid
BY AlwaysInvariant, PTL DEF IInv

\* A paid order is only ever refunded and a refunded one stays so: no sweep,
\* late failure or retry reopens it (order.service.ts:195-247).
THEOREM PaymentNeverReopens == OrderSpec => PaymentIsFinal
<1>1. IInv /\ [OrderNext]_orderVars =>
        [\A o \in Orders :
           /\ orders[o].paymentStatus = "PAID" =>
                orders'[o].paymentStatus \in {"PAID", "REFUNDED"}
           /\ orders[o].paymentStatus = "REFUNDED" =>
                orders'[o].paymentStatus = "REFUNDED"]_orderVars
  BY StepInvariant DEF PaidStays
<1>2. QED
  BY <1>1, AlwaysInvariant, PTL DEF OrderSpec, PaymentIsFinal

-----------------------------------------------------------------------------
(* Order implements Inventory.                                             *)

\* An order that is not open holds nothing; one that is holds its items
\* (order.service.ts:211-226).
LEMMA HeldOf ==
  /\ \A o \in Orders : Held[o] =
       IF HoldsStock(o) THEN orders[o].items ELSE NoItems
  /\ \A o \in Orders : Held'[o] =
       IF HoldsStock(o)' THEN orders'[o].items ELSE NoItems
BY DEF Held

\* Two tables of holdings that agree on every order are the same.
LEMMA HeldSame ==
  ASSUME \A o \in Orders : Held'[o] = Held[o]
  PROVE  Held' = Held
BY DEF Held

\* Two tables of holdings that differ in one order only.
LEMMA HeldExcept ==
  ASSUME NEW o \in Orders, NEW b,
         Held'[o] = b,
         \A q \in Orders \ {o} : Held'[q] = Held[q]
  PROVE  Held' = [Held EXCEPT ![o] = b]
BY DEF Held

\* A step that creates or reopens order o reserves its items
\* (order.service.ts:80-93, 235-243).
LEMMA ReserveStep ==
  ASSUME IInv, NEW o \in Orders, NEW d \in OrderDocs,
         orders' = [orders EXCEPT ![o] = d],
         ~HoldsStock(o), d.paymentStatus = "PENDING", d.items # NoItems,
         ReserveStock(d.items)
  PROVE  Inv!Reserve(o, d.items) /\ d.items \in Inv!Bags
<1>1. Held[o] = NoItems
  BY HeldOf
<1>2. Held'[o] = d.items
  BY HeldOf DEF HoldsStock, IInv, TypeOK
<1>3. \A q \in Orders \ {o} : Held'[q] = Held[q]
  BY HeldOf DEF HoldsStock, IInv, TypeOK
<1>4. Held' = [Held EXCEPT ![o] = d.items]
  BY <1>2, <1>3, HeldExcept
<1>5. QED
  BY <1>1, <1>4 DEF Inv!Reserve, Inv!NoItems, NoItems, ReserveStock,
                    Inv!Bags, Bags, OrderDocs

\* A step that closes order o gives its items back
\* (order.service.ts:217-226, payment.service.ts:170-173).
LEMMA ReleaseStep ==
  ASSUME IInv, NEW o \in Orders, NEW d \in OrderDocs,
         orders' = [orders EXCEPT ![o] = d],
         HoldsStock(o), d.paymentStatus \in {"FAILED", "REFUNDED"},
         ReleaseStock(o)
  PROVE  Inv!Release(o)
<1>1. Held[o] = orders[o].items
  BY HeldOf
<1>2. orders[o].items # NoItems
  BY DEF IInv, Settled, HoldsStock
<1>3. Held'[o] = NoItems
  BY HeldOf DEF HoldsStock, IInv, TypeOK
<1>4. \A q \in Orders \ {o} : Held'[q] = Held[q]
  BY HeldOf DEF HoldsStock, IInv, TypeOK
<1>5. Held' = [Held EXCEPT ![o] = NoItems]
  BY <1>3, <1>4, HeldExcept
<1>6. QED
  BY <1>1, <1>2, <1>5 DEF Inv!Release, Inv!NoItems, NoItems, ReleaseStock

\* A step that changes no stock and neither opens nor closes an order
\* reserves and releases nothing.
LEMMA StutterStep ==
  ASSUME UNCHANGED stock,
         \A o \in Orders : /\ HoldsStock(o)' <=> HoldsStock(o)
                           /\ orders'[o].items = orders[o].items
  PROVE  UNCHANGED Inv!vars
<1>1. \A o \in Orders : Held'[o] = Held[o]
  BY HeldOf
<1>2. QED
  BY <1>1, HeldSame DEF Inv!vars

\* An order that expires or whose payment fails releases its items, and one
\* that is refunded does (order.service.ts:211-222, payment.service.ts:156-174).
LEMMA CloseStep ==
  ASSUME IInv, NEW o \in Orders, MarkPaymentFailed(o) \/ CancelPaid(o)
  PROVE  Inv!Release(o)
<1>0. orders \in [Orders -> OrderDocs]
  BY DEF IInv, TypeOK
<1>1. CASE MarkPaymentFailed(o)
  <2> DEFINE d == [orders[o] EXCEPT !.status = "CANCELLED",
                                    !.paymentStatus = "FAILED",
                                    !.expiresAt = NoExpiry]
  <2>1. d \in OrderDocs /\ d.paymentStatus = "FAILED"
    BY <1>0 DEF OrderDocs, Statuses, PaymentStatuses, NoExpiry
  <2>2. orders' = [orders EXCEPT ![o] = d] /\ ReleaseStock(o)
    BY <1>0, <1>1 DEF MarkPaymentFailed, OrderDocs
  <2>3. HoldsStock(o)
    BY <1>1 DEF MarkPaymentFailed, Awaiting, HoldsStock
  <2>4. QED
    BY <2>1, <2>2, <2>3, ReleaseStep
<1>2. CASE CancelPaid(o)
  <2> DEFINE d == [orders[o] EXCEPT !.status = "CANCELLED",
                                    !.paymentStatus = "REFUNDED"]
  <2>1. d \in OrderDocs /\ d.paymentStatus = "REFUNDED"
    BY <1>0 DEF OrderDocs, Statuses, PaymentStatuses
  <2>2. orders' = [orders EXCEPT ![o] = d] /\ ReleaseStock(o)
    BY <1>0, <1>2 DEF CancelPaid, OrderDocs
  <2>3. HoldsStock(o)
    BY <1>2 DEF CancelPaid, Cancellable, HoldsStock
  <2>4. QED
    BY <2>1, <2>2, <2>3, ReleaseStep
<1>3. QED
  BY <1>1, <1>2

\* A new order, or a failed one that is retried, reserves its items
\* (order.service.ts:66-123, 228-247).
LEMMA OpenStep ==
  ASSUME IInv, NEW o \in Orders,
         RetryOrder(o) \/ \E c \in Clients : CommitCheckout(c, o)
  PROVE  \E items \in Inv!Bags : Inv!Reserve(o, items)
<1>0. orders \in [Orders -> OrderDocs]
  BY DEF IInv, TypeOK
<1>1. clock + Hold \in Nat
  BY ConstantTypes DEF IInv, TypeOK
<1>2. CASE RetryOrder(o)
  <2> DEFINE d == [orders[o] EXCEPT !.status = "PENDING",
                                    !.paymentStatus = "PENDING",
                                    !.expiresAt = clock + Hold]
  <2>1. d \in OrderDocs /\ d.paymentStatus = "PENDING" /\ d.items = orders[o].items
    BY <1>0, <1>1 DEF OrderDocs, Statuses, PaymentStatuses
  <2>2. orders' = [orders EXCEPT ![o] = d] /\ ReserveStock(orders[o].items)
    BY <1>0, <1>2 DEF RetryOrder, OrderDocs
  <2>3. ~HoldsStock(o) /\ orders[o].items # NoItems
    BY <1>2 DEF RetryOrder, HoldsStock, IInv, Settled
  <2>4. QED
    BY <2>1, <2>2, <2>3, ReserveStep
<1>3. ASSUME NEW c \in Clients, CommitCheckout(c, o)
      PROVE  \E items \in Inv!Bags : Inv!Reserve(o, items)
  <2> DEFINE u == checkouts[c].user
             d == [status |-> "PENDING", paymentStatus |-> "PENDING",
                   user |-> u, key |-> checkouts[c].key, items |-> cart[u],
                   expiresAt |-> clock + Hold]
  <2>1. u \in Users /\ checkouts[c].key \in Keys \cup {Nil} /\ cart[u] \in Bags
    BY <1>3 DEF CommitCheckout, IInv, TypeOK
  <2>2. d \in OrderDocs
    BY <1>1, <2>1 DEF OrderDocs, Statuses, PaymentStatuses
  <2>3. orders' = [orders EXCEPT ![o] = d] /\ ReserveStock(cart[u])
        /\ cart[u] # NoItems
    BY <1>3 DEF CommitCheckout
  <2>4. ~HoldsStock(o)
    BY <1>3 DEF CommitCheckout, HoldsStock, IInv, Settled
  <2>5. QED
    BY <2>2, <2>3, <2>4, ReserveStep
<1>4. QED
  BY <1>2, <1>3

\* A payment that arrives in time, and a move of an admin, leave stock and
\* reservations as they are (order.service.ts:142-209).
LEMMA QuietStep ==
  ASSUME IInv,
         \/ UNCHANGED <<orders, stock>>
         \/ \E o \in Orders : MarkPaid(o)
         \/ \E a \in Admins : SaveOrder(a)
  PROVE  UNCHANGED Inv!vars
<1>0. orders \in [Orders -> OrderDocs]
  BY DEF IInv, TypeOK
<1>1. CASE UNCHANGED <<orders, stock>>
  BY <1>1, StutterStep DEF HoldsStock
<1>2. ASSUME NEW o \in Orders, MarkPaid(o)
      PROVE  UNCHANGED Inv!vars
  <2>1. orders[o].paymentStatus = "PENDING" /\ orders'[o].paymentStatus = "PAID"
    BY <1>0, <1>2 DEF MarkPaid, Payable, Awaiting, OrderDocs
  <2>2. \A q \in Orders : orders'[q].items = orders[q].items
    BY <1>0, <1>2 DEF MarkPaid, OrderDocs
  <2>3. \A q \in Orders \ {o} : orders'[q] = orders[q]
    BY <1>0, <1>2 DEF MarkPaid
  <2>4. UNCHANGED stock
    BY <1>2 DEF MarkPaid, ConfirmReservedStock
  <2>5. QED
    BY <2>1, <2>2, <2>3, <2>4, StutterStep DEF HoldsStock
<1>3. ASSUME NEW a \in Admins, SaveOrder(a)
      PROVE  UNCHANGED Inv!vars
  <2>1. \A q \in Orders : /\ orders'[q].items = orders[q].items
                         /\ orders'[q].paymentStatus = orders[q].paymentStatus
    BY <1>0, <1>3 DEF SaveOrder, OrderDocs
  <2>2. QED
    BY <1>3, <2>1, StutterStep DEF HoldsStock, SaveOrder
<1>4. QED
  BY <1>1, <1>2, <1>3

\* Whatever customers, sweeps, admins, webhooks and crashes do, every step
\* reserves all the items of one order, releases all of them, or neither:
\* Order implements Inventory (product.service.ts:16-43).
THEOREM OrderImplementsInventory == OrderSpec => ImplementsInventory
<1>1. OrderInit => Inv!Init
  BY DEF OrderInit, Inv!Init, Held, HoldsStock, NoOrder, Inv!NoItems, NoItems
<1>2. IInv /\ [OrderNext]_orderVars => [Inv!Next]_Inv!vars
  <2> SUFFICES ASSUME IInv, [OrderNext]_orderVars
               PROVE  [Inv!Next]_Inv!vars
    OBVIOUS
  <2>1. ASSUME NEW o \in Orders, MarkPaymentFailed(o) \/ CancelPaid(o)
        PROVE  Inv!Next
    BY <2>1, CloseStep DEF Inv!Next
  <2>2. ASSUME NEW o \in Orders,
               RetryOrder(o) \/ \E c \in Clients : CommitCheckout(c, o)
        PROVE  Inv!Next
    BY <2>2, OpenStep DEF Inv!Next
  <2>3. CASE Tick \/ UNCHANGED orderVars
    BY <2>3, QuietStep DEF Tick, orderVars
  <2>4. ASSUME NEW u \in Users, NEW p \in Products, NEW q \in 0..MaxQty,
               EditCart(u, p, q)
        PROVE  UNCHANGED Inv!vars
    BY <2>4, QuietStep DEF EditCart
  <2>5. ASSUME NEW c \in Clients, CheckoutStep(c)
        PROVE  [Inv!Next]_Inv!vars
    BY <2>2, <2>5, QuietStep DEF CheckoutStep, LookupCheckout, DropCheckout
  <2>6. ASSUME NEW w \in Workers, SweepStep(w)
        PROVE  [Inv!Next]_Inv!vars
    BY <2>1, <2>6, QuietStep DEF SweepStep, SweepFind, SweepExpire, SweepStop
  <2>7. ASSUME NEW a \in Admins, AdminStep(a)
        PROVE  UNCHANGED Inv!vars
    BY <2>7, QuietStep
       DEF AdminStep, LoadForStatus, LoadForShipping, LoadOrder, DropRequest
  <2>8. ASSUME NEW o \in Orders, PaymentStep(o)
        PROVE  [Inv!Next]_Inv!vars
    BY <2>1, <2>2, <2>8, QuietStep DEF PaymentStep, PaidAndCartCleared
  <2>9. QED
    BY <2>3, <2>4, <2>5, <2>6, <2>7, <2>8 DEF OrderNext, ShopStep
<1>3. QED
  BY <1>1, <1>2, AlwaysInvariant, PTL
     DEF OrderSpec, ImplementsInventory, Inv!Spec

\* What is proved of Inventory holds of the stock and the holdings of Order.
LEMMA InventoryHolds == OrderSpec => [](Inv!Conservation /\ Inv!NoOversell)
<1>1. Inv!Spec <=> InvProved!Spec
  BY DEF Inv!Spec, Inv!Init, Inv!Next, Inv!vars, Inv!Reserve, Inv!Release,
         Inv!Bags, Inv!NoItems, InvProved!Spec, InvProved!Init, InvProved!Next,
         InvProved!vars, InvProved!Reserve, InvProved!Release, InvProved!Bags,
         InvProved!NoItems
<1>2. IsFiniteSet(Orders) => InvProved!IsFiniteSet(Orders)
  BY Zenon DEF IsFiniteSet, InvProved!IsFiniteSet
<1>3. InvProved!Spec => []InvProved!Conservation /\ []InvProved!NoOversell
  BY <1>2, OrderAssumption, InvProved!ConservationHolds, InvProved!NeverOversold
<1>4. \A S : Inv!Cardinality(S) = InvProved!Cardinality(S)
  BY Zenon DEF Inv!Cardinality, InvProved!Cardinality
<1>5. InvProved!Conservation => Inv!Conservation
  BY <1>4 DEF InvProved!Conservation, Inv!Conservation, InvProved!HeldUnits, Inv!HeldUnits
<1>6. InvProved!NoOversell => Inv!NoOversell
  BY <1>4 DEF InvProved!NoOversell, Inv!NoOversell, InvProved!HeldUnits, Inv!HeldUnits
<1>7. QED
  BY <1>1, <1>3, <1>5, <1>6, OrderImplementsInventory, PTL DEF ImplementsInventory

\* However checkouts, sweeps, webhooks and cancellations interleave, every
\* unit is sellable or held by one open order: stock is restored at most once
\* (order.service.ts:28-29).
THEOREM OrderConservesStock == OrderSpec => []StockConserved
BY InventoryHolds, PTL DEF StockConserved

\* No more units of a product are ever on hold than the shop began with: two
\* checkouts cannot reserve the same last unit (product.service.ts:16-20).
THEOREM OrderNeverOversells == OrderSpec => []Inv!NoOversell
BY InventoryHolds, PTL

-----------------------------------------------------------------------------
(* Idempotency keys and holds.                                             *)

\* Only the commit of a checkout gives an order its user and its key
\* (order.service.ts:99-122).
LEMMA KeysKept ==
  ASSUME IInv, [OrderNext]_orderVars,
         ~ \E c \in Clients, o \in Orders : CommitCheckout(c, o)
  PROVE  \A q \in Orders : orders'[q].user = orders[q].user
                          /\ orders'[q].key = orders[q].key
<1>1. orders \in [Orders -> OrderDocs]
  BY DEF IInv, TypeOK
<1>2. ASSUME NEW o \in Orders,
             MarkPaid(o) \/ MarkPaymentFailed(o) \/ CancelPaid(o) \/ RetryOrder(o)
      PROVE  \A q \in Orders : orders'[q].user = orders[q].user
                              /\ orders'[q].key = orders[q].key
  BY <1>1, <1>2
     DEF MarkPaid, MarkPaymentFailed, CancelPaid, RetryOrder, OrderDocs
<1>3. ASSUME NEW a \in Admins, SaveOrder(a)
      PROVE  \A q \in Orders : orders'[q].user = orders[q].user
                              /\ orders'[q].key = orders[q].key
  BY <1>1, <1>3 DEF SaveOrder, OrderDocs
<1>4. CASE UNCHANGED orders
  BY <1>4
<1>5. ASSUME NEW w \in Workers, SweepStep(w)
      PROVE  UNCHANGED orders \/ \E o \in Orders : MarkPaymentFailed(o)
  BY <1>5 DEF SweepStep, SweepFind, SweepExpire, SweepStop
<1>6. ASSUME NEW c \in Clients, CheckoutStep(c)
      PROVE  UNCHANGED orders
  BY <1>6 DEF CheckoutStep, LookupCheckout, DropCheckout
<1>7. ASSUME NEW a \in Admins, AdminStep(a)
      PROVE  UNCHANGED orders \/ SaveOrder(a)
  BY <1>7 DEF AdminStep, LoadForStatus, LoadForShipping, LoadOrder, DropRequest
<1>8. QED
  BY <1>2, <1>3, <1>4, <1>5, <1>6, <1>7
     DEF OrderNext, ShopStep, Tick, EditCart, PaymentStep, PaidAndCartCleared,
         orderVars

\* A user never gets two orders for one idempotency key, however many
\* requests with that key run at once (README.md:32).
THEOREM KeysAreUnique == OrderSpec => []OneOrderPerKey
<1>1. OrderInit => OneOrderPerKey
  BY DEF OrderInit, OneOrderPerKey, NoOrder
<1>2. IInv /\ OneOrderPerKey /\ [OrderNext]_orderVars => OneOrderPerKey'
  <2> SUFFICES ASSUME IInv, OneOrderPerKey, [OrderNext]_orderVars
               PROVE  OneOrderPerKey'
    OBVIOUS
  <2>1. ASSUME NEW c \in Clients, NEW o \in Orders, CommitCheckout(c, o)
        PROVE  OneOrderPerKey'
    <3> DEFINE u == checkouts[c].user
               k == checkouts[c].key
    <3>1. k # Nil => \A q \in Orders : ~(orders[q].user = u /\ orders[q].key = k)
      BY <2>1 DEF CommitCheckout, KeyFree, Existing
    <3>2. orders'[o].user = u /\ orders'[o].key = k
      BY <2>1 DEF CommitCheckout, IInv, TypeOK
    <3>3. \A q \in Orders \ {o} : orders'[q] = orders[q]
      BY <2>1 DEF CommitCheckout, IInv, TypeOK
    <3>4. QED
      BY <3>1, <3>2, <3>3 DEF OneOrderPerKey
  <2>2. CASE ~ \E c \in Clients, o \in Orders : CommitCheckout(c, o)
    BY <2>2, KeysKept DEF OneOrderPerKey
  <2>3. QED
    BY <2>1, <2>2
<1>3. QED
  BY <1>1, <1>2, AlwaysInvariant, PTL DEF OrderSpec

\* A sweep never cancels an order whose hold has not run out, however old its
\* list of candidates (order.service.ts:249-264).
THEOREM HoldsAreRespected == OrderSpec => SweepRespectsHold
<1>1. IInv /\ [OrderNext]_orderVars =>
        [\A o \in Orders :
           (sweeps' # sweeps /\ Awaiting(o) /\ orders[o].expiresAt > clock)
             => Awaiting(o)']_orderVars
  <2> SUFFICES ASSUME IInv, [OrderNext]_orderVars, NEW o \in Orders,
                      sweeps' # sweeps, Awaiting(o),
                      orders[o].expiresAt > clock
               PROVE  Awaiting(o)'
    OBVIOUS
  <2>1. orders \in [Orders -> OrderDocs] /\ clock \in Nat
    BY ConstantTypes DEF IInv, TypeOK
  <2>2. PICK w \in Workers : SweepStep(w)
    BY DEF OrderNext, ShopStep, Tick, EditCart, CheckoutStep, LookupCheckout,
           CommitCheckout, DropCheckout, AdminStep, LoadForStatus,
           LoadForShipping, LoadOrder, SaveOrder, DropRequest, PaymentStep,
           PaidAndCartCleared, orderVars
  <2>3. CASE UNCHANGED orders
    BY <2>3 DEF Awaiting
  <2>4. ASSUME NEW q \in Orders, MarkPaymentFailed(q), Overdue(q, sweeps[w].now)
        PROVE  Awaiting(o)'
    <3>1. sweeps[w].now \in Nat /\ sweeps[w].now <= clock
      BY ConstantTypes DEF IInv, TypeOK, SweepsStarted
    <3>2. orders[q].expiresAt \in Nat /\ orders[q].expiresAt <= sweeps[w].now
      BY <2>1, <2>4 DEF Overdue, OrderDocs
    <3>3. orders[o].expiresAt \in Nat
      BY <2>1 DEF OrderDocs
    <3>4. q # o
      BY <2>1, <3>1, <3>2, <3>3
    <3>5. orders'[o] = orders[o]
      BY <2>1, <2>4, <3>4 DEF MarkPaymentFailed
    <3>6. QED
      BY <3>5 DEF Awaiting
  <2>5. QED
    BY <2>2, <2>3, <2>4 DEF SweepStep, SweepFind, SweepExpire, SweepStop
<1>2. QED
  BY <1>1, AlwaysInvariant, PTL DEF OrderSpec, SweepRespectsHold
=============================================================================
