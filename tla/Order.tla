------------------------------- MODULE Order -------------------------------
(***************************************************************************)
(* OrderService (order.service.ts) with the stock it reserves through      *)
(* ProductService and the cart it checks out.  Every await of the code is  *)
(* a point where another request, or another replica of the server, may    *)
(* run.  A MongoDB transaction, and a conditional update of one document,  *)
(* is one step; a read followed by a later write is two.                   *)
(*                                                                         *)
(* PaymentService calls MarkPaid and MarkPaymentFailed and finishes        *)
(* cancellations itself.  In this module it may do so at any time; module  *)
(* Payment says when it does.                                              *)
(***************************************************************************)
EXTENDS Naturals, FiniteSets

CONSTANTS
  Orders,        \* identifiers of orders (documents yet to be created too)
  Users,         \* customers
  Keys,          \* values of the Idempotency-Key header
  Products,      \* identifiers of products
  MaxQty,        \* bound: units of one product in a cart
  InitialStock,  \* units of each product when the model starts
  Hold,          \* PAYMENT_HOLD_MS, in ticks of the clock
  MaxTime,       \* bound: the last tick; no hold is granted that outlives it
  Clients,       \* POST /orders requests in progress at once
  Workers,       \* expiry sweeps in progress at once, over all replicas
  Admins,        \* admin PATCH requests in progress at once
  Nil            \* no user, no key, no order, no request

ASSUME OrderAssumption ==
  /\ IsFiniteSet(Orders)
  /\ MaxQty \in Nat
  /\ InitialStock \in [Products -> Nat]
  /\ Hold \in Nat \ {0}
  /\ MaxTime \in Nat
  /\ Nil \notin Orders \cup Users \cup Keys

VARIABLES
  orders,     \* the orders collection
  stock,      \* products.stock
  cart,       \* carts.items of each user, as a bag
  clock,      \* Date.now()
  checkouts,  \* createFromCart calls between their lookup and transaction
  sweeps,     \* expirePendingOrders calls: their `now`, candidates left
  admins      \* admin requests between findById and save

orderVars == <<orders, stock, cart, clock, checkouts, sweeps, admins>>

-----------------------------------------------------------------------------
(* order.schema.ts.  "NONE" is a document that does not exist yet.         *)

Fulfilment == {"PAID", "CONFIRMED", "PROCESSING", "PACKED", "SHIPPED",
               "OUT_FOR_DELIVERY", "DELIVERED"}
Statuses == Fulfilment \cup
  {"NONE", "PENDING", "PAYMENT_FAILED", "CANCELLED", "REFUNDED"}
PaymentStatuses == {"NONE", "PENDING", "PAID", "FAILED", "REFUNDED"}

\* The moves an admin may ask for: `allowed`, the same table in both handlers.
Allowed ==
  {<<"PAID", "PROCESSING">>, <<"PAID", "PACKED">>,
   <<"CONFIRMED", "PROCESSING">>, <<"CONFIRMED", "PACKED">>,
   <<"PROCESSING", "PACKED">>, <<"PACKED", "SHIPPED">>,
   <<"SHIPPED", "OUT_FOR_DELIVERY">>, <<"SHIPPED", "DELIVERED">>,
   <<"OUT_FOR_DELIVERY", "DELIVERED">>}

\* UpdateShippingDto.status: @IsIn.
ShippingTargets == {"SHIPPED", "OUT_FOR_DELIVERY", "DELIVERED"}

Bags == [Products -> 0..MaxQty]
NoItems == [p \in Products |-> 0]
NoExpiry == 0
NoOrder == [status |-> "NONE", paymentStatus |-> "NONE", user |-> Nil,
            key |-> Nil, items |-> NoItems, expiresAt |-> NoExpiry]
Idle == [user |-> Nil, key |-> Nil]
NoSweep == [now |-> 0, todo |-> {}]
NoRequest == [order |-> Nil, target |-> "NONE"]

OrderDocs ==
  [status : Statuses, paymentStatus : PaymentStatuses,
   user : Users \cup {Nil}, key : Keys \cup {Nil},
   items : Bags, expiresAt : Nat]

TypeOK ==
  /\ orders \in [Orders -> OrderDocs]
  /\ stock \in [Products -> Nat]
  /\ cart \in [Users -> Bags]
  /\ clock \in 0..MaxTime
  /\ checkouts \in [Clients -> [user : Users \cup {Nil}, key : Keys \cup {Nil}]]
  /\ sweeps \in [Workers -> [now : 0..MaxTime, todo : SUBSET Orders]]
  /\ admins \in [Admins -> [order : Orders \cup {Nil}, target : Statuses]]

OrderInit ==
  /\ orders = [o \in Orders |-> NoOrder]
  /\ stock = InitialStock
  /\ cart = [u \in Users |-> NoItems]
  /\ clock = 0
  /\ checkouts = [c \in Clients |-> Idle]
  /\ sweeps = [w \in Workers |-> NoSweep]
  /\ admins = [a \in Admins |-> NoRequest]

-----------------------------------------------------------------------------
(* ProductService: the stock side of an order, inside its transaction.     *)

\* Faulty: a decrement that does not look at the stock.
ReserveStock_Unconditional(items) ==
  stock' = [p \in Products |-> stock[p] - items[p]]

\* One conditional decrement per line; a line that finds too little stock
\* throws and the transaction takes the others back.
ReserveStock(items) ==
  /\ \A p \in Products : stock[p] >= items[p]
  /\ stock' = [p \in Products |-> stock[p] - items[p]]

\* Reserved units have left the sellable stock already.
ConfirmReservedStock == UNCHANGED stock

ReleaseStock(o) ==
  stock' = [p \in Products |-> stock[p] + orders[o].items[p]]

-----------------------------------------------------------------------------
(* What OrderService and PaymentService do to one order, as conditional    *)
(* updates inside a transaction.                                           *)

Awaiting(o) ==
  orders[o].status = "PENDING" /\ orders[o].paymentStatus = "PENDING"

\* The filter of the sweep's queries, { expiresAt: { $lte: now } } and all.
Overdue(o, now) ==
  Awaiting(o) /\ orders[o].expiresAt # NoExpiry /\ orders[o].expiresAt <= now

\* The filter of markPaid.
Payable(o) ==
  /\ Awaiting(o)
  /\ orders[o].expiresAt > clock \/ orders[o].expiresAt = NoExpiry

\* Faulty: the payment's word for it, which orders do not have.
MarkPaid_Captured(o) ==
  /\ Payable(o)
  /\ orders' = [orders EXCEPT ![o].status = "PAID", ![o].paymentStatus = "CAPTURED",
                              ![o].expiresAt = NoExpiry]
  /\ ConfirmReservedStock

MarkPaid(o) ==
  /\ Payable(o)
  /\ orders' = [orders EXCEPT ![o].status = "PAID", ![o].paymentStatus = "PAID",
                              ![o].expiresAt = NoExpiry]
  /\ ConfirmReservedStock

\* Faulty: markPaymentFailed without the state in its filter.
MarkPaymentFailed_AnyState(o) ==
  /\ orders[o].status # "NONE"
  /\ orders' = [orders EXCEPT ![o].status = "CANCELLED",
                              ![o].paymentStatus = "FAILED",
                              ![o].expiresAt = NoExpiry]
  /\ ReleaseStock(o)

MarkPaymentFailed(o) ==
  /\ Awaiting(o)
  /\ orders' = [orders EXCEPT ![o].status = "CANCELLED",
                              ![o].paymentStatus = "FAILED",
                              ![o].expiresAt = NoExpiry]
  /\ ReleaseStock(o)

\* The order half of cancelOrder's transaction: what it may still cancel.
Cancellable(o) ==
  /\ orders[o].paymentStatus = "PAID"
  /\ orders[o].status \in {"PAID", "CONFIRMED", "PROCESSING"}

CancelPaid(o) ==
  /\ Cancellable(o)
  /\ orders' = [orders EXCEPT ![o].status = "CANCELLED",
                              ![o].paymentStatus = "REFUNDED"]
  /\ ReleaseStock(o)

\* Faulty: a retry that trusts the old reservation.
RetryOrder_NoReserve(o) ==
  /\ orders[o].status = "CANCELLED" /\ orders[o].paymentStatus = "FAILED"
  /\ clock + Hold <= MaxTime
  /\ orders' = [orders EXCEPT ![o].status = "PENDING",
                              ![o].paymentStatus = "PENDING",
                              ![o].expiresAt = clock + Hold]
  /\ UNCHANGED stock

\* Faulty: a retry that forgets to set a new hold.
RetryOrder_NoHold(o) ==
  /\ orders[o].status = "CANCELLED" /\ orders[o].paymentStatus = "FAILED"
  /\ clock + Hold <= MaxTime
  /\ ReserveStock(orders[o].items)
  /\ orders' = [orders EXCEPT ![o].status = "PENDING",
                              ![o].paymentStatus = "PENDING"]

\* retryPayment: one transaction that reserves the stock again.
RetryOrder(o) ==
  /\ orders[o].status = "CANCELLED" /\ orders[o].paymentStatus = "FAILED"
  /\ clock + Hold <= MaxTime
  /\ ReserveStock(orders[o].items)
  /\ orders' = [orders EXCEPT ![o].status = "PENDING",
                              ![o].paymentStatus = "PENDING",
                              ![o].expiresAt = clock + Hold]

-----------------------------------------------------------------------------
(* Time, carts and POST /orders.                                           *)

Tick ==
  /\ clock < MaxTime
  /\ clock' = clock + 1
  /\ UNCHANGED <<orders, stock, cart, checkouts, sweeps, admins>>

\* Any write of CartService: a line gets a quantity, or goes (q = 0).  The
\* stock it was checked against was read earlier, so it may be gone by now.
EditCart(u, p, q) ==
  /\ q <= InitialStock[p]
  /\ cart' = [cart EXCEPT ![u][p] = q]
  /\ UNCHANGED <<orders, stock, clock, checkouts, sweeps, admins>>

Existing(u, k) ==
  {o \in Orders : orders[o].user = u /\ orders[o].key = k}

\* The lookup by idempotency key, before the transaction.  A request that
\* finds an order returns it and ends there.
LookupCheckout(c, u, k) ==
  /\ checkouts[c] = Idle
  /\ k # Nil => Existing(u, k) = {}
  /\ checkouts' = [checkouts EXCEPT ![c] = [user |-> u, key |-> k]]
  /\ UNCHANGED <<orders, stock, cart, clock, sweeps, admins>>

\* Faulty: no unique index on (userId, idempotencyKey).
KeyFree_NoIndex(u, k) == TRUE

\* The partial unique index: keys collide, orders without a key do not.
KeyFree(u, k) == k # Nil => Existing(u, k) = {}

\* createInTransaction commits: stock reserved and order created at once.
CommitCheckout(c, o) ==
  LET u == checkouts[c].user
      k == checkouts[c].key
  IN  /\ u # Nil
      /\ orders[o].status = "NONE"
      /\ cart[u] # NoItems
      /\ KeyFree(u, k)
      /\ clock + Hold <= MaxTime
      /\ ReserveStock(cart[u])
      /\ orders' = [orders EXCEPT ![o] =
           [status |-> "PENDING", paymentStatus |-> "PENDING", user |-> u,
            key |-> k, items |-> cart[u], expiresAt |-> clock + Hold]]
      /\ checkouts' = [checkouts EXCEPT ![c] = Idle]
      /\ UNCHANGED <<cart, clock, sweeps, admins>>

\* The request ends without an order: no address, an empty cart, too little
\* stock, a key taken meanwhile, a lost connection or a crash.
DropCheckout(c) ==
  /\ checkouts[c] # Idle
  /\ checkouts' = [checkouts EXCEPT ![c] = Idle]
  /\ UNCHANGED <<orders, stock, cart, clock, sweeps, admins>>

-----------------------------------------------------------------------------
(* The expiry sweep: every replica runs one each minute, and a slow one    *)
(* may still be running when the next begins.                              *)

SweepFind(w) ==
  LET found == {o \in Orders : Overdue(o, clock)}
  IN  /\ sweeps[w] = NoSweep
      /\ found # {}
      /\ sweeps' = [sweeps EXCEPT ![w] = [now |-> clock, todo |-> found]]
      /\ UNCHANGED <<orders, stock, cart, clock, checkouts, admins>>

SweepDone(w, o) ==
  LET left == sweeps[w].todo \ {o}
  IN  sweeps' = [sweeps EXCEPT ![w] =
        IF left = {} THEN NoSweep ELSE [@ EXCEPT !.todo = left]]

\* Faulty: the sweep trusts the list it made.
SweepExpire_NoRecheck(w, o) ==
  /\ o \in sweeps[w].todo
  /\ \/ MarkPaymentFailed(o)
     \/ ~Awaiting(o) /\ UNCHANGED <<orders, stock>>
  /\ SweepDone(w, o)
  /\ UNCHANGED <<cart, clock, checkouts, admins>>

\* One candidate, read again inside its transaction with the sweep's `now`.
SweepExpire(w, o) ==
  /\ o \in sweeps[w].todo
  /\ \/ Overdue(o, sweeps[w].now) /\ MarkPaymentFailed(o)
     \/ ~Overdue(o, sweeps[w].now) /\ UNCHANGED <<orders, stock>>
  /\ SweepDone(w, o)
  /\ UNCHANGED <<cart, clock, checkouts, admins>>

\* A transaction throws, or the process dies: the candidates left are not
\* looked at until a later sweep finds them.
SweepStop(w) ==
  /\ sweeps[w] # NoSweep
  /\ sweeps' = [sweeps EXCEPT ![w] = NoSweep]
  /\ UNCHANGED <<orders, stock, cart, clock, checkouts, admins>>

-----------------------------------------------------------------------------
(* Admin requests.  Both handlers read the order, check the move against   *)
(* what they read, and save the changed paths only, whatever the document  *)
(* has become.                                                             *)

LoadOrder(a, o, t) ==
  /\ admins[a] = NoRequest
  /\ <<orders[o].status, t>> \in Allowed
  /\ admins' = [admins EXCEPT ![a] = [order |-> o, target |-> t]]
  /\ UNCHANGED <<orders, stock, cart, clock, checkouts, sweeps>>

\* PATCH /orders/:id/status
LoadForStatus(a, o, t) == LoadOrder(a, o, t)

\* PATCH /orders/:id/shipping
LoadForShipping(a, o, t) ==
  /\ orders[o].paymentStatus = "PAID"
  /\ t \in ShippingTargets
  /\ LoadOrder(a, o, t)

SaveOrder(a) ==
  /\ admins[a] # NoRequest
  /\ orders' = [orders EXCEPT ![admins[a].order].status = admins[a].target]
  /\ admins' = [admins EXCEPT ![a] = NoRequest]
  /\ UNCHANGED <<stock, cart, clock, checkouts, sweeps>>

DropRequest(a) ==
  /\ admins[a] # NoRequest
  /\ admins' = [admins EXCEPT ![a] = NoRequest]
  /\ UNCHANGED <<orders, stock, cart, clock, checkouts, sweeps>>

-----------------------------------------------------------------------------
CheckoutStep(c) ==
  \/ \E u \in Users, k \in Keys \cup {Nil} : LookupCheckout(c, u, k)
  \/ \E o \in Orders : CommitCheckout(c, o)
  \/ DropCheckout(c)

SweepStep(w) ==
  \/ SweepFind(w)
  \/ \E o \in Orders : SweepExpire(w, o)
  \/ SweepStop(w)

AdminStep(a) ==
  \/ \E o \in Orders, t \in Statuses :
       LoadForStatus(a, o, t) \/ LoadForShipping(a, o, t)
  \/ SaveOrder(a)
  \/ DropRequest(a)

\* What PaymentService does to an order.  A captured payment empties the
\* customer's cart in the same transaction.
PaidAndCartCleared(o) ==
  /\ MarkPaid(o)
  /\ cart' = [cart EXCEPT ![orders[o].user] = NoItems]
  /\ UNCHANGED <<clock, checkouts, sweeps, admins>>

PaymentStep(o) ==
  \/ PaidAndCartCleared(o)
  \/ /\ MarkPaymentFailed(o) \/ CancelPaid(o) \/ RetryOrder(o)
     /\ UNCHANGED <<cart, clock, checkouts, sweeps, admins>>

\* Everything but the payment service.
ShopStep ==
  \/ Tick
  \/ \E u \in Users, p \in Products, q \in 0..MaxQty : EditCart(u, p, q)
  \/ \E c \in Clients : CheckoutStep(c)
  \/ \E w \in Workers : SweepStep(w)
  \/ \E a \in Admins : AdminStep(a)

OrderNext == ShopStep \/ \E o \in Orders : PaymentStep(o)

OrderSpec == OrderInit /\ [][OrderNext]_orderVars

\* setInterval keeps starting sweeps and time passes; a sweep may fail, but
\* not for ever without one candidate of its list being dealt with.
Fairness ==
  /\ WF_orderVars(Tick)
  /\ \A w \in Workers :
       /\ WF_orderVars(SweepFind(w))
       /\ SF_orderVars(\E o \in Orders : SweepExpire(w, o))

FairOrderSpec == OrderSpec /\ Fairness

-----------------------------------------------------------------------------
(* Properties.                                                             *)

HoldsStock(o) == orders[o].paymentStatus \in {"PENDING", "PAID"}

\* An order holds its items from the commit that creates (or retries) it
\* until it fails, expires or is cancelled.
Held == [o \in Orders |-> IF HoldsStock(o) THEN orders[o].items ELSE NoItems]

Inv == INSTANCE Inventory WITH held <- Held

\* However checkouts, sweeps, webhooks and cancellations interleave, every
\* unit is either sellable or held by one open order ("guarantees stock is
\* restored at most once", order.service.ts:28-29).
StockConserved == Inv!Conservation

\* Every step on an order reserves all its items, releases all of them, or
\* leaves stock and reservations alone: Order implements Inventory.
ImplementsInventory == Inv!Spec

\* An order that is being fulfilled has been paid for: no stale save of an
\* admin can bring a cancelled unpaid order back (order.service.ts:142-158).
FulfilledOnlyIfPaid ==
  \A o \in Orders : orders[o].status \in Fulfilment =>
    orders[o].paymentStatus \in {"PAID", "REFUNDED"}

\* "Send a unique Idempotency-Key header so client retries cannot create a
\* second order" (README.md:32), also when both pass the lookup first.
OneOrderPerKey ==
  \A o1, o2 \in Orders :
    /\ orders[o1].key # Nil
    /\ orders[o1].key = orders[o2].key
    /\ orders[o1].user = orders[o2].user
    => o1 = o2

\* Money settles one way: a paid order is only ever refunded, and a refunded
\* one stays so; no sweep, late failure or retry reopens it.
PaymentIsFinal ==
  [][\A o \in Orders :
       /\ orders[o].paymentStatus = "PAID" =>
            orders'[o].paymentStatus \in {"PAID", "REFUNDED"}
       /\ orders[o].paymentStatus = "REFUNDED" =>
            orders'[o].paymentStatus = "REFUNDED"]_orderVars

\* A sweep, however old its list, never cancels an order whose hold has not
\* run out: one retried since the list was made keeps its new hold.
SweepRespectsHold ==
  [][\A o \in Orders :
       (sweeps' # sweeps /\ Awaiting(o) /\ orders[o].expiresAt > clock)
         => Awaiting(o)']_orderVars

\* A reservation does not outlive its hold for ever: an order awaiting
\* payment is paid for or gives its stock back, even if sweeps fail.
HoldEnds ==
  \A o \in Orders : Awaiting(o) ~> ~Awaiting(o)

\* Why FulfilledOnlyIfPaid and PaymentIsFinal hold: the two statuses of an
\* order agree, no order is without items, and an admin's request in progress
\* is about an order that was paid for when it was read.
Settled ==
  /\ \A o \in Orders :
       /\ orders[o].status = "NONE" <=> orders[o].paymentStatus = "NONE"
       /\ orders[o].status = "PENDING" <=> orders[o].paymentStatus = "PENDING"
       /\ orders[o].paymentStatus = "FAILED" => orders[o].status = "CANCELLED"
       /\ orders[o].status # "NONE" =>
            orders[o].items # NoItems /\ orders[o].user \in Users
  /\ \A a \in Admins : admins[a] # NoRequest =>
       /\ admins[a].order \in Orders
       /\ admins[a].target \in Fulfilment
       /\ orders[admins[a].order].paymentStatus \in {"PAID", "REFUNDED"}

\* Why SweepRespectsHold holds: a sweep's `now` is not ahead of the clock.
SweepsStarted == \A w \in Workers : sweeps[w].now <= clock

\* README.md:36: an order is refunded before it is cancelled; an order that
\* is refunded is a cancelled one, and not one being packed.
RefundedIsCancelled ==
  \A o \in Orders :
    orders[o].paymentStatus = "REFUNDED" => orders[o].status = "CANCELLED"
=============================================================================
