------------------------------ MODULE Shipping ------------------------------
(***************************************************************************)
(* Shipping partners, the fee a checkout is quoted, and the tracking link: *)
(* ShippingService (shipping.service.ts) and its callers in order.service. *)
(* Admins edit partners while customers check out, and customers track     *)
(* orders whose partner has left since.                                    *)
(*                                                                         *)
(* An update may set any field to null: the validators skip it.  As a      *)
(* charge, null adds and sorts as 0 does; as `active` it is not true; as a *)
(* threshold it is not undefined, and any subtotal is >= null.             *)
(***************************************************************************)
EXTENDS Naturals

CONSTANTS
  Codes,      \* upper-cased partner codes: every write and query folds case
  Orders,
  Admins,     \* updateShipping requests in progress at once
  Charges,    \* amounts in hundredths, the unit quote rounds to
  Subtotals,  \* likewise
  MaxItems,   \* bound: items of an order
  Templates,  \* tracking URL templates
  Nil,        \* no partner, no link
  Undefined,  \* a threshold that was never set
  Null        \* a threshold that was set to null

ShippingAssumption ==
  /\ Charges \subseteq Nat /\ Subtotals \subseteq Nat
  /\ MaxItems \in Nat
  /\ Nil \notin Codes \cup Templates
  /\ Undefined # Null /\ {Undefined, Null} \cap Nat = {}

VARIABLES
  partners,  \* the shippingpartners collection
  shipments, \* the shipping part of the orders
  updates    \* updateShipping calls between their reads and their save

shippingVars == <<partners, shipments, updates>>

NoPartner ==
  [exists |-> FALSE, baseCharge |-> 0, perItemCharge |-> 0,
   freeShippingThreshold |-> Undefined, active |-> FALSE, template |-> Nil]
NoShipment ==
  [code |-> Nil, fee |-> 0, trackingNumber |-> FALSE, trackingUrl |-> Nil]

\* What an update has read of the order, whether the order will then have a
\* tracking number, and the link it is to store.
NoUpdate ==
  [at |-> "idle", order |-> Nil, loaded |-> Nil, tracked |-> FALSE, url |-> Nil]

Thresholds == Charges \cup {Undefined, Null}
Quantities == 1..MaxItems

TypeOK ==
  /\ partners \in [Codes ->
       [exists : BOOLEAN, baseCharge : Charges \cup {0},
        perItemCharge : Charges \cup {0}, freeShippingThreshold : Thresholds,
        active : BOOLEAN, template : Templates \cup {Nil}]]
  /\ shipments \in [Orders ->
       [code : Codes \cup {Nil}, fee : Nat, trackingNumber : BOOLEAN,
        trackingUrl : Templates \cup {Nil}]]
  /\ updates \in [Admins ->
       [at : {"idle", "link", "save"}, order : Orders \cup {Nil},
        loaded : Templates \cup {Nil}, tracked : BOOLEAN,
        url : Templates \cup {Nil}]]

Init ==
  /\ partners = [c \in Codes |-> NoPartner]
  /\ shipments = [o \in Orders |-> NoShipment]
  /\ updates = [a \in Admins |-> NoUpdate]

-----------------------------------------------------------------------------
(* Quotes.                                                                 *)

\* Faulty: the comparison is turned round.
ShipsFree_Below(c, subtotal) ==
  LET threshold == partners[c].freeShippingThreshold
  IN  threshold # Undefined /\ (threshold = Null \/ subtotal <= threshold)

ShipsFree(c, subtotal) ==
  LET threshold == partners[c].freeShippingThreshold
  IN  threshold # Undefined /\ (threshold = Null \/ subtotal >= threshold)

Fee(c, subtotal, quantity) ==
  IF ShipsFree(c, subtotal) THEN 0
  ELSE partners[c].baseCharge + partners[c].perItemCharge * quantity

Active == {c \in Codes : partners[c].active}

\* sort({ baseCharge: 1, perItemCharge: 1 }): c comes before, or with, d.
Before(c, d) ==
  \/ partners[c].baseCharge < partners[d].baseCharge
  \/ /\ partners[c].baseCharge = partners[d].baseCharge
     /\ partners[c].perItemCharge <= partners[d].perItemCharge

\* The partners a checkout may get: the one it asked for, or a first one.
Offered(wanted) ==
  IF wanted # Nil THEN Active \cap {wanted}
  ELSE {c \in Active : \A d \in Active : Before(c, d)}

\* createInTransaction: without a partner the checkout fails.
Checkout(o, wanted, subtotal, quantity) ==
  /\ shipments[o] = NoShipment
  /\ \E c \in Offered(wanted) :
       shipments' = [shipments EXCEPT ![o] =
         [NoShipment EXCEPT !.code = c, !.fee = Fee(c, subtotal, quantity)]]
  /\ UNCHANGED <<partners, updates>>

-----------------------------------------------------------------------------
(* Admins and partners.                                                    *)

\* The unique index refuses a code that is taken.
CreatePartner(c, base, item, threshold, template) ==
  /\ ~partners[c].exists
  /\ partners' = [partners EXCEPT ![c] =
       [exists |-> TRUE, baseCharge |-> base, perItemCharge |-> item,
        freeShippingThreshold |-> threshold, active |-> TRUE,
        template |-> template]]
  /\ UNCHANGED <<shipments, updates>>

\* findOneAndUpdate: one step, and no field is looked at before.
UpdatePartner(c, field, value) ==
  /\ partners[c].exists
  /\ partners' = [partners EXCEPT ![c][field] = value]
  /\ UNCHANGED <<shipments, updates>>

EditPartner(c) ==
  \/ \E charge \in Charges \cup {0} :
       UpdatePartner(c, "baseCharge", charge) \/ UpdatePartner(c, "perItemCharge", charge)
  \/ \E threshold \in Charges \cup {Null} :
       UpdatePartner(c, "freeShippingThreshold", threshold)
  \/ \E active \in BOOLEAN : UpdatePartner(c, "active", active)
  \/ \E template \in Templates \cup {Nil} : UpdatePartner(c, "template", template)

-----------------------------------------------------------------------------
(* Tracking.                                                               *)

\* Faulty: only partners that still deliver are asked.
TrackingUrl_Active(o) ==
  LET c == shipments[o].code
  IN  IF c \in Active /\ shipments[o].trackingNumber THEN partners[c].template ELSE Nil

\* trackingUrl: the link with the partner's template, if it has one.
TrackingUrl(o) ==
  LET c == shipments[o].code
  IN  IF c # Nil /\ shipments[o].trackingNumber THEN partners[c].template ELSE Nil

\* updateShipping reads the order, then the partner, then saves; `number`
\* tells whether the admin sent a tracking number.
LoadShipment(a, o, number) ==
  /\ updates[a] = NoUpdate
  /\ shipments[o] # NoShipment
  /\ updates' = [updates EXCEPT ![a] =
       [NoUpdate EXCEPT !.at = "link", !.order = o,
                        !.loaded = shipments[o].trackingUrl,
                        !.tracked = shipments[o].trackingNumber \/ number]]
  /\ UNCHANGED <<partners, shipments>>

MakeLink(a) ==
  LET c == shipments[updates[a].order].code
  IN  /\ updates[a].at = "link"
      /\ updates' = [updates EXCEPT ![a].at = "save",
           ![a].url = IF updates[a].tracked THEN partners[c].template ELSE Nil]
      /\ UNCHANGED <<partners, shipments>>

\* save() writes the number if it was sent, and the link if it is not the
\* one that was loaded.
SaveShipment(a) ==
  LET u == updates[a]
  IN  /\ u.at = "save"
      /\ shipments' = [shipments EXCEPT
           ![u.order].trackingNumber = @ \/ u.tracked,
           ![u.order].trackingUrl = IF u.url = u.loaded THEN @ ELSE u.url]
      /\ updates' = [updates EXCEPT ![a] = NoUpdate]
      /\ UNCHANGED partners

DropUpdate(a) ==
  /\ updates[a] # NoUpdate
  /\ updates' = [updates EXCEPT ![a] = NoUpdate]
  /\ UNCHANGED <<partners, shipments>>

\* trackingForUser: the stored link, else a new one.
TrackingForUser(o) ==
  IF shipments[o].trackingUrl # Nil THEN shipments[o].trackingUrl ELSE TrackingUrl(o)

Next ==
  \/ \E o \in Orders, wanted \in Codes \cup {Nil}, s \in Subtotals, q \in Quantities :
       Checkout(o, wanted, s, q)
  \/ \E c \in Codes, base, item \in Charges \cup {0},
        threshold \in Thresholds, template \in Templates \cup {Nil} :
       CreatePartner(c, base, item, threshold, template)
  \/ \E c \in Codes : EditPartner(c)
  \/ \E a \in Admins, o \in Orders, number \in BOOLEAN : LoadShipment(a, o, number)
  \/ \E a \in Admins : MakeLink(a) \/ SaveShipment(a) \/ DropUpdate(a)

ShippingSpec == Init /\ [][Next]_shippingVars

-----------------------------------------------------------------------------
(* Properties.                                                             *)

\* Whatever admins made of the partners, thresholds of null among it, spending
\* more with the same partner is never dearer to ship (shipping.service.ts:23-25).
SpendingMoreShipsNoDearer ==
  \A c \in Active, q \in Quantities, s1, s2 \in Subtotals :
    s1 <= s2 => Fee(c, s2, q) <= Fee(c, s1, q)

\* An order that has left can be tracked whatever became of its partner: as
\* long as the partner has a template there is a link, stored or made anew,
\* and no overlapping update takes it away
\* (shipping.service.ts:30-34, order.service.ts:163).
ShippedCanBeTracked ==
  \A o \in Orders :
    LET c == shipments[o].code
    IN  c # Nil /\ shipments[o].trackingNumber =>
          partners[c].exists /\ (partners[c].template # Nil => TrackingForUser(o) # Nil)
=============================================================================
