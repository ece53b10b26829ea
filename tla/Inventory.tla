----------------------------- MODULE Inventory -----------------------------
(***************************************************************************)
(* What the shop promises about its stock, whatever the order and payment  *)
(* services do: a unit is either sellable or held by exactly one order.    *)
(* An order takes all the units it asks for in one step, gives all of them *)
(* back in one step, and cannot give back what it does not hold.           *)
(*                                                                         *)
(* ProductService (product.service.ts:16-43) states the promise: "A        *)
(* reservation is represented by removing units from sellable stock".      *)
(* Module Order is shown to implement this specification.                  *)
(***************************************************************************)
EXTENDS Naturals, FiniteSets

CONSTANTS
  Orders,        \* identifiers of orders
  Products,      \* identifiers of products
  MaxQty,        \* most units of one product one order may ask for
  InitialStock   \* sellable units of each product before any order

ASSUME InventoryAssumption ==
  /\ IsFiniteSet(Orders)
  /\ MaxQty \in Nat
  /\ InitialStock \in [Products -> Nat]

VARIABLES
  stock,   \* stock[p]: sellable units of p
  held     \* held[o][p]: units of p that order o holds

vars == <<stock, held>>

Bags == [Products -> 0..MaxQty]
NoItems == [p \in Products |-> 0]

TypeOK ==
  /\ stock \in [Products -> Nat]
  /\ held \in [Orders -> Bags]

Init ==
  /\ stock = InitialStock
  /\ held = [o \in Orders |-> NoItems]

\* Faulty: a reservation that does not look at the stock.
Reserve_Unconditional(o, items) ==
  /\ held[o] = NoItems
  /\ items # NoItems
  /\ stock' = [p \in Products |-> stock[p] - items[p]]
  /\ held' = [held EXCEPT ![o] = items]

Reserve(o, items) ==
  /\ held[o] = NoItems
  /\ items # NoItems
  /\ \A p \in Products : stock[p] >= items[p]
  /\ stock' = [p \in Products |-> stock[p] - items[p]]
  /\ held' = [held EXCEPT ![o] = items]

\* Faulty: a release that may be repeated.
Release_Again(o) ==
  /\ held[o] # NoItems
  /\ stock' = [p \in Products |-> stock[p] + held[o][p]]
  /\ UNCHANGED held

Release(o) ==
  /\ held[o] # NoItems
  /\ stock' = [p \in Products |-> stock[p] + held[o][p]]
  /\ held' = [held EXCEPT ![o] = NoItems]

Next ==
  \E o \in Orders :
    \/ \E items \in Bags : Reserve(o, items)
    \/ Release(o)

Spec == Init /\ [][Next]_vars

-----------------------------------------------------------------------------
\* The units of p that are out on hold, each named by its order and its
\* position in that order: a set, so that units are counted and not added.
HeldUnits(p) == {u \in Orders \X (1..MaxQty) : u[2] <= held[u[1]][p]}

\* No unit is lost and none is made up: what is sellable and what orders hold
\* add up to what the shop started with.  This is what "guarantees stock is
\* restored at most once" (order.service.ts:28-29) comes to.
Conservation ==
  \A p \in Products :
    stock[p] + Cardinality(HeldUnits(p)) = InitialStock[p]

\* No overselling: open orders never hold more units of a product than the
\* shop has ("two checkouts cannot reserve the same last unit",
\* product.service.ts:16-20).
NoOversell ==
  \A p \in Products : Cardinality(HeldUnits(p)) <= InitialStock[p]
=============================================================================
